------------------------------ MODULE CoreText ------------------------------
(***************************************************************************)
(* How the C++ core writes and reads JSON (gateway_protocol.cpp and        *)
(* device_identity.cpp).  It has no JSON parser: a member is found by the  *)
(* first place in the whole text where its name stands in quotes.  The     *)
(* two files have an escaper and a field reader each, which differ.        *)
(***************************************************************************)
EXTENDS JsonText

\* std::string::find, from position i on; 0 where it finds nothing or was
\* told to start from nothing.
Find(t, c, i) ==
  IF i = 0 THEN 0 ELSE SelectInSubSeq(t, i, Len(t), LAMBDA x : x = c)

KeyAt(t, key) ==
  LET names == {i \in 2 .. Len(t) - 1 : /\ t[i] = key
                                         /\ t[i - 1] = Quote
                                         /\ t[i + 1] = Quote}
  IN  IF names = {} THEN 0 ELSE Min(names) - 1

\* Where the value of a member begins: after its colon.
ValueAt(t, key) ==
  LET colon == Find(t, ":", KeyAt(t, key))
  IN  IF colon = 0 THEN 0 ELSE colon + 1

(***************************************************************************)
(* gateway_protocol.cpp                                                    *)
(***************************************************************************)

EscapeQuotes(s) ==  \* mutant: a backslash goes as it is
  FlattenSeq([i \in DOMAIN s |->
    IF s[i] \in Control THEN <<Backslash, ControlEscape[s[i]]>>
    ELSE IF s[i] = Quote THEN <<Backslash, s[i]>>
    ELSE <<s[i]>>])
Escape(s) ==
  FlattenSeq([i \in DOMAIN s |->
    IF s[i] \in Control THEN <<Backslash, ControlEscape[s[i]]>>
    ELSE IF s[i] \in {Quote, Backslash} THEN <<Backslash, s[i]>>
    ELSE <<s[i]>>])

SpelledAt(t, key, known) ==
  LET quote == Find(t, Quote, ValueAt(t, key))
  IN  IF quote = 0 THEN <<>>
      ELSE Spelled(SubSeq(t, quote + 1, Len(t)), known)

Str(t, key) ==
  SpelledAt(t, key, [n |-> "newline", r |-> "return", t |-> "tab"])

\* integer(), whose callers refuse what is negative; stoll() throws on "huge".
Natural(t, key) ==
  LET i == ValueAt(t, key) IN
  IF i \in DOMAIN t /\ t[i] \in {"1", "2"} THEN t[i] ELSE NoText

RawNoStrings(t, key) ==  \* mutant: brackets in strings are counted
  LET rest == SubSeq(t, ValueAt(t, key), Len(t))
      Depth(i) == Len(SelectSeq(SubSeq(rest, 1, i), LAMBDA c : c = "{"))
                  - Len(SelectSeq(SubSeq(rest, 1, i), LAMBDA c : c = "}"))
      ends == {i \in DOMAIN rest : Depth(i) = 0}
  IN  IF ValueAt(t, key) \notin DOMAIN t THEN <<>>
      ELSE IF rest[1] = Quote THEN Str(t, key)
      ELSE IF ends = {} THEN <<>> ELSE SubSeq(rest, 1, Min(ends))
Raw(t, key) ==
  LET rest == SubSeq(t, ValueAt(t, key), Len(t))
      closing == [x \in {"{", "["} |-> IF x = "{" THEN "}" ELSE "]"]
      at == Scan(rest, {rest[1]}, {closing[rest[1]]})
      ends == {i \in DOMAIN rest : at[i + 1].depth = 0}
  IN  IF ValueAt(t, key) \notin DOMAIN t THEN <<>>
      ELSE IF rest[1] = Quote THEN Str(t, key)
      ELSE IF rest[1] \notin DOMAIN closing
        THEN SubSeq(rest, 1,
                    SelectInSeq(rest, LAMBDA c : c \in {",", "}"}) - 1)
      ELSE IF ends = {} THEN <<>> ELSE SubSeq(rest, 1, Min(ends))

Request(id, method, params) ==
  Object(<<Member("type", Quoted(<<"req">>)),
           Member("id", Quoted(Escape(id))),
           Member("method", Quoted(Escape(<<method>>))),
           Member("params", params)>>)

Escaped(name, s) == Member(name, Quoted(Escape(s)))
Optional(name, s) == IF s = <<>> THEN <<>> ELSE <<Escaped(name, s)>>

\* The members that are the same in every connect are left out.
Connect(id, token, device) ==
  Request(id, "connect",
    Object(<<Member("auth", Object(<<Escaped("token", token)>>)),
             Member("device", device)>>))
ChatSend(id, p) ==
  Request(id, "chat.send",
    Object(<<Escaped("sessionKey", p.sessionKey),
             Escaped("message", p.message),
             Escaped("idempotencyKey", id)>>
           \o Optional("sessionId", p.sessionId)))
ChatAbort(id, p) ==
  Request(id, "chat.abort",
    Object(<<Escaped("sessionKey", p.sessionKey)>>
           \o Optional("runId", p.runId)))
ChatHistory(id, p) ==
  Request(id, "chat.history",
    Object(<<Escaped("sessionKey", p.sessionKey), Member("limit", <<"2">>)>>))

OkTrue == <<Quote, "ok", Quote, ":", "true">>

Parse(t) ==
  CASE Str(t, "type") = <<"res">> ->
         [kind |-> "response", id |-> Str(t, "id"),
          ok |-> \E i \in 1 .. Len(t) - 4 : SubSeq(t, i, i + 4) = OkTrue,
          payload |-> Raw(t, "payload"), error |-> Raw(t, "error")]
    [] Str(t, "type") = <<"event">> ->
         [kind |-> "event", event |-> Str(t, "event"),
          payload |-> Raw(t, "payload"), seq |-> Natural(t, "seq")]
    [] OTHER -> [kind |-> "unknown"]

Challenge(t) ==
  LET f == Parse(t)
      c == [nonce |-> Str(f.payload, "nonce"), ts |-> Natural(f.payload, "ts")]
  IN  IF f.kind = "event" /\ f.event = <<"connect.challenge">>
           /\ c.nonce # <<>> /\ c.ts # NoText
      THEN c ELSE NoText

(***************************************************************************)
(* device_identity.cpp                                                     *)
(***************************************************************************)

EscNoBackslash(s) ==  \* mutant: a backslash goes as it is
  FlattenSeq([i \in DOMAIN s |->
    CASE s[i] = Quote -> <<Backslash, s[i]>>
      [] s[i] = "newline" -> <<Backslash, "n">>
      [] s[i] = "return" -> <<>>
      [] OTHER -> <<s[i]>>])
Esc(s) ==
  FlattenSeq([i \in DOMAIN s |->
    CASE s[i] \in {Quote, Backslash} -> <<Backslash, s[i]>>
      [] s[i] = "newline" -> <<Backslash, "n">>
      [] s[i] = "return" -> <<>>
      [] OTHER -> <<s[i]>>])

Field(t, key) == SpelledAt(t, key, [n |-> "newline"])

\* What stands between pairs of quotes, escapes and all.
Pieces(s) ==
  LET Cut(was, c) ==
        IF c # Quote THEN [was EXCEPT !.piece = Append(@, c)]
        ELSE IF was.mode = "open"
        THEN [found |-> was.found, piece |-> <<>>, mode |-> "quoted"]
        ELSE [found |-> Append(was.found, was.piece), piece |-> <<>>,
              mode |-> "open"]
  IN  Loop(Cut, [found |-> <<>>, piece |-> <<>>, mode |-> "open"], s).found

ArrayField(t, key) ==
  LET open == Find(t, "[", KeyAt(t, key))
      close == Find(t, "]", open)
  IN  IF close = 0 THEN <<>> ELSE Pieces(SubSeq(t, open + 1, close - 1))

DeviceJson(c) ==
  Object(<<Member("signedAt", <<c.ts>>),
           Member("nonce", Quoted(Esc(c.nonce)))>>)

TokenFile(d) ==
  Object(<<Member("version", <<"1">>),
           Member("token", Quoted(Esc(d.token))),
           Member("role", Quoted(Esc(d.role))),
           Member("scopes", Array([i \in DOMAIN d.scopes |->
                                     Quoted(Esc(d.scopes[i]))]))>>)

ReadToken(t, key) ==
  LET d == [token |-> Field(t, key), role |-> Field(t, "role"),
            scopes |-> ArrayField(t, "scopes")]
  IN  IF d.token = <<>> THEN NoText ELSE d

ParsePairingRequired(t) ==
  IF "PAIRING_REQUIRED" \in ToSet(t) THEN Field(t, "requestId") ELSE NoText
=============================================================================
