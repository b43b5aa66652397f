----------------------------- MODULE Redaction -----------------------------
(***************************************************************************)
(* environ and cmdline redaction (src/src/redact.rs).                      *)
(*                                                                         *)
(* A blob is the sequence of its NUL separated entries. An entry is        *)
(*   [utf8, ascii, flag (starts with '-'), key, eq (contains '='), value], *)
(* its key a name that may hold a secret keyword, its value a plain text   *)
(* or a URL with userinfo and query. A text is an id, which stands for the *)
(* characters that a reader of the snapshot would see, and the features    *)
(* that the heuristics look at: PEM header, lengths of its '.' separated   *)
(* parts, whether these are base64url, and its entropy in tenths of a bit. *)
(* Reserved characters inside a URL's parts are taken to be escaped.       *)
(***************************************************************************)
EXTENDS Integers, Sequences, Functions, FiniteSetsExt

MIN_HEURISTIC_LEN == 20
ENTROPY_TENTHS == 35

\* shaped: meant to be recognised by its shape; only properties look at it.
Text(id, parts, clean, bits) ==
  [id |-> id, pem |-> FALSE, parts |-> parts, clean |-> clean, bits |-> bits, shaped |-> FALSE]

NoText   == Text("", <<0>>, TRUE, 0)
REDACTED == Text("<redacted>", <<10>>, FALSE, 30)

\* A value is a text, or a URL whose text is all but userinfo and query:
\* info is <<>>, <<user>> or <<user, password>>, query a sequence of pairs.
Plain(text) == [url |-> FALSE, text |-> text, info |-> <<>>, query |-> <<>>]
Url(text, info, query) == [url |-> TRUE, text |-> text, info |-> info, query |-> query]

Texts  == [id : STRING, pem : BOOLEAN, parts : Seq(Nat), clean : BOOLEAN, bits : Nat, shaped : BOOLEAN]
Keys   == [id : STRING, secret : BOOLEAN]
Params == [key : Keys, value : Texts]
Values ==
  {v \in [url : BOOLEAN, text : Texts, info : Seq(Texts), query : Seq(Params)] :
     Len(v.info) <= 2 /\ (~v.url => v.info = <<>> /\ v.query = <<>>)}
Entries == [utf8 : BOOLEAN, ascii : BOOLEAN, flag : BOOLEAN, key : Keys, eq : BOOLEAN, value : Values]

IsEmpty(entry) == entry.utf8 /\ ~entry.eq /\ entry.key.id = ""

----------------------------------------------------------------------------
Length(text) == Len(text.parts) - 1 + SumFunction(text.parts)

is_jwt(text) ==
  /\ Length(text) >= MIN_HEURISTIC_LEN
  /\ Len(text.parts) = 3
  /\ \A i \in 1..3 : text.parts[i] >= 4
  /\ text.clean

is_token_shaped(text) == text.clean /\ Len(text.parts) = 1

looks_secret_value(text) ==
  \/ text.pem
  \/ is_jwt(text)
  \/ /\ Length(text) >= MIN_HEURISTIC_LEN
     /\ is_token_shaped(text)
     /\ text.bits >= ENTROPY_TENTHS

redact_query(query) ==
  [i \in DOMAIN query |->
     IF query[i].key.secret /\ query[i].value.id # ""
     THEN [query[i] EXCEPT !.value = REDACTED]
     ELSE query[i]]

\* Plausible bug: userinfo without a password is left alone.
redact_userinfo_password_only(info) ==
  IF Len(info) = 2 /\ info[Len(info)].id # "" THEN <<info[1], REDACTED>> ELSE info

redact_userinfo(info) ==
  CASE Len(info) = 2 /\ info[Len(info)].id # "" -> <<info[1], REDACTED>>
    [] Len(info) = 1 /\ looks_secret_value(info[1]) -> <<REDACTED>>
    [] OTHER -> info

redact_url(value) ==
  [value EXCEPT !.info = redact_userinfo(@), !.query = redact_query(@)]

\* The key names a secret, or the value is shaped like one (a URL never is).
drops_value(entry) ==
  entry.key.secret \/ (~entry.value.url /\ looks_secret_value(entry.value.text))

redact_entry(entry) ==
  IF ~entry.utf8 \/ ~entry.eq THEN entry
  ELSE IF drops_value(entry) THEN [entry EXCEPT !.value = Plain(REDACTED)]
  ELSE IF entry.value.url THEN [entry EXCEPT !.value = redact_url(@)]
  ELSE entry

is_secret_flag(arg) == arg.utf8 /\ arg.flag /\ ~arg.eq /\ arg.key.secret

----------------------------------------------------------------------------
\* The entries that the loops do not skip, in order: the i-th has i - 1 before it.
NonEmpty(blob) ==
  LET kept == {j \in DOMAIN blob : ~IsEmpty(blob[j])}
      Nth(i) == CHOOSE j \in kept : Cardinality({k \in kept : k < j}) = i - 1
  IN [i \in 1..Cardinality(kept) |-> blob[Nth(i)]]

redact_environ(enabled, raw) ==
  IF ~enabled THEN raw
  ELSE LET entries == NonEmpty(raw)
       IN [i \in DOMAIN entries |-> redact_entry(entries[i])]

RedactedArg == [utf8 |-> TRUE, flag |-> FALSE, key |-> [id |-> "<redacted>", secret |-> FALSE],
                eq |-> FALSE, value |-> Plain(NoText)]

\* Plausible bug: the flag is remembered past the argument it was for.
redact_next_sticky(args) ==
  LET next[i \in 0..Len(args)] == i # 0 /\ (next[i - 1] \/ is_secret_flag(args[i])) IN next

\* The loop variable after each argument: set by a secret flag, reset by the
\* argument that it takes.
redact_next(args) ==
  LET next[i \in 0..Len(args)] == i # 0 /\ ~next[i - 1] /\ is_secret_flag(args[i]) IN next

redact_cmdline(enabled, raw) ==
  IF ~enabled THEN raw
  ELSE LET args == NonEmpty(raw)
       IN [i \in DOMAIN args |->
             IF redact_next(args)[i - 1] THEN RedactedArg ELSE redact_entry(args[i])]
----------------------------------------------------------------------------
\* A label stands for the characters of one piece of an entry.
PieceAt(entry, place) ==
  CASE place[1] = "key"   -> entry.key.id
    [] place[1] = "text"  -> entry.value.text.id
    [] place[1] = "info"  -> entry.value.info[place[2]].id
    [] place[1] = "name"  -> entry.value.query[place[2]].key.id
    [] place[1] = "value" -> entry.value.query[place[2]].value.id

ToldApart(entry) ==
  LET places == ({"key", "text"} \X {1}) \cup ({"info"} \X DOMAIN entry.value.info)
                \cup ({"name", "value"} \X DOMAIN entry.value.query)
  IN \A p, q \in places :
       PieceAt(entry, p) = PieceAt(entry, q) => p = q \/ PieceAt(entry, p) \in {"", "<redacted>"}

\* What a reader of the snapshot sees of an entry, and what of it is secret:
\* all of the value under a secret key, or the pieces documented as such.
PiecesOfValue(v) ==
  {v.text.id} \cup {t.id : t \in Range(v.info)} \cup UNION {{q.key.id, q.value.id} : q \in Range(v.query)}

Pieces(entry) == {entry.key.id} \cup (IF entry.eq THEN PiecesOfValue(entry.value) ELSE {})

Shown(entry) == Pieces(entry) \ {"", "<redacted>"}

SecretPieces(entry) ==
  LET v == entry.value
  IN IF ~entry.utf8 \/ ~entry.eq THEN {}
     ELSE IF entry.key.secret THEN PiecesOfValue(v)
     ELSE {t.id : t \in {t \in {v.text} \cup (IF Len(v.info) = 1 THEN Range(v.info) ELSE {}) : t.shaped}}
          \cup (IF Len(v.info) = 2 THEN {v.info[2].id} ELSE {})
          \cup {q.value.id : q \in {q \in Range(v.query) : q.key.secret}}

\* The heuristics tell the texts that are secret by their shape from the others.
Recognised(entry) ==
  LET v == entry.value
  IN entry.eq => /\ v.text.shaped <=> ~v.url /\ looks_secret_value(v.text)
                 /\ Len(v.info) = 1 => (v.info[1].shaped <=> looks_secret_value(v.info[1]))

\* An argument is the value of a flag if an odd run of secret flags ends before
\* it: of two in a row, the second is the value of the first.
IsFlagValue(args, i) ==
  LET runs == {n \in 1..i - 1 : \A j \in i - n..i - 1 : is_secret_flag(args[j])}
  IN runs # {} /\ Max(runs) % 2 = 1

SecretsAt(name, blob, i) ==
  IF name = "cmdline" /\ IsFlagValue(blob, i) THEN Pieces(blob[i]) ELSE SecretPieces(blob[i])
----------------------------------------------------------------------------
\* A file that is cut at a number of units: an entry with '=' has three (key,
\* start of the value, rest of the value), any other has one.
EntrySize(entry) == IF entry.eq THEN 3 ELSE 1

\* What is left of an entry that the cap cuts: a key alone, whose value nothing
\* looks at, or the start of a value, which no longer has its shape and may end
\* inside a character.
CutValue(value) ==
  IF value.url /\ value.info = <<>> THEN [value EXCEPT !.query = <<>>]
  ELSE Plain(Text(IF value.url THEN value.info[Len(value.info)].id ELSE value.text.id, <<2>>, FALSE, 10))

CutEntry(entry, n) ==
  IF n = 1 THEN [entry EXCEPT !.eq = FALSE]
  ELSE [entry EXCEPT !.utf8 = @ /\ entry.ascii, !.value = CutValue(@)]

\* The units before entry i: one for each entry, two more for each with '='.
Before(blob, i) == i - 1 + 2 * Cardinality({j \in 1..i - 1 : blob[j].eq})
BlobSize(blob) == Before(blob, Len(blob) + 1)

Prefix(blob, n) ==
  [i \in 1..Cardinality({j \in DOMAIN blob : Before(blob, j) < n}) |->
     IF Before(blob, i) + EntrySize(blob[i]) <= n THEN blob[i]
     ELSE CutEntry(blob[i], n - Before(blob, i))]
=============================================================================
