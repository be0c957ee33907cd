---------------------------- MODULE TextMasking ----------------------------
(***************************************************************************)
(* What the detectors make of a text: LocalMasker.Mask (src/internal/pii/  *)
(* local_mask.go), then BuiltInPIIDetector.DetectAndMask                   *)
(* (pii_built_in.go) with the filter of confidence.go, and RestoreAll of   *)
(* an answer that repeats the masked text.                                 *)
(*                                                                         *)
(* The detectors are regular expressions, applied one after the other to   *)
(* what the earlier ones have left.  A text is a sequence of lexemes that  *)
(* are as long as the patterns need:                                       *)
(*   "key", "pwd"  &api_key= and &password=, to the blanks behind          *)
(*   "url"         https://                                                *)
(*   "akia"        an AWS key, AKIA and sixteen letters or digits          *)
(*   "phone"       eleven digits;  "mail"  an e-mail address               *)
(*   "word"        /a/long/path/;  "pin"  #246#                            *)
(*   "quote";  "stop"  a Chinese comma between blanks, which ends a value  *)
(* and "$", "{", "body", "}" for a placeholder.  A lexeme knows its place  *)
(* in the client's text, a body its type and the masked value.             *)
(***************************************************************************)
EXTENDS Integers, SequencesExt, FiniteSetsExt

CONSTANT Texts   \* the texts of clients, as sequences of the first ten kinds

VARIABLES
    text,      \* the client's text
    local,     \* whether the level of LocalMasker is not "off"
    level,     \* the MaskLevel of the built-in detector
    result,    \* what the detectors have made of it
    made,      \* the bodies of the placeholders that were passed to addPlaceholder
    pass,      \* the pattern that is next
    first      \* <<>>, or the result of the first masking when the text is masked twice

textVars == <<text, local, level, result, made, pass, first>>

Kinds == {"key", "pwd", "url", "akia", "phone", "mail", "word", "pin", "quote", "stop"}

\* Lexemes that are next to each other in a text. An e-mail address runs on into what
\* begins with a letter, an AWS key is none in front of a letter or digit and none behind
\* one: what they make is another lexeme.
Apart(t) ==
    \A i \in 1 .. Len(t) - 1 :
        /\ t[i] = "mail" => t[i + 1] \notin {"mail", "url"}
        /\ t[i] = "akia" => t[i + 1] \notin {"mail", "url", "phone"}
        /\ t[i] \in {"mail", "phone", "akia"} => t[i + 1] # "akia"

ASSUME TextAssumption == Texts \subseteq Seq(Kinds)

ASSUME ApartAssumption == \A t \in Texts : Apart(t)

----------------------------------------------------------------------------
(* Lexemes.                                                                *)

Plain(kind, at) == [kind |-> kind, at |-> at, type |-> "", value |-> <<>>]

Body(type, value) == [kind |-> "body", at |-> 0, type |-> type, value |-> value]

\* The token of a placeholder, ${TYPE_hash}; the hash stands for the value.
GeneratePlaceholder(type, value) ==
    <<Plain("$", 0), Plain("{", 0), Body(type, value), Plain("}", 0)>>

Lexemes(t) == [i \in DOMAIN t |-> Plain(t[i], i)]

KindAt(t, i) == IF i \in DOMAIN t THEN t[i].kind ELSE "end"

\* Whether the four lexemes from i on are a placeholder.
TokenAt(t, i) ==
    /\ i \in 1 .. Len(t) - 3
    /\ [j \in 1 .. 4 |-> t[i + j - 1].kind] = <<"$", "{", "body", "}">>

\* Mutant of IsPlaceholder: knows none of the present format.
IsOldPlaceholder(value) == Len(value) = 3 /\ TokenAt(value, 1)

IsPlaceholder(value) == Len(value) = 4 /\ TokenAt(value, 1)

\* Mutant of isInsidePlaceholder: does not look where the placeholder ends.
isBehindPlaceholder(t, pos) == \E i \in 1 .. pos - 1 : TokenAt(t, i)

\* From behind the opening marks to one past the closing one. The code also gives up
\* in the first three characters of a text, where a body may begin but no match does,
\* and 60 characters behind the opening marks, more than a placeholder of the model has.
isInsidePlaceholder(t, pos) == \E i \in DOMAIN t : TokenAt(t, i) /\ pos \in i + 2 .. i + 4

----------------------------------------------------------------------------
(* The patterns. A match is where its opening lexeme and its value are;    *)
(* matches are found from left to right and do not overlap.                *)

\* The characters of a lexeme.
Size(kind) ==
    LET size == [key |-> 9, pwd |-> 10, url |-> 8, akia |-> 20, phone |-> 11, mail |-> 15,
                 word |-> 13, pin |-> 5, quote |-> 1, stop |-> 3, body |-> 15]
    IN  IF kind \in DOMAIN size THEN size[kind] ELSE 1

Length(t) ==
    LET upTo[i \in 0 .. Len(t)] == IF i = 0 THEN 0 ELSE upTo[i - 1] + Size(t[i].kind)
    IN  upTo[Len(t)]

\* The last position of the run of lexemes that starts at from and has none of the kinds.
RunEnd(t, from, without) ==
    Max({from - 1} \cup {j \in from .. Len(t) : \A i \in from .. j : t[i].kind \notin without})

Positions(t, kind) == {i \in DOMAIN t : t[i].kind = kind}

\* The runs of at least so many characters that begin at begin[i], for an opening lexeme i.
\* A search from left to right goes on behind the end of what it found.
RunsBehind(t, begin, without, least) ==
    LET all == {[open |-> i, from |-> begin[i], to |-> RunEnd(t, begin[i], without)] : i \in DOMAIN begin}
        long == {m \in all : Length(SubSeq(t, m.from, m.to)) >= least}
    IN  CHOOSE found \in SUBSET long :
            \A m \in long : m \in found <=> \A x \in found : x.open < m.open => x.to < m.open

\* A key name, perhaps a quote, and eight characters that are neither blank nor quote.
KeyMatches(t, kind) ==
    RunsBehind(t, [i \in Positions(t, kind) |-> IF KindAt(t, i + 1) = "quote" THEN i + 2 ELSE i + 1],
               {"quote", "stop"}, 8)

KindMatches(t, kind) == {[open |-> i, from |-> i, to |-> i] : i \in Positions(t, kind)}

\* The whole address; a brace ends it, a dollar sign does not.
URLMatches(t) ==
    RunsBehind(t, [i \in Positions(t, "url") |-> i], {"quote", "stop", "{", "}"}, 9)

\* Anything but a blank behind a password label, quotes and marks too.
PasswordMatches(t) == RunsBehind(t, [i \in Positions(t, "pwd") |-> i + 1], {"stop"}, 1)

Passes == <<"api_key", "password", "format", "PHONE", "EMAIL", "URL_ADDRESS", "PASSWORD">>

FindAll(p, t) ==
    CASE p = "api_key" -> KeyMatches(t, "key")
      [] p = "password" -> KeyMatches(t, "pwd")
      [] p = "format" -> KindMatches(t, "akia")
      [] p = "PHONE" -> KindMatches(t, "phone")
      [] p = "EMAIL" -> KindMatches(t, "mail")
      [] p = "URL_ADDRESS" -> URLMatches(t)
      [] p = "PASSWORD" -> PasswordMatches(t)

LocalPasses == {"api_key", "password", "format"}

----------------------------------------------------------------------------
(* The filter of the built-in detector, in per cent.                       *)

GetThreshold(l) == CASE l = "strict" -> 80 [] l = "balanced" -> 60 [] l = "aggressive" -> 40

GetTypeConfidence(type) ==
    CASE type \in {"PHONE", "EMAIL"} -> 90 [] type = "URL_ADDRESS" -> 80 [] type = "PASSWORD" -> 60

ShouldMask(type, l) == GetTypeConfidence(type) >= GetThreshold(l)

Enabled(p, on, l) == IF p \in LocalPasses THEN on ELSE ShouldMask(p, l)

----------------------------------------------------------------------------
\* Which matches a pattern leaves alone: placeholders, and, but for the key names, what
\* is inside one.
Skips(p, t, m) ==
    \/ IsPlaceholder(SubSeq(t, m.from, m.to))
    \/ p \notin {"api_key", "password"} /\ isInsidePlaceholder(t, m.from)

TypeOf(p) == IF p \in LocalPasses THEN "CRED" ELSE p

\* Mutant of Replaced: addPlaceholder is not called for formats.
ReplacedUnsaved(p, r, m) ==
    LET value == SubSeq(r.text, m.from, m.to)
    IN  IF Skips(p, r.text, m) THEN r
        ELSE [text |-> SubSeq(r.text, 1, m.from - 1) \o GeneratePlaceholder(TypeOf(p), value)
                         \o SubSeq(r.text, m.to + 1, Len(r.text)),
              made |-> IF p = "format" THEN r.made ELSE r.made \cup {Body(TypeOf(p), value)}]

\* Mutant of Replaced: puts the placeholder in the place of the whole match, not of the
\* group with the value.
ReplacedWhole(p, r, m) ==
    LET value == SubSeq(r.text, m.from, m.to)
    IN  IF Skips(p, r.text, m) THEN r
        ELSE [text |-> SubSeq(r.text, 1, m.open - 1) \o GeneratePlaceholder(TypeOf(p), value)
                         \o SubSeq(r.text, m.to + 1, Len(r.text)),
              made |-> r.made \cup {Body(TypeOf(p), value)}]

\* One match is replaced and passed to addPlaceholder, if it is not left alone.
Replaced(p, r, m) ==
    LET value == SubSeq(r.text, m.from, m.to)
    IN  IF Skips(p, r.text, m) THEN r
        ELSE [text |-> SubSeq(r.text, 1, m.from - 1) \o GeneratePlaceholder(TypeOf(p), value)
                         \o SubSeq(r.text, m.to + 1, Len(r.text)),
              made |-> r.made \cup {Body(TypeOf(p), value)}]

\* The match that begins at i, if there is one, is replaced.
ReplacedAt(p, r, matches, i) ==
    LET here == {x \in matches : x.from = i}
    IN  IF here = {} THEN r ELSE Replaced(p, r, CHOOSE x \in here : TRUE)

\* All matches of a pattern are replaced, from back to front: behind[i] is what has become
\* of the text when those are that begin at i or behind it.
Masked(p, t, m) ==
    LET matches == FindAll(p, t)
        behind[i \in 1 .. Len(t) + 1] ==
            IF i > Len(t) THEN [text |-> t, made |-> m]
            ELSE ReplacedAt(p, behind[i + 1], matches, i)
    IN  behind[1]

MaskInit ==
    /\ text \in Texts
    /\ local \in BOOLEAN
    /\ level \in {"strict", "balanced"}
    /\ result = Lexemes(text)
    /\ made = {}
    /\ pass = 1
    /\ first = <<>>

Apply(p) ==
    LET r == Masked(p, result, made)
    IN  IF Enabled(p, local, level) THEN result' = r.text /\ made' = r.made
        ELSE UNCHANGED <<result, made>>

\* LocalMasker: the key names in the order of the list, then the formats.
Mask ==
    /\ pass \in DOMAIN Passes
    /\ Passes[pass] \in LocalPasses
    /\ Apply(Passes[pass])
    /\ pass' = pass + 1
    /\ UNCHANGED <<text, local, level, first>>

DetectAndMask ==
    /\ pass \in DOMAIN Passes
    /\ Passes[pass] \notin LocalPasses
    /\ Apply(Passes[pass])
    /\ pass' = pass + 1
    /\ UNCHANGED <<text, local, level, first>>

\* The result of a tool goes through maskContent after it was masked like any message.
MaskAgain ==
    /\ pass > Len(Passes)
    /\ first = <<>>
    /\ first' = result
    /\ pass' = 1
    /\ UNCHANGED <<text, local, level, result, made>>

MaskNext == Mask \/ DetectAndMask \/ MaskAgain

MaskSpec == MaskInit /\ [][MaskNext]_textVars

----------------------------------------------------------------------------
(* RestoreAll.                                                             *)

\* NormalizePlaceholders puts the dollar sign back where it is missing.
Bodies(t) == {i \in DOMAIN t : KindAt(t, i) = "body" /\ KindAt(t, i - 1) = "{"}

Restored(t, i) ==
    CASE i \in Bodies(t) -> t[i].value
      [] i + 1 \in Bodies(t) \/ i - 1 \in Bodies(t) \/ (i + 2 \in Bodies(t) /\ t[i].kind = "$") -> <<>>
      [] OTHER -> <<t[i]>>

\* One scan: what a value puts into the text is not looked at again.
RestoreAll(t) == FlattenSeq([i \in DOMAIN t |-> Restored(t, i)])

----------------------------------------------------------------------------
(* Properties.                                                             *)

Done == pass > Len(Passes)

\* The types; and what placeholders the text has were made of what addPlaceholder was
\* called with.
MaskTypeOK ==
    /\ text \in Texts
    /\ local \in BOOLEAN
    /\ level \in {"strict", "balanced"}
    /\ pass \in 1 .. Len(Passes) + 1
    /\ \A i \in DOMAIN result : result[i].kind \in Kinds \cup {"$", "{", "body", "}"}
    /\ \A i \in DOMAIN result : result[i].kind = "body" => result[i] \in made

Visible == {result[i].at : i \in DOMAIN result}

\* What a detector that is switched on finds in the client's text is not sent to the
\* model, although the detectors work on what the earlier ones have left: of such a
\* value no more is seen than what stands directly behind something else that was
\* masked (an address behind a telephone number, the path of an address behind its
\* host, a value whose label was taken for a part of another value).
NothingLeaks ==
    Done => \A n \in {k \in DOMAIN Passes : Enabled(Passes[k], local, level)} :
                \A m \in FindAll(Passes[n], Lexemes(text)) :
                    \A i \in (m.from .. m.to) \cap Visible :
                        \E j \in (m.open .. i - 1) \cup {m.from - 1} : j > 0 /\ j \notin Visible

\* The placeholders hold values of the client only: none of them was made of a text with
\* another placeholder, or a part of one, in it.
Flat == \A b \in made : \A i \in DOMAIN b.value : b.value[i].at > 0

\* As long as the placeholders are flat, a model that repeats what it was sent gives the
\* client its own text back, lexeme by lexeme: at any point of the masking, whatever
\* offsets the replacements have moved.
FlatIsRestored == Flat => RestoreAll(result) = Lexemes(text)

\* The client gets its text back from a model that repeats it: README.md, "transparently
\* restores original values in responses".
AllIsRestored == RestoreAll(result) = Lexemes(text)

\* What was masked once is not masked again: the second masking of a tool's result
\* wraps no placeholder into another. It may find an address that the first one took
\* for a part of the placeholder of the telephone number in front of it.
MaskedOnce ==
    /\ Done
    /\ first # <<>>
    /\ \A i \in 1 .. Len(text) - 1 : text[i] = "phone" => text[i + 1] \notin {"mail", "url"}
    => result = first
=============================================================================
