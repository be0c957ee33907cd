--------------------------- MODULE StreamRestore ---------------------------
(***************************************************************************)
(* The streamed answer: handleStreamingRequest and isPartialPlaceholder in *)
(* src/internal/proxy/proxy.go, RestoreAll and NormalizePlaceholders in    *)
(* src/internal/pii/restore.go.                                            *)
(*                                                                         *)
(* The model's answer arrives cut into chunks.  The proxy holds the end of *)
(* what it has back while that end may be an incomplete placeholder.       *)
(*                                                                         *)
(* An answer is a sequence of lexemes: "$", "{" and "}", the two halves    *)
(* "B" and "H" of what a placeholder has between the braces, so that it    *)
(* can be cut there, and "x" for anything else.  There is one placeholder; *)
(* its hash starts with a letter, which the legacy format's never does.    *)
(* The text is the content of the answer or the arguments of a tool call,  *)
(* which go through the same loop but are never held back.                 *)
(***************************************************************************)
EXTENDS Integers, Sequences, SequencesExt

CONSTANTS
    Answers,        \* the texts the model may answer with
    IsCred,         \* whether the placeholder's type is CRED
    Original,       \* what makeRestoreFunc returns for the placeholder, or Unrecoverable
    CutsAnywhere    \* whether the model's answer may also be cut between "$" and "{"

Lexemes == {"$", "{", "}", "B", "H", "x"}

Placeholder == <<"$", "{", "B", "H", "}">>

ASSUME StreamAssumption ==
    /\ Answers \subseteq Seq(Lexemes)
    /\ IsCred \in BOOLEAN
    /\ CutsAnywhere \in BOOLEAN
    /\ Original \notin Lexemes

VARIABLES
    field,          \* where the chunks have the text: "content" or "arguments"
    answer,         \* the text of this stream
    read,           \* how many lexemes of it the scanner has seen
    pendingSuffix,  \* what is held back
    sent,           \* what the client got
    phase,          \* "open", "done" after [DONE], "closed" after the scanner stopped
    cutInside       \* history: arguments were cut inside what is restored

streamVars == <<field, answer, read, pendingSuffix, sent, phase, cutInside>>

----------------------------------------------------------------------------
(* pii.RestoreAll.                                                          *)

At(text, i, part) ==
    i \in 1..(Len(text) - Len(part) + 1) /\ SubSeq(text, i, i + Len(part) - 1) = part

Has(text, part) == \E i \in DOMAIN text : At(text, i, part)

\* NormalizePlaceholders looks for broken placeholders only then.
Normalizes(text) == Has(text, <<"$", "{">>) \/ (IsCred /\ Has(text, <<"B">>))

\* The positions of the bodies of the placeholders after NormalizePlaceholders:
\* an opening brace suffices, the "$" and the closing brace may be missing.
Bodies(text) == {i \in DOMAIN text : At(text, i, <<"B", "H">>) /\ At(text, i - 1, <<"{">>)}

\* What the lexeme at i becomes: a body turns into the original, its marks vanish.
Restored(text, i) ==
    CASE i \in Bodies(text) -> <<Original>>
      [] \/ i - 1 \in Bodies(text)
         \/ i + 1 \in Bodies(text)
         \/ i + 2 \in Bodies(text) /\ text[i] = "$"
         \/ i - 2 \in Bodies(text) /\ text[i] = "}" -> <<>>
      [] OTHER -> <<text[i]>>

RestoreAll(text) ==
    IF Normalizes(text) THEN FlattenSeq([i \in DOMAIN text |-> Restored(text, i)]) ELSE text

----------------------------------------------------------------------------
(* The end that is held back.                                               *)

\* Mutant of isPartialPlaceholder: with a closing brace nothing is incomplete,
\* and a body that is cut off is not looked at.
isPartialUnlessLong(tail) == At(tail, 1, <<"$", "{">>) /\ Len(tail) < 3

\* Mutant of isPartialPlaceholder: a valid placeholder is held back as well.
isPartialAlways(tail) == At(tail, 1, <<"$", "{">>)

\* For a tail that begins with its only "$": it opens a placeholder, and what is
\* in front of its first closing brace, if it has one, is no valid one.
isPartialPlaceholder(tail) == At(tail, 1, <<"$", "{">>) /\ ~ At(tail, 1, Placeholder)

LastDollar(text) ==
    CHOOSE i \in DOMAIN text : text[i] = "$" /\ \A j \in (i + 1)..Len(text) : text[j] # "$"

\* How much of the text can be restored and sent now.
CutIdx(text) ==
    IF /\ Has(text, <<"$">>)
       /\ isPartialPlaceholder(SubSeq(text, LastDollar(text), Len(text)))
    THEN LastDollar(text) - 1
    ELSE Len(text)

----------------------------------------------------------------------------
StreamInit ==
    /\ field \in {"content", "arguments"}
    /\ answer \in Answers
    /\ read = 0
    /\ pendingSuffix = <<>>
    /\ sent = <<>>
    /\ phase = "open"
    /\ cutInside = FALSE

\* Mutant of Chunk: the text held back is not put in front of the new chunk.
ChunkAlone(k) ==
    LET piece == SubSeq(answer, read + 1, read + k)
        cut   == CutIdx(piece)
    IN
    /\ phase = "open" /\ field = "content" /\ read + k <= Len(answer)
    /\ read' = read + k
    /\ sent' = sent \o RestoreAll(SubSeq(piece, 1, cut))
    /\ pendingSuffix' = SubSeq(piece, cut + 1, Len(piece))
    /\ UNCHANGED <<field, answer, phase, cutInside>>

\* A chunk with the next k lexemes of the answer in its content.
Chunk(k) ==
    LET combined == pendingSuffix \o SubSeq(answer, read + 1, read + k)
        cut      == CutIdx(combined)
    IN
    /\ phase = "open" /\ field = "content" /\ read + k <= Len(answer)
    /\ CutsAnywhere \/ ~ At(answer, read + k, <<"$", "{">>)
    /\ read' = read + k
    /\ sent' = sent \o RestoreAll(SubSeq(combined, 1, cut))
    /\ pendingSuffix' = SubSeq(combined, cut + 1, Len(combined))
    /\ UNCHANGED <<field, answer, phase, cutInside>>

\* Whether a cut behind the lexeme at i separates a body from its marks.
CutsBody(i) ==
    \E b \in Bodies(answer) :
        \/ i = b - 2 /\ answer[i] = "$"
        \/ i \in {b - 1, b}
        \/ i = b + 1 /\ At(answer, i + 1, <<"}">>)

\* Mutant of ToolCallChunk: only arguments that begin with a placeholder are restored.
ToolCallChunkAtStart(k) ==
    LET piece == SubSeq(answer, read + 1, read + k)
    IN
    /\ phase = "open" /\ field = "arguments" /\ read + k <= Len(answer)
    /\ read' = read + k
    /\ sent' = sent \o (IF piece[1] = "$" THEN RestoreAll(piece) ELSE piece)
    /\ cutInside' = (cutInside \/ CutsBody(read + k))
    /\ UNCHANGED <<field, answer, pendingSuffix, phase>>

\* A chunk with the next k lexemes in the arguments of a tool call.
ToolCallChunk(k) ==
    LET piece == SubSeq(answer, read + 1, read + k)
    IN
    /\ phase = "open" /\ field = "arguments" /\ read + k <= Len(answer)
    /\ read' = read + k
    /\ sent' = sent \o RestoreAll(piece)
    /\ cutInside' = (cutInside \/ CutsBody(read + k))
    /\ UNCHANGED <<field, answer, pendingSuffix, phase>>

\* Mutant of Done: only a whole placeholder is flushed.
DoneUnflushed ==
    /\ phase = "open" /\ read = Len(answer)
    /\ phase' = "done"
    /\ UNCHANGED <<field, answer, read, sent, pendingSuffix, cutInside>>

\* [DONE] flushes what is held back.
Done ==
    /\ phase = "open" /\ read = Len(answer)
    /\ phase' = "done"
    /\ sent' = sent \o RestoreAll(pendingSuffix)
    /\ pendingSuffix' = <<>>
    /\ UNCHANGED <<field, answer, read, cutInside>>

\* The scanner stops: after [DONE], or because the connection broke or a line is
\* longer than its buffer. What is held back is dropped.
Close ==
    /\ phase # "closed"
    /\ phase' = "closed"
    /\ UNCHANGED <<field, answer, read, pendingSuffix, sent, cutInside>>

StreamNext == (\E k \in 1..Len(answer) : Chunk(k) \/ ToolCallChunk(k)) \/ Done \/ Close

StreamSpec == StreamInit /\ [][StreamNext]_streamVars

----------------------------------------------------------------------------
Received == SubSeq(answer, 1, read)

\* Every variable has its type; the text that is held back is an end of what was
\* received, and it is gone after [DONE].
StreamTypeOK ==
    /\ field \in {"content", "arguments"}
    /\ cutInside \in BOOLEAN
    /\ answer \in Answers
    /\ read \in 0..Len(answer)
    /\ sent \in Seq(Lexemes \cup {Original})
    /\ phase \in {"open", "done", "closed"}
    /\ IsSuffix(pendingSuffix, Received)
    /\ phase = "done" => pendingSuffix = <<>>

\* Wherever the content of the answer is cut, what was sent, with what would be flushed,
\* is what the non-streaming handler makes of the same text: no lexeme is lost,
\* sent twice, reordered or left unrestored because of the chunks.
StreamsLikeWhole ==
    field = "content" => sent \o RestoreAll(pendingSuffix) = RestoreAll(Received)

\* The arguments of a tool call, which are restored delta by delta and never held
\* back, come out as they would in one piece as long as no delta ends within a
\* placeholder; a placeholder that is cut reaches the tool as it is.
ArgumentsLikeWhole ==
    field = "arguments" /\ ~cutInside => sent = RestoreAll(Received)

\* A placeholder that has arrived in part is held back, with nothing in front of it:
\* once its "$" and "{" are there the client never has the beginning of one, whatever
\* arrives next. A whole one never waits: it is restored as soon as its closing brace
\* is there. Other text that begins with these marks, such as "${x}", is held back
\* too, until another dollar sign arrives or the stream ends: nothing here bounds it.
HeldBackRightly ==
    /\ phase = "open" /\ field = "content" =>
          \A i \in 1..read :
              At(answer, i, Placeholder) /\ i + Len(Placeholder) - 1 > read =>
                  pendingSuffix = SubSeq(answer, i, read)
    /\ ~ Has(pendingSuffix, Placeholder)

\* The client is never left with a raw placeholder: docs-en/DESIGN.md, "Restore
\* Degradation", and the comment on the buffer, which has to hold all incomplete
\* prefixes that start with "$".
NoRawPlaceholder == phase = "done" /\ field = "content" => ~ Has(sent, Placeholder)

=============================================================================
