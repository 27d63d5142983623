------------------------------ MODULE TextEdit ------------------------------
(***************************************************************************)
(* The text algorithms of the edit tool (internal/mcp/edit.go) and the     *)
(* bounded buffers of the executor (internal/exec/kubeexec.go).  A text is *)
(* a sequence of characters, one of which is the newline.                  *)
(***************************************************************************)
EXTENDS Integers, Sequences, FiniteSets

CONSTANTS
    Chars,     \* the characters of the texts
    NewLine    \* the newline

ASSUME TextAssumption == NewLine \in Chars

Text == Seq(Chars)

\* The outcome of an edit: a new text or a refusal.
Edited(text) == [ok |-> TRUE, text |-> text]
Refused == [ok |-> FALSE, text |-> <<>>]

-----------------------------------------------------------------------------
(* replaceUnique.                                                          *)

OccursAt(text, old, i) ==
    /\ i + Len(old) - 1 <= Len(text)
    /\ SubSeq(text, i, i + Len(old) - 1) = old

\* strings.Count: from the left, and a match does not overlap the one before.
CountMatches(text, old) ==
    LET from[i \in 1 .. Len(text) + 1] ==
            IF i + Len(old) - 1 > Len(text) THEN 0
            ELSE IF OccursAt(text, old, i) THEN 1 + from[i + Len(old)]
            ELSE from[i + 1]
    IN from[1]

FirstMatch(text, old) ==
    CHOOSE i \in 1 .. Len(text) :
        /\ OccursAt(text, old, i)
        /\ \A k \in 1 .. i - 1 : ~ OccursAt(text, old, k)

\* Mutant: the first of several matches is replaced.
ReplaceFirst(text, old, new) ==
    IF old = <<>> \/ CountMatches(text, old) = 0 THEN Refused
    ELSE LET i == FirstMatch(text, old)
         IN Edited(SubSeq(text, 1, i - 1) \o new
                   \o SubSeq(text, i + Len(old), Len(text)))

ReplaceUnique(text, old, new) ==
    IF old = <<>> \/ CountMatches(text, old) # 1 THEN Refused
    ELSE LET i == FirstMatch(text, old)
         IN Edited(SubSeq(text, 1, i - 1) \o new
                   \o SubSeq(text, i + Len(old), Len(text)))

-----------------------------------------------------------------------------
(* insertAfterLine.                                                        *)

NewLines(text) == {i \in 1 .. Len(text) : text[i] = NewLine}

\* Position of the k-th newline, for 1 <= k <= Cardinality(NewLines(text)).
NewLineAt(text, k) ==
    CHOOSE i \in NewLines(text) : Cardinality({h \in NewLines(text) : h <= i}) = k

InsertAfterLine(text, line, new) ==
    LET seen == Cardinality(NewLines(text))
        InsertAt(i) == Edited(SubSeq(text, 1, i) \o new \o SubSeq(text, i + 1, Len(text)))
    IN IF line = 0 THEN InsertAt(0)
       ELSE IF line \in 1 .. seen THEN InsertAt(NewLineAt(text, line))
       ELSE IF line = seen + 1 /\ text # <<>> THEN InsertAt(Len(text))
       ELSE Refused

-----------------------------------------------------------------------------
(* renderNumberedLines, without the layout.                                *)

EndsLine(text) == text = <<>> \/ text[Len(text)] = NewLine

\* Mutant: the empty string after the last newline is a line.
SplitLines(text) ==
    LET seen == Cardinality(NewLines(text))
        Start(k) == IF k = 1 THEN 1 ELSE NewLineAt(text, k - 1) + 1
        End(k) == IF k > seen THEN Len(text) ELSE NewLineAt(text, k) - 1
    IN [k \in 1 .. seen + 1 |-> SubSeq(text, Start(k), End(k))]

\* splitDisplayLines: the lines, without their newlines and without an empty
\* last line.
DisplayLines(text) ==
    LET seen == Cardinality(NewLines(text))
        count == IF EndsLine(text) THEN seen ELSE seen + 1
        Start(k) == IF k = 1 THEN 1 ELSE NewLineAt(text, k - 1) + 1
        End(k) == IF k > seen THEN Len(text) ELSE NewLineAt(text, k) - 1
    IN [k \in 1 .. count |-> SubSeq(text, Start(k), End(k))]

\* What view shows: line numbers with their lines.
NumberedLines(text, startLine, endLine) ==
    LET lines == DisplayLines(text)
        start == IF startLine < 1 THEN 1 ELSE startLine
        end == IF endLine <= 0 \/ endLine > Len(lines) THEN Len(lines) ELSE endLine
    IN [k \in start .. end |-> lines[k]]

-----------------------------------------------------------------------------
(* capBuffer keeps the beginning of what is written, tailBuffer the end.   *)

EmptyBuffer == [buf |-> <<>>, truncated |-> FALSE]

\* Mutant: what the last write overran is all that counts.
CapWriteForgets(b, limit, p) ==
    LET remaining == limit - Len(b.buf) IN
    [buf |-> b.buf \o (IF Len(p) <= remaining THEN p ELSE SubSeq(p, 1, remaining)),
     truncated |-> Len(p) > remaining]

CapWrite(b, limit, p) ==
    LET remaining == limit - Len(b.buf) IN
    [buf |-> b.buf \o (IF Len(p) <= remaining THEN p ELSE SubSeq(p, 1, remaining)),
     truncated |-> b.truncated \/ Len(p) > remaining]

TailWrite(b, limit, p) ==
    LET all == b.buf \o p IN
    [buf |-> IF Len(all) > limit THEN SubSeq(all, Len(all) - limit + 1, Len(all)) ELSE all,
     truncated |-> b.truncated \/ Len(all) > limit]
=============================================================================
