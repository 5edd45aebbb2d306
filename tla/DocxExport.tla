----------------------------- MODULE DocxExport -----------------------------
(***************************************************************************)
(* The document a message is exported as (markdownToDocxParagraphs of      *)
(* services/message.service.ts).  Text is a sequence of marks and words:   *)
(* the bold mark **, the bullet mark "- " or "* ", the line feed, and      *)
(* words.  Blanks, sizes and spacing are left out.  A paragraph has a      *)
(* style and runs of text, each bold or not.                               *)
(***************************************************************************)
EXTENDS SequencesExt, Integers

Bold == "**"
Bullet == "- "
NewLine == "\n"

Marks == {Bold, Bullet, NewLine}

\* What is left without the marks.
Words(text) ==
    LET from[k \in 1..(Len(text) + 1)] ==
          IF k > Len(text) THEN <<>>
          ELSE IF text[k] \in Marks THEN from[k + 1]
          ELSE <<text[k]>> \o from[k + 1]
    IN  from[1]

\* split("\n"): from[k] are the lines of what is left of the text at k.
Lines(text) ==
    LET from[k \in 1..(Len(text) + 1)] ==
          LET ends == {i \in k..Len(text) : text[i] = NewLine} IN
          IF ends = {} THEN <<SubSeq(text, k, Len(text))>>
          ELSE <<SubSeq(text, k, Min(ends) - 1)>> \o from[Min(ends) + 1]
    IN  from[1]

Run(text, bold) == [text |-> text, bold |-> bold]

\* The line as a whole between two bold marks.
IsHeading(line) == Len(line) > 2 /\ Head(line) = Bold /\ Last(line) = Bold

IsBulletMutant(line) == Len(line) > 1

IsBullet(line) == Len(line) > 1 /\ Head(line) = Bullet

\* A part of bold marks only loses one at each end, as a bold part does.
Plain(part) ==
    IF part # <<>> /\ Head(part) = Bold /\ Last(part) = Bold
    THEN Run(SubSeq(part, 2, Len(part) - 1), TRUE)
    ELSE Run(part, FALSE)

\* The end of the bold part that begins at i, 0 if none does: a mark, text without marks, a mark.
BoldEnd(line, i) ==
    LET next == {j \in (i + 1)..Len(line) : line[j] = Bold} IN
    IF line[i] # Bold \/ next = {} \/ i + 1 \in next THEN 0 ELSE Min(next)

\* split(/(\*\*[^*]+\*\*)/g): from[k] are the runs of what is left of the line at k.
Runs(line) ==
    LET from[k \in 1..(Len(line) + 1)] ==
          LET bold == {i \in k..Len(line) : BoldEnd(line, i) > 0} IN
          IF bold = {}
          THEN <<Plain(SubSeq(line, k, Len(line)))>>
          ELSE LET i == Min(bold)
                   end == BoldEnd(line, i)
               IN  <<Plain(SubSeq(line, k, i - 1)), Run(SubSeq(line, i + 1, end - 1), TRUE)>> \o from[end + 1]
    IN  from[1]

Paragraph(line) ==
    IF line = <<>> THEN [style |-> "empty", runs |-> <<>>]
    ELSE IF IsHeading(line)
    THEN [style |-> "heading", runs |-> <<Run(SubSeq(line, 2, Len(line) - 1), TRUE)>>]
    ELSE IF IsBullet(line) THEN [style |-> "bullet", runs |-> <<Run(Tail(line), FALSE)>>]
    ELSE [style |-> "text", runs |-> Runs(line)]

Document(text) ==
    LET lines == Lines(text) IN [n \in DOMAIN lines |-> Paragraph(lines[n])]

\* What a reader of the document reads.
Content(paragraphs) ==
    FlattenSeq([n \in DOMAIN paragraphs |->
        FlattenSeq([k \in DOMAIN paragraphs[n].runs |-> paragraphs[n].runs[k].text])])

=============================================================================
