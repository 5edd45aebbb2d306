---------------------------- MODULE EventStream ----------------------------
(***************************************************************************)
(* FlowiseProvider.stream (services/ai/flowise.provider.ts): the answer of *)
(* the model arrives as blocks of lines, cut into chunks wherever the      *)
(* network likes.  The provider buffers what it has read, takes one block  *)
(* after the other out of the buffer and yields the token of each.         *)
(*                                                                         *)
(* A step is one read of the body or one block.  A line is one symbol: a   *)
(* part of a line stays in the buffer like the line itself, because no     *)
(* block ends in it.  A body that breaks off inside a line ends with the   *)
(* line "junk", which does not parse.                                      *)
(***************************************************************************)
EXTENDS SequencesExt, Integers

CONSTANTS
    Tokens,      \* the texts of tokens
    Bodies       \* what the model may send: sequences of blocks, which are sequences of lines

\* A block has a line, and no line is a line end; the other lines are not taken for tokens.
EventsAssumption ==
    /\ Bodies \subseteq Seq(Seq(STRING \ {"\n", "\r"}) \ {<<>>})
    /\ {"\n", "\r", "end", "junk", "none"} \cap Tokens = {}

VARIABLES
    blocks,      \* what the model sends
    body,        \* what of it has not been read
    buffer,      \* what was read and is in no block yet
    step,        \* "reading", "taking", "flushing", "done" or "broken"
    yielded      \* the tokens the consumer was given

vars == <<blocks, body, buffer, step, yielded>>

LineFeed == "\n"
CarriageReturn == "\r"

\* Lines that begin with "data:": a token, the event end, another event or no JSON.
IsData(line) == line \in Tokens \cup {"end", "junk"}

\* The lines of a block, each with its end.
Lines(block, lineEnd) ==
    LET width == Len(lineEnd) + 1
    IN  [i \in 1..(width * Len(block)) |->
            IF (i - 1) % width = 0 THEN block[((i - 1) \div width) + 1] ELSE lineEnd[(i - 1) % width]]

\* What the model sends from each block on, with one of the two line ends; the end of the last
\* block may be missing, or that of its last line too.
Written(sent, lineEnd, missing) ==
    LET block(k) == Lines(sent[k], lineEnd) \o lineEnd
        from[k \in 1..(Len(sent) + 1)] ==
          IF k > Len(sent) THEN <<>>
          ELSE IF k < Len(sent) THEN block(k) \o from[k + 1]
          ELSE SubSeq(block(k), 1, Len(block(k)) - missing * Len(lineEnd))
    IN  from

LineEnds == {<<LineFeed>>, <<CarriageReturn, LineFeed>>}

Init ==
    /\ blocks \in Bodies
    /\ \E lineEnd \in LineEnds, missing \in 0..2 : body = Written(blocks, lineEnd, missing)[1]
    /\ buffer = <<>>
    /\ step = "reading"
    /\ yielded = <<>>

-----------------------------------------------------------------------------

\* How many symbols of a boundary begin at i, 0 if none does.
BoundaryMutant(i) ==
    IF i < Len(buffer) /\ SubSeq(buffer, i, i + 1) = <<LineFeed, LineFeed>> THEN 2 ELSE 0

Boundary(i) ==
    IF i < Len(buffer) /\ SubSeq(buffer, i, i + 1) = <<LineFeed, LineFeed>> THEN 2
    ELSE IF i + 2 < Len(buffer)
            /\ SubSeq(buffer, i, i + 3) = <<CarriageReturn, LineFeed, CarriageReturn, LineFeed>> THEN 4
    ELSE 0

Boundaries == {i \in DOMAIN buffer : Boundary(i) > 0}

Read(n) ==
    /\ step = "reading"
    /\ n \in 1..Len(body)
    /\ buffer' = buffer \o SubSeq(body, 1, n)
    /\ body' = SubSeq(body, n + 1, Len(body))
    /\ step' = "taking"
    /\ UNCHANGED <<blocks, yielded>>

\* trim() leaves nothing.
IsBlank == ToSet(buffer) \subseteq {LineFeed, CarriageReturn}

\* A rest that is not blank is made a block.
ReadEnd ==
    /\ step = "reading"
    /\ body = <<>>
    /\ IF IsBlank
       THEN /\ step' = "done"
            /\ UNCHANGED buffer
       ELSE /\ step' = "flushing"
            /\ buffer' = buffer \o <<LineFeed, LineFeed>>
    /\ UNCHANGED <<blocks, body, yielded>>

\* The first data line of a block counts, if there is one.
DataLine(block) ==
    LET data == {i \in DOMAIN block : IsData(block[i])} IN IF data = {} THEN "none" ELSE block[Min(data)]

\* A block of the buffer: a token is yielded, the event end is the end, anything else is skipped.
TakeBlock ==
    /\ step \in {"taking", "flushing"}
    /\ Boundaries # {}
    /\ LET first == Min(Boundaries)
           line == DataLine(SubSeq(buffer, 1, first - 1))
       IN  /\ buffer' = SubSeq(buffer, first + Boundary(first), Len(buffer))
           /\ yielded' = IF line \in Tokens THEN Append(yielded, line) ELSE yielded
           /\ step' = IF line = "end" THEN "done" ELSE step
    /\ UNCHANGED <<blocks, body>>

NoBlock ==
    /\ step \in {"taking", "flushing"}
    /\ Boundaries = {}
    /\ step' = IF step = "flushing" THEN "done" ELSE "reading"
    /\ UNCHANGED <<blocks, body, buffer, yielded>>

\* The signal is aborted, or the connection fails.
Break ==
    /\ step = "reading"
    /\ step' = "broken"
    /\ UNCHANGED <<blocks, body, buffer, yielded>>

Next == (\E n \in 1..Len(body) : Read(n)) \/ ReadEnd \/ TakeBlock \/ NoBlock \/ Break

Spec == Init /\ [][Next]_vars

-----------------------------------------------------------------------------

\* The tokens the model sent: the first data line of each block, up to the event end.
SentFrom ==
    LET from[k \in 1..(Len(blocks) + 1)] ==
          IF k > Len(blocks) \/ DataLine(blocks[k]) = "end" THEN <<>>
          ELSE IF DataLine(blocks[k]) \in Tokens THEN <<DataLine(blocks[k])>> \o from[k + 1]
          ELSE from[k + 1]
    IN  from

Sent == SentFrom[1]

(* However the network cuts the body, whichever line ends it uses and      *)
(* whether or not the last block is ended: the consumer is given the       *)
(* tokens that were sent, in order, and all of them unless the stream was  *)
(* broken off (flowise.provider.ts:70-141).                                *)
TokensAreTheStream ==
    /\ IsPrefix(yielded, Sent)
    /\ step = "done" => yielded = Sent

=============================================================================
