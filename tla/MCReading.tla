----------------------------- MODULE MCReading -----------------------------
(* Small instances of Reading: answers of up to three blocks, whose tokens *)
(* cut marks and lines, and walks through each of the lists.               *)
EXTENDS Reading

\* Parts of an answer: a heading, the end of one and a bullet, text with a bold word, a line feed.
MCText == [t1 |-> <<Bold, "a">>, t2 |-> <<Bold, NewLine, Bullet, "b">>, t3 |-> <<"c", Bold, "d", Bold, Bold>>,
           t4 |-> <<NewLine>>]

MCTokens == DOMAIN MCText

MCBlocks == {<<t>> : t \in MCTokens} \cup {<<"event", "t1">>, <<"t2", "t3">>, <<"event">>, <<"junk">>, <<"end">>}

MCBodies == {<<>>} \cup {<<a, b>> : a, b \in MCBlocks} \cup {<<a, <<"t3">>, b>> : a, b \in MCBlocks}

=============================================================================
