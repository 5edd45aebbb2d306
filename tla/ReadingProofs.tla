--------------------------- MODULE ReadingProofs ---------------------------
(***************************************************************************)
(* What is proved of a client's reading: of the walks through a list       *)
(* (Pages), for any number of rows, any size of a page and any length of a *)
(* walk, of the stream of an answer (EventStream), for any blocks and any  *)
(* cut of the network, and of its document (DocxExport), for any text.     *)
(*                                                                         *)
(* A walk by a cursor has a place in the order of the list: the rows it    *)
(* has shown are not below the place, and of the steady rows those it has  *)
(* not shown are.  A walk by page numbers has shown the rows in front of   *)
(* the end of its last page, as long as no row shifts there: where no tie  *)
(* lies across an end, every answer has the same rows in front of it.      *)
(*                                                                         *)
(* A stream stands before one of the blocks the model sent: what is left   *)
(* to read begins with it, and what is left to yield are its token and     *)
(* those after it.                                                         *)
(*                                                                         *)
(* The words of two texts put together are those of the first and those of *)
(* the second.  The lines of a text and the runs of a line leave out marks *)
(* alone, so the document of a text has its words.                         *)
(***************************************************************************)
EXTENDS Reading, FiniteSets, SequenceTheorems, FiniteSetTheorems, TLAPS

\* What a list may hold.
Entries == [id : Ids, key : Nat, born : Nat, match : BOOLEAN]

Walked ==
    /\ listing \in {"conversations", "attachments"} \cup Lists!Numbered
    /\ table \subseteq Entries
    /\ \A x, y \in table : x.id = y.id => x = y
    /\ walk \in [step : {"asking", "reading", "counting", "turning", "done"},
                 cursor : Ids \cup {Lists!NoCursor}, key : Int, page : Nat \ {0}, total : Nat \cup {-1}]
    /\ shown \in Seq(Ids)
    /\ {moved, fallen, lost, shifted} \subseteq BOOLEAN

\* The steady rows are there and match.
SteadyMatch == \A i \in steady : \E row \in Lists!Matching : row.id = i

-----------------------------------------------------------------------------
(* Walks by a cursor.                                                      *)

\* Where a walk stands: at the key it has looked up, or at the row of its cursor, if any.
Places ==
    IF walk.step = "reading" THEN {[id |-> walk.cursor, key |-> walk.key]}
    ELSE {row \in table : row.id = walk.cursor}

\* A walk without a cursor has shown nothing; the row at a cursor was shown.
Started ==
    /\ walk.step \in {"asking", "reading", "done"}
    /\ walk.step = "reading" => walk.cursor # Lists!NoCursor
    /\ IF walk.cursor = Lists!NoCursor THEN walk.step = "done" \/ shown = <<>>
       ELSE walk.cursor \in ToSet(shown)

\* Nothing is shown twice, and no shown row is below the place of the walk.
NoneAgain ==
    ~moved /\ ~fallen =>
        /\ IsInjective(shown)
        /\ walk.step # "done" =>
              \A at \in Places, row \in table : row.id \in ToSet(shown) => ~Lists!Before(at, row)

\* Every steady row was shown, or is below the place of the walk as long as it goes on.
NoneMissed ==
    ~fallen =>
        IF walk.step = "done" THEN lost \/ steady \subseteq ToSet(shown)
        ELSE \A at \in Places, row \in table :
                row.id \in steady => row.id \in ToSet(shown) \/ Lists!Before(at, row)

ByCursor ==
    /\ Started
    /\ listing = "attachments" => ~moved /\ ~fallen
    /\ NoneAgain
    /\ NoneMissed

-----------------------------------------------------------------------------
(* Walks by page numbers.                                                  *)

\* The matching rows with a greater key.
Above(row) == {y \in Lists!Matching : y.key > row.key}

\* How many rows the pages reach that were read so far, and with the page at hand.
Reach == Lists!Skip(IF walk.step = "asking" THEN walk.page ELSE walk.page + 1)
NextReach == Lists!Skip(walk.page + 1)

\* The number of rows is counted once for every page; the last page reaches as many.
Counted ==
    /\ walk.step \in {"asking", "counting", "turning", "done"}
    /\ walk.step = "counting" => walk.total = -1
    /\ walk.step = "turning" => walk.total # -1
    /\ walk.step = "done" => walk.total # -1 /\ walk.total <= NextReach

\* As long as nothing shifts at the ends of the pages, exactly the rows in front of the last
\* end were shown, each once, and the steady rows are in front of the end of the last page.
Unshifted ==
    ~shifted =>
        /\ ToSet(shown) = Lists!InFront(Reach)
        /\ Cardinality(Lists!InFront(Reach)) <= Reach
        /\ IsInjective(shown)
        /\ walk.total # -1 /\ walk.total <= NextReach => steady \subseteq Lists!InFront(NextReach)

ByNumber == Counted /\ Unshifted

WInv == Walked /\ SteadyMatch /\ IF listing \in Lists!Numbered THEN ByNumber ELSE ByCursor

-----------------------------------------------------------------------------
(* The order of a list.                                                    *)

LEMMA BeforeIsStrict ==
    ASSUME NEW x, NEW y, NEW z,
           {x.id, y.id, z.id, x.key, y.key, z.key} \subseteq Int
    PROVE  /\ ~Lists!Before(x, x)
           /\ Lists!Before(x, y) => ~Lists!Before(y, x)
           /\ Lists!Before(x, y) /\ Lists!Before(y, z) => Lists!Before(x, z)
BY DEF Lists!Before

LEMMA NumbersOfIds ==
    /\ \A i \in Ids : i \in Int /\ i # Lists!NoCursor
    /\ Lists!NoCursor \in Int /\ Lists!NoCursor \notin Ids
    /\ Limit \in Nat \ {0}
BY ReadingAssumption DEF Lists!PagesAssumption, Lists!NoCursor

\* What Pages takes from the libraries is what this module takes from them.
LEMMA SameLibraries ==
    ASSUME NEW S
    PROVE  /\ Lists!IsFiniteSet(S) = IsFiniteSet(S) /\ Lists!Cardinality(S) = Cardinality(S)
           /\ Lists!ToSet(S) = ToSet(S) /\ Lists!IsInjective(S) = IsInjective(S)
<1>1. Lists!IsFiniteSet(S) = IsFiniteSet(S)
    BY DEF Lists!IsFiniteSet, IsFiniteSet
<1>2. Lists!Cardinality(S) = Cardinality(S)
    BY DEF Lists!Cardinality, Cardinality
<1>3. Lists!ToSet(S) = ToSet(S) /\ Lists!IsInjective(S) = IsInjective(S)
    BY DEF Lists!ToSet, ToSet, Lists!IsInjective, IsInjective
<1> QED
    BY <1>1, <1>2, <1>3

LEMMA FiniteList == ASSUME Walked PROVE IsFiniteSet(table) /\ IsFiniteSet(Lists!Matching)
<1>1. IsFiniteSet(Ids)
    BY ReadingAssumption, SameLibraries DEF Lists!PagesAssumption
<1> DEFINE f == [row \in table |-> row.id]
<1>2. f \in Injection(table, Ids)
    BY DEF Walked, Entries, Injection, IsInjective
<1>3. IsFiniteSet(table)
    BY <1>1, <1>2, FS_Injection
<1>4. Lists!Matching \in SUBSET table
    BY DEF Lists!Matching
<1> QED
    BY <1>3, <1>4, FS_Subset

LEMMA RowOfId ==
    ASSUME Walked, NEW i \in Lists!Present
    PROVE  Lists!Row(i) \in table /\ Lists!Row(i).id = i /\ \A row \in table : row.id = i => row = Lists!Row(i)
<1>1. \E row \in table : row.id = i
    BY DEF Lists!Present
<1>2. Lists!Row(i) \in table /\ Lists!Row(i).id = i
    BY <1>1 DEF Lists!Row
<1> QED
    BY <1>2 DEF Walked

\* An answer holds every row once.
LEMMA AnswerFacts ==
    ASSUME NEW rows, IsFiniteSet(rows), NEW answer \in Lists!Answers(rows)
    PROVE  /\ answer \in Seq(rows) /\ Len(answer) = Cardinality(rows) /\ Len(answer) \in Nat
           /\ \A i, j \in 1 .. Len(answer) : answer[i] = answer[j] => i = j
           /\ \A row \in rows : \E k \in 1 .. Len(answer) : answer[k] = row
           /\ \A i, j \in 1 .. Len(answer) :
                 i < j => IF listing \in Lists!Numbered THEN answer[i].key >= answer[j].key
                          ELSE Lists!Before(answer[i], answer[j])
<1> DEFINE n == Cardinality(rows)
<1>1. n \in Nat
    BY FS_CardinalityType
<1>2. /\ answer \in [1 .. n -> rows]
      /\ \A i, j \in 1 .. n : i # j => answer[i] # answer[j]
      /\ \A i, j \in DOMAIN answer :
            i < j => IF listing \in Lists!Numbered THEN answer[i].key >= answer[j].key
                     ELSE Lists!Before(answer[i], answer[j])
    BY SameLibraries DEF Lists!Answers, Lists!SetToSeqs
<1>3. answer \in Injection(1 .. n, rows)
    BY <1>2 DEF Injection, IsInjective
<1>4. Cardinality(1 .. n) = n
    BY <1>1, FS_Interval
<1>5. answer \in Surjection(1 .. n, rows)
    BY <1>3, <1>4, FS_Injection
<1>6. answer \in Seq(rows) /\ Len(answer) = n
    BY <1>1, <1>2
<1> HIDE DEF n
<1>7. /\ \A i, j \in 1 .. Len(answer) : answer[i] = answer[j] => i = j
      /\ \A row \in rows : \E k \in 1 .. Len(answer) : answer[k] = row
    BY <1>2, <1>5, <1>6 DEF Surjection
<1> QED
    BY <1>1, <1>2, <1>6, <1>7 DEF n

\* The first n members of what an answer has after its first s, and how many there are.
PartOf(answer, s, n) == Lists!FirstOf(SubSeq(answer, s + 1, Len(answer)), n)
PartSize(answer, s, n) ==
    IF Len(answer) - s < n THEN IF Len(answer) < s THEN 0 ELSE Len(answer) - s ELSE n

LEMMA PartOfAnswer ==
    ASSUME NEW rows, NEW answer \in Seq(rows), NEW s \in Nat, NEW n \in Nat
    PROVE  LET m == PartSize(answer, s, n)
           IN  /\ m \in Nat /\ m <= n /\ (s + m <= Len(answer) \/ m = 0)
               /\ PartOf(answer, s, n) \in Seq(rows) /\ Len(PartOf(answer, s, n)) = m
               /\ \A k \in 1 .. m : PartOf(answer, s, n)[k] = answer[s + k]
<1> DEFINE rest == SubSeq(answer, s + 1, Len(answer))
           r == IF Len(answer) < s THEN 0 ELSE Len(answer) - s
           m == PartSize(answer, s, n)
<1>1. Len(answer) \in Nat /\ r \in Nat
    OBVIOUS
<1>2. \A i \in s + 1 .. Len(answer) : answer[i] \in rows
    OBVIOUS
<1>3. rest \in Seq(rows) /\ Len(rest) = r /\ \A k \in 1 .. r : rest[k] = answer[s + k]
  <2>1. /\ rest \in Seq(rows)
        /\ Len(rest) = IF s + 1 <= Len(answer) THEN Len(answer) - (s + 1) + 1 ELSE 0
        /\ \A k \in 1 .. Len(answer) - (s + 1) + 1 : rest[k] = answer[s + 1 + k - 1]
    BY <1>1, <1>2, SubSeqProperties
  <2> HIDE DEF rest
  <2>2. Len(rest) = r
    BY <1>1, <2>1
  <2>3. ASSUME NEW k \in 1 .. r PROVE rest[k] = answer[s + k]
    <3>1. k \in 1 .. Len(answer) - (s + 1) + 1 /\ s + 1 + k - 1 = s + k
      BY <1>1
    <3> QED
      BY <2>1, <3>1
  <2> QED
    BY <2>1, <2>2, <2>3
<1> HIDE DEF rest
<1>4. m \in Nat /\ m <= n /\ m <= r /\ m = IF r < n THEN r ELSE n
    BY <1>1 DEF PartSize
<1> HIDE DEF r, m
<1>5. \A i \in 1 .. m : rest[i] \in rows
    BY <1>1, <1>3, <1>4
<1>6. /\ SubSeq(rest, 1, m) \in Seq(rows) /\ Len(SubSeq(rest, 1, m)) = m
      /\ \A k \in 1 .. m : SubSeq(rest, 1, m)[k] = rest[k]
  <2>1. /\ SubSeq(rest, 1, m) \in Seq(rows)
        /\ Len(SubSeq(rest, 1, m)) = IF 1 <= m THEN m - 1 + 1 ELSE 0
        /\ \A k \in 1 .. m - 1 + 1 : SubSeq(rest, 1, m)[k] = rest[1 + k - 1]
    BY <1>4, <1>5, SubSeqProperties
  <2> QED
    BY <1>4, <2>1
<1>7. Lists!FirstOf(rest, n) = SubSeq(rest, 1, m)
    BY <1>3, <1>4 DEF Lists!FirstOf
<1>8. \A k \in 1 .. m : SubSeq(rest, 1, m)[k] = answer[s + k]
    BY <1>1, <1>3, <1>4, <1>6
<1>9. s + m <= Len(answer) \/ m = 0
    BY <1>1, <1>4 DEF r
<1> QED
    BY <1>4, <1>6, <1>7, <1>8, <1>9 DEF rest, PartOf, m

-----------------------------------------------------------------------------
(* A page by a cursor.                                                     *)

\* What the page is read from: the matching rows below the place of the walk.
Rest == {row \in Lists!Matching : \A at \in Places : Lists!Before(at, row)}

\* The page of an answer adds its rows to those shown.
LEMMA ShownPage ==
    ASSUME Walked, NEW page \in Seq(table), shown' = shown \o Lists!IdsIn(page)
    PROVE  /\ shown' \in Seq(Ids)
           /\ ToSet(shown') = ToSet(shown) \cup {page[k].id : k \in 1 .. Len(page)}
           /\ IsInjective(shown) /\ (\A i, j \in 1 .. Len(page) : page[i] = page[j] => i = j)
              /\ (\A k \in 1 .. Len(page) : page[k].id \notin ToSet(shown))
              => IsInjective(shown')
<1> DEFINE ids == Lists!IdsIn(page)
<1>1. Len(page) \in Nat /\ Len(shown) \in Nat /\ shown \in Seq(Ids)
    BY DEF Walked
<1>2. \A k \in 1 .. Len(page) : page[k] \in table /\ page[k].id \in Ids
    BY DEF Walked, Entries
<1>3. ids \in Seq(Ids) /\ Len(ids) = Len(page) /\ \A k \in 1 .. Len(page) : ids[k] = page[k].id
  <2>1. ids = [k \in 1 .. Len(page) |-> page[k].id]
    BY DEF Lists!IdsIn
  <2> QED
    BY <1>1, <1>2, <2>1
<1>4. shown' = shown \o ids
    OBVIOUS
<1> HIDE DEF ids
<1>5. /\ shown' \in Seq(Ids) /\ Len(shown') = Len(shown) + Len(page)
      /\ \A i \in 1 .. Len(shown) : shown'[i] = shown[i]
      /\ \A i \in Len(shown) + 1 .. Len(shown) + Len(page) : shown'[i] = page[i - Len(shown)].id
  <2>1. /\ shown' \in Seq(Ids) /\ Len(shown') = Len(shown) + Len(ids)
        /\ \A i \in 1 .. Len(shown) + Len(ids) :
              shown'[i] = IF i <= Len(shown) THEN shown[i] ELSE ids[i - Len(shown)]
    <3>1. /\ shown \o ids \in Seq(Ids) /\ Len(shown \o ids) = Len(shown) + Len(ids)
          /\ \A i \in 1 .. Len(shown) + Len(ids) :
                (shown \o ids)[i] = IF i <= Len(shown) THEN shown[i] ELSE ids[i - Len(shown)]
      BY <1>1, <1>3, ConcatProperties, Zenon
    <3> QED
      BY <1>4, <3>1
  <2>2. ASSUME NEW i \in Len(shown) + 1 .. Len(shown) + Len(page)
        PROVE  shown'[i] = page[i - Len(shown)].id
    <3>1. i \in 1 .. Len(shown) + Len(ids) /\ ~(i <= Len(shown)) /\ i - Len(shown) \in 1 .. Len(page)
      BY <1>1, <1>3
    <3> QED
      BY <1>3, <2>1, <3>1
  <2> QED
    BY <1>1, <1>3, <2>1, <2>2
<1>6. ToSet(shown') = ToSet(shown) \cup {page[k].id : k \in 1 .. Len(page)}
  <2>1. ASSUME NEW i \in 1 .. Len(shown')
        PROVE  \/ \E j \in 1 .. Len(shown) : shown'[i] = shown[j]
               \/ \E k \in 1 .. Len(page) : shown'[i] = page[k].id
    <3>1. CASE i <= Len(shown)
      BY <1>1, <1>5, <3>1
    <3>2. CASE ~(i <= Len(shown))
      <4>1. i \in Len(shown) + 1 .. Len(shown) + Len(page) /\ i - Len(shown) \in 1 .. Len(page)
        BY <1>1, <1>5, <3>2
      <4> QED
        BY <1>5, <4>1
    <3> QED
      BY <3>1, <3>2
  <2>2. ASSUME NEW i \in 1 .. Len(shown) PROVE \E j \in 1 .. Len(shown') : shown'[j] = shown[i]
    <3>1. i \in 1 .. Len(shown')
      BY <1>1, <1>5
    <3> QED
      BY <1>5, <3>1
  <2>3. ASSUME NEW k \in 1 .. Len(page) PROVE \E j \in 1 .. Len(shown') : shown'[j] = page[k].id
    <3> DEFINE j == Len(shown) + k
    <3>1. j \in 1 .. Len(shown') /\ j \in Len(shown) + 1 .. Len(shown) + Len(page) /\ j - Len(shown) = k
      BY <1>1, <1>5
    <3> HIDE DEF j
    <3> QED
      BY <1>5, <3>1
  <2>4. DOMAIN shown' = 1 .. Len(shown') /\ DOMAIN shown = 1 .. Len(shown)
    BY <1>1, <1>5
  <2>5. ASSUME NEW x
        PROVE  x \in ToSet(shown') <=> x \in ToSet(shown) \/ \E k \in 1 .. Len(page) : x = page[k].id
    <3>1. x \in ToSet(shown') <=> \E i \in 1 .. Len(shown') : x = shown'[i]
      BY <2>4, Zenon DEF ToSet
    <3>2. x \in ToSet(shown) <=> \E i \in 1 .. Len(shown) : x = shown[i]
      BY <2>4, Zenon DEF ToSet
    <3> QED
      BY <2>1, <2>2, <2>3, <3>1, <3>2, Zenon
  <2> QED
    BY <2>5
<1>7. ASSUME IsInjective(shown), \A i, j \in 1 .. Len(page) : page[i] = page[j] => i = j,
             \A k \in 1 .. Len(page) : page[k].id \notin ToSet(shown)
      PROVE  IsInjective(shown')
  <2>1. DOMAIN shown' = 1 .. Len(shown) + Len(page) /\ DOMAIN shown = 1 .. Len(shown)
    BY <1>1, <1>5
  <2>2. \A i, j \in 1 .. Len(page) : page[i].id = page[j].id => i = j
    BY <1>2, <1>7 DEF Walked
  <2>3. \A i \in 1 .. Len(shown), k \in 1 .. Len(page) : shown[i] # page[k].id
    BY <1>1, <1>7 DEF ToSet
  <2>4. ASSUME NEW i \in 1 .. Len(shown) + Len(page), NEW j \in 1 .. Len(shown) + Len(page),
               shown'[i] = shown'[j]
        PROVE  i = j
    <3>1. CASE i <= Len(shown) /\ j <= Len(shown)
      BY <1>1, <1>5, <1>7, <2>1, <2>4, <3>1 DEF IsInjective
    <3>2. CASE i > Len(shown) /\ j > Len(shown)
      <4>1. /\ i - Len(shown) \in 1 .. Len(page) /\ j - Len(shown) \in 1 .. Len(page)
            /\ i \in Len(shown) + 1 .. Len(shown) + Len(page) /\ j \in Len(shown) + 1 .. Len(shown) + Len(page)
        BY <1>1, <3>2
      <4>2. i - Len(shown) = j - Len(shown)
        BY <1>5, <2>2, <2>4, <4>1
      <4> QED
        BY <1>1, <4>2
    <3>3. CASE i <= Len(shown) /\ j > Len(shown)
      <4>1. /\ i \in 1 .. Len(shown) /\ j - Len(shown) \in 1 .. Len(page)
            /\ j \in Len(shown) + 1 .. Len(shown) + Len(page)
        BY <1>1, <3>3
      <4> QED
        BY <1>5, <2>3, <2>4, <4>1
    <3>4. CASE i > Len(shown) /\ j <= Len(shown)
      <4>1. /\ j \in 1 .. Len(shown) /\ i - Len(shown) \in 1 .. Len(page)
            /\ i \in Len(shown) + 1 .. Len(shown) + Len(page)
        BY <1>1, <3>4
      <4> QED
        BY <1>5, <2>3, <2>4, <4>1
    <3> QED
      BY <1>1, <3>1, <3>2, <3>3, <3>4
  <2> QED
    BY <2>1, <2>4 DEF IsInjective
<1> QED
    BY <1>5, <1>6, <1>7

LEMMA FirstPart ==
    ASSUME NEW rows, NEW answer \in Seq(rows), NEW n \in Nat,
           NEW m, m = IF Len(answer) < n THEN Len(answer) ELSE n
    PROVE  /\ m \in Nat /\ m <= n /\ m <= Len(answer)
           /\ Lists!FirstOf(answer, n) \in Seq(rows) /\ Len(Lists!FirstOf(answer, n)) = m
           /\ \A k \in 1 .. m : Lists!FirstOf(answer, n)[k] = answer[k]
<1>1. Len(answer) \in Nat /\ m \in Nat /\ m <= n /\ m <= Len(answer)
    OBVIOUS
<1>2. \A i \in 1 .. m : answer[i] \in rows
    BY <1>1
<1>3. /\ SubSeq(answer, 1, m) \in Seq(rows) /\ Len(SubSeq(answer, 1, m)) = IF 1 <= m THEN m - 1 + 1 ELSE 0
      /\ \A k \in 1 .. m - 1 + 1 : SubSeq(answer, 1, m)[k] = answer[1 + k - 1]
    BY <1>1, <1>2, SubSeqProperties
<1>4. Len(SubSeq(answer, 1, m)) = m /\ \A k \in 1 .. m : SubSeq(answer, 1, m)[k] = answer[k]
    BY <1>1, <1>3
<1>5. Lists!FirstOf(answer, n) = SubSeq(answer, 1, m)
    BY DEF Lists!FirstOf
<1> QED
    BY <1>1, <1>3, <1>4, <1>5

\* A row of the table or a looked up place has numbers to be compared by.
LEMMA Comparable ==
    ASSUME Walked
    PROVE  /\ \A row \in table : row.id \in Int /\ row.key \in Int
           /\ \A at \in Places : at.id \in Int /\ at.key \in Int /\ at.id = walk.cursor
<1>1. ASSUME NEW row \in table PROVE row.id \in Int /\ row.key \in Int
  <2>1. row \in Entries
    BY DEF Walked
  <2>2. row.id \in Ids /\ row.key \in Nat
    BY <2>1 DEF Entries
  <2> QED
    BY <2>2, NumbersOfIds
<1>2. walk.cursor \in Int /\ walk.key \in Int
  <2>1. walk.cursor \in Ids \cup {Lists!NoCursor} /\ walk.key \in Int
    BY DEF Walked
  <2> QED
    BY <2>1, NumbersOfIds
<1> QED
    BY <1>1, <1>2 DEF Places

\* The page that an answer fills is in order and new.
LEMMA PageIsNew ==
    ASSUME WInv, listing \notin Lists!Numbered, walk.step \in {"asking", "reading"},
           walk.cursor = Lists!NoCursor \/ Places # {}, NEW answer \in Lists!Answers(Rest)
    PROVE  /\ answer \in Seq(table) /\ Len(answer) \in Nat
           /\ \A i, j \in 1 .. Len(answer) : answer[i] = answer[j] => i = j
           /\ \A i, j \in 1 .. Len(answer) : i < j => Lists!Before(answer[i], answer[j])
           /\ \A row \in Rest : \E k \in 1 .. Len(answer) : answer[k] = row
           /\ \A k \in 1 .. Len(answer) : answer[k] \in Rest /\ answer[k] \in table
           /\ ~moved /\ ~fallen => \A k \in 1 .. Len(answer) : answer[k].id \notin ToSet(shown)
<1>1. Walked /\ ByCursor
    BY DEF WInv
<1>2. Rest \in SUBSET Lists!Matching /\ IsFiniteSet(Lists!Matching)
    BY <1>1, FiniteList DEF Rest
<1>3. IsFiniteSet(Rest) /\ Rest \subseteq table
    BY <1>2, FS_Subset DEF Lists!Matching
<1>4. /\ answer \in Seq(Rest) /\ Len(answer) \in Nat
      /\ \A i, j \in 1 .. Len(answer) : answer[i] = answer[j] => i = j
      /\ \A row \in Rest : \E k \in 1 .. Len(answer) : answer[k] = row
      /\ \A i, j \in 1 .. Len(answer) : i < j => Lists!Before(answer[i], answer[j])
    BY <1>3, AnswerFacts
<1>5. \A k \in 1 .. Len(answer) : answer[k] \in Rest /\ answer[k] \in table
    BY <1>3, <1>4
<1>6. ASSUME ~moved, ~fallen, NEW row \in Rest, row.id \in ToSet(shown) PROVE FALSE
  <2>1. CASE walk.cursor = Lists!NoCursor
    BY <1>1, <1>6, <2>1 DEF ByCursor, Started, ToSet
  <2>2. CASE Places # {}
    BY <1>1, <1>3, <1>6, <2>2 DEF ByCursor, NoneAgain, Rest
  <2> QED
    BY <2>1, <2>2
<1>7. answer \in Seq(table)
    BY <1>3, <1>4
<1> QED
    BY <1>4, <1>5, <1>6, <1>7

\* Of the rows left, those an answer has not filled the page with come after the last of it.
LEMMA CursorPage ==
    ASSUME WInv, listing \notin Lists!Numbered, walk.step \in {"asking", "reading"},
           walk.cursor = Lists!NoCursor \/ Places # {}, NEW answer \in Lists!Answers(Rest),
           Lists!ShowCursorPage(Lists!FirstOf(answer, Limit + 1)),
           UNCHANGED <<listing, table, steady, moved, fallen, lost, shifted>>
    PROVE  WInv'
<1> DEFINE n == Len(answer)
           more == n > Limit
           m == IF n < Limit THEN n ELSE Limit
           long == Lists!FirstOf(answer, Limit + 1)
           page == Lists!FirstOf(long, Limit)
           last == answer[Limit]
<1>1. /\ answer \in Seq(table) /\ n \in Nat
      /\ \A i, j \in 1 .. n : answer[i] = answer[j] => i = j
      /\ \A i, j \in 1 .. n : i < j => Lists!Before(answer[i], answer[j])
      /\ \A row \in Rest : \E k \in 1 .. n : answer[k] = row
      /\ \A k \in 1 .. n : answer[k] \in Rest /\ answer[k] \in table
      /\ ~moved /\ ~fallen => \A k \in 1 .. n : answer[k].id \notin ToSet(shown)
    BY PageIsNew
<1>2. Limit \in Nat \ {0} /\ Walked /\ SteadyMatch /\ ByCursor
    BY NumbersOfIds DEF WInv
<1>3. /\ long \in Seq(table) /\ Len(long) = IF more THEN Limit + 1 ELSE n
      /\ \A k \in 1 .. Len(long) : long[k] = answer[k]
    BY <1>1, <1>2, FirstPart
<1>4. page \in Seq(table) /\ Len(page) = m /\ m \in Nat /\ m <= n /\ \A k \in 1 .. m : page[k] = answer[k]
  <2>1. /\ page \in Seq(table) /\ Len(page) = IF Len(long) < Limit THEN Len(long) ELSE Limit
        /\ \A k \in 1 .. Len(page) : page[k] = long[k]
    BY <1>2, <1>3, FirstPart
  <2> HIDE DEF page, long
  <2>2. Len(page) = m /\ m \in Nat /\ m <= n
    BY <1>1, <1>2, <1>3, <2>1
  <2>3. ASSUME NEW k \in 1 .. m PROVE page[k] = answer[k]
    <3>1. k \in 1 .. Len(page) /\ k \in 1 .. Len(long)
      BY <1>1, <1>2, <1>3, <2>2
    <3> QED
      BY <1>3, <2>1, <3>1
  <2> QED
    BY <2>1, <2>2, <2>3
<1>5. /\ shown' = shown \o Lists!IdsIn(page)
      /\ walk' = IF more THEN [walk EXCEPT !.step = "asking", !.cursor = last.id, !.key = Lists!NoKey]
                 ELSE [walk EXCEPT !.step = "done"]
  <2>1. (Len(long) > Limit) = more
    BY <1>1, <1>2, <1>3
  <2>2. more => long[Limit] = last
    BY <1>1, <1>2, <1>3
  <2> QED
    BY <2>1, <2>2 DEF Lists!ShowCursorPage, Lists!NextCursor
<1> HIDE DEF page, long, last
<1>6. /\ shown' \in Seq(Ids) /\ ToSet(shown') = ToSet(shown) \cup {page[k].id : k \in 1 .. Len(page)}
      /\ IsInjective(shown) /\ (\A i, j \in 1 .. Len(page) : page[i] = page[j] => i = j)
              /\ (\A k \in 1 .. Len(page) : page[k].id \notin ToSet(shown))
              => IsInjective(shown')
    BY <1>2, <1>4, <1>5, ShownPage
<1>7. \A i : i \in ToSet(shown') <=> i \in ToSet(shown) \/ \E k \in 1 .. m : i = answer[k].id
    BY <1>4, <1>6
<1>8. ~moved /\ ~fallen => IsInjective(shown')
  <2>1. ASSUME ~moved, ~fallen PROVE IsInjective(shown) /\ \A k \in 1 .. m : page[k].id \notin ToSet(shown)
    BY <1>1, <1>2, <1>4, <2>1 DEF ByCursor, NoneAgain
  <2>2. \A i, j \in 1 .. Len(page) : page[i] = page[j] => i = j
    BY <1>1, <1>4
  <2> QED
    BY <1>4, <1>6, <2>1, <2>2
<1>9. ~fallen => \A row \in table : row.id \in steady => row \in Rest \/ row.id \in ToSet(shown)
  <2> SUFFICES ASSUME ~fallen, NEW row \in table, row.id \in steady, row.id \notin ToSet(shown) PROVE row \in Rest
    OBVIOUS
  <2>1. row \in Lists!Matching
    BY <1>2 DEF Walked, SteadyMatch, Lists!Matching
  <2>2. \A at \in Places : Lists!Before(at, row)
    BY <1>2 DEF ByCursor, NoneMissed
  <2> QED
    BY <2>1, <2>2 DEF Rest
<1>10. Walked' /\ SteadyMatch'
  <2>1. more => last.id \in Ids
    BY <1>1, <1>2 DEF Walked, Entries, last
  <2>2. walk' \in [step : {"asking", "reading", "counting", "turning", "done"},
                   cursor : Ids \cup {Lists!NoCursor}, key : Int, page : Nat \ {0}, total : Nat \cup {-1}]
    <3>1. CASE more
      <4>1. /\ walk' = [walk EXCEPT !.step = "asking", !.cursor = last.id, !.key = Lists!NoKey]
            /\ last.id \in Ids /\ Lists!NoKey \in Int
        BY <1>5, <2>1, <3>1 DEF Lists!NoKey
      <4> QED
        BY <1>2, <4>1 DEF Walked
    <3>2. CASE ~more
      BY <1>2, <1>5, <3>2 DEF Walked
    <3> QED
      BY <3>1, <3>2
  <2> QED
    BY <1>2, <1>6, <2>2 DEF Walked, SteadyMatch, Lists!Matching
<1>11. CASE more
  <2>1. walk'.step = "asking" /\ walk'.cursor = last.id /\ Limit \in 1 .. n /\ last \in table /\ last \in Rest
    BY <1>1, <1>2, <1>5, <1>11 DEF Walked, last
  <2>2. Places' = {last}
    BY <1>2, <2>1 DEF Places, Walked
  <2>3. last.id \in ToSet(shown') /\ last.id # Lists!NoCursor
    <3>1. Limit \in 1 .. m
      BY <1>2, <1>11
    <3>2. last.id \in Ids
      BY <1>2, <2>1 DEF Walked, Entries
    <3> QED
      BY <1>7, <3>1, <3>2, NumbersOfIds DEF last
  <2>4. Started' /\ (listing' = "attachments" => ~moved' /\ ~fallen')
    BY <1>2, <2>1, <2>3 DEF ByCursor, Started
  <2>5. ASSUME ~moved, ~fallen, NEW row \in table, row.id \in ToSet(shown') PROVE ~Lists!Before(last, row)
    <3>1. {row.id, row.key, last.id, last.key} \subseteq Int
      BY <1>2, <2>1, Comparable
    <3>2. CASE row.id \in ToSet(shown)
      <4>1. CASE walk.cursor = Lists!NoCursor
        BY <1>2, <3>2, <4>1 DEF ByCursor, Started, ToSet
      <4>2. CASE Places # {}
        <5>1. PICK at \in Places : TRUE
          BY <4>2
        <5>2. {at.id, at.key} \subseteq Int /\ Lists!Before(at, last) /\ ~Lists!Before(at, row)
          BY <1>2, <2>1, <2>5, <3>2, <5>1, Comparable DEF ByCursor, NoneAgain, Rest
        <5> QED
          BY <3>1, <5>2, BeforeIsStrict
      <4> QED
        BY <4>1, <4>2
    <3>3. CASE row.id \notin ToSet(shown)
      <4>1. PICK k \in 1 .. m : row.id = answer[k].id
        BY <1>7, <2>5, <3>3
      <4>2. k \in 1 .. n /\ k <= Limit /\ row = answer[k]
        BY <1>1, <1>2, <1>4, <4>1 DEF Walked
      <4>3. row = last \/ Lists!Before(row, last)
        BY <1>1, <1>2, <2>1, <4>2 DEF last
      <4> QED
        BY <3>1, <4>2, <4>3, BeforeIsStrict
    <3> QED
      BY <3>2, <3>3
  <2>6. ASSUME ~fallen, NEW row \in table, row.id \in steady, row.id \notin ToSet(shown') PROVE Lists!Before(last, row)
    <3>1. row \in Rest
      BY <1>7, <1>9, <2>6
    <3>2. PICK k \in 1 .. n : answer[k] = row
      BY <1>1, <3>1
    <3>3. k \notin 1 .. m
      BY <1>7, <2>6, <3>2
    <3>4. Limit < k
      BY <1>1, <1>2, <1>11, <3>2, <3>3
    <3> QED
      BY <1>1, <2>1, <3>2, <3>4 DEF last
  <2>7. NoneAgain'
    BY <1>8, <2>1, <2>2, <2>5 DEF NoneAgain
  <2>8. NoneMissed'
    BY <2>1, <2>2, <2>6 DEF NoneMissed
  <2> QED
    BY <1>10, <2>4, <2>7, <2>8 DEF WInv, ByCursor
<1>12. CASE ~more
  <2>1. walk'.step = "done" /\ walk'.cursor = walk.cursor
    BY <1>2, <1>5, <1>12 DEF Walked
  <2>2. Started' /\ (listing' = "attachments" => ~moved' /\ ~fallen')
    BY <1>2, <1>7, <2>1 DEF ByCursor, Started
  <2>3. NoneAgain'
    BY <1>8, <2>1 DEF NoneAgain
  <2>4. m = n
    BY <1>1, <1>2, <1>12
  <2>5. ~fallen => steady \subseteq ToSet(shown')
    <3> SUFFICES ASSUME ~fallen, NEW i \in steady PROVE i \in ToSet(shown')
      OBVIOUS
    <3>1. PICK row \in table : row.id = i
      BY <1>2 DEF SteadyMatch, Lists!Matching
    <3>2. row \in Rest \/ i \in ToSet(shown)
      BY <1>9, <3>1
    <3>3. row \in Rest => \E k \in 1 .. m : answer[k] = row
      BY <1>1, <2>4
    <3> QED
      BY <1>7, <3>1, <3>2, <3>3
  <2>6. NoneMissed'
    BY <2>1, <2>5 DEF NoneMissed
  <2> QED
    BY <1>10, <2>2, <2>3, <2>6 DEF WInv, ByCursor
<1> QED
    BY <1>11, <1>12

-----------------------------------------------------------------------------
(* The queries of a walk by a cursor.                                      *)

LEMMA NumberedLists == Lists!Numbered = {"users", "groups", "members"}
BY DEF Lists!Numbered

\* A walk whose row has gone ends there.
LEMMA LostWalk ==
    ASSUME WInv, listing \notin Lists!Numbered, Lists!Unfound,
           UNCHANGED <<listing, table, steady, moved, fallen, shifted>>
    PROVE  WInv'
<1>1. Walked /\ SteadyMatch /\ ByCursor
    BY DEF WInv
<1>2. walk' = [walk EXCEPT !.step = "done"] /\ lost' = TRUE /\ shown' = shown
    BY DEF Lists!Unfound
<1>3. walk'.step = "done" /\ walk'.cursor = walk.cursor
    BY <1>1, <1>2 DEF Walked
<1>4. Walked' /\ SteadyMatch'
    BY <1>1, <1>2 DEF Walked, SteadyMatch, Lists!Matching
<1>5. Started' /\ (listing' = "attachments" => ~moved' /\ ~fallen')
    BY <1>1, <1>2, <1>3 DEF ByCursor, Started
<1>6. NoneAgain' /\ NoneMissed'
    BY <1>1, <1>2, <1>3 DEF ByCursor, NoneAgain, NoneMissed
<1> QED
    BY <1>4, <1>5, <1>6 DEF WInv, ByCursor

\* The key that is looked up is that of the row at the cursor: the walk stays where it is.
LEMMA LookUpStep == ASSUME WInv, Lists!LookUpCursor PROVE WInv'
<1>1. Walked /\ SteadyMatch /\ listing = "conversations" /\ listing \notin Lists!Numbered /\ ByCursor
    BY NumberedLists DEF WInv, Lists!LookUpCursor
<1>2. CASE ~\E row \in Lists!Matching : row.id = walk.cursor
    BY <1>1, <1>2, LostWalk DEF Lists!LookUpCursor
<1>3. CASE \E row \in Lists!Matching : row.id = walk.cursor
  <2> DEFINE row == Lists!Row(walk.cursor)
  <2>1. /\ walk' = [walk EXCEPT !.step = "reading", !.key = row.key]
        /\ UNCHANGED <<listing, table, shown, steady, moved, fallen, lost, shifted>>
        /\ walk.step = "asking" /\ walk.cursor # Lists!NoCursor
    BY <1>3 DEF Lists!LookUpCursor
  <2>2. walk.cursor \in Lists!Present
    BY <1>3 DEF Lists!Present, Lists!Matching
  <2>3. row \in table /\ row.id = walk.cursor /\ \A x \in table : x.id = walk.cursor => x = row
    BY <1>1, <2>2, RowOfId
  <2> HIDE DEF row
  <2>4. row.key \in Nat
    BY <1>1, <2>3 DEF Walked, Entries
  <2>5. walk'.step = "reading" /\ walk'.cursor = walk.cursor /\ walk'.key = row.key
    BY <1>1, <2>1 DEF Walked
  <2>6. Places = {row} /\ Places' = {[id |-> walk.cursor, key |-> row.key]}
    BY <2>1, <2>3, <2>5 DEF Places
  <2>7. \A x : Lists!Before([id |-> walk.cursor, key |-> row.key], x) <=> Lists!Before(row, x)
    BY <2>3 DEF Lists!Before
  <2>8. Walked' /\ SteadyMatch'
    <3>1. row.key \in Int
      BY <2>4
    <3>2. walk' \in [step : {"asking", "reading", "counting", "turning", "done"},
                     cursor : Ids \cup {Lists!NoCursor}, key : Int, page : Nat \ {0}, total : Nat \cup {-1}]
      BY <1>1, <2>1, <3>1 DEF Walked
    <3> QED
      BY <1>1, <2>1, <3>2 DEF Walked, SteadyMatch, Lists!Matching
  <2>9. Started' /\ (listing' = "attachments" => ~moved' /\ ~fallen')
    BY <1>1, <2>1, <2>4, <2>5 DEF ByCursor, Started
  <2>10. NoneAgain'
    BY <1>1, <2>1, <2>5, <2>6, <2>7 DEF ByCursor, NoneAgain
  <2>11. NoneMissed'
    BY <1>1, <2>1, <2>5, <2>6, <2>7 DEF ByCursor, NoneMissed
  <2> QED
    BY <1>1, <2>1, <2>8, <2>9, <2>10, <2>11 DEF WInv, ByCursor
<1> QED
    BY <1>2, <1>3

LEMMA ReadConversationsStep == ASSUME WInv, Lists!ReadConversations PROVE WInv'
<1>1. /\ Walked /\ ByCursor /\ listing \notin Lists!Numbered
      /\ walk.step \in {"asking", "reading"}
      /\ walk.step = "reading" \/ walk.cursor = Lists!NoCursor
    BY NumberedLists DEF WInv, Lists!ReadConversations
<1> DEFINE at == [id |-> walk.cursor, key |-> walk.key]
           rows == IF walk.step = "reading" THEN Lists!Below(Lists!Matching, at) ELSE Lists!Matching
<1>2. rows = Rest /\ (walk.cursor = Lists!NoCursor \/ Places # {})
  <2>1. CASE walk.step = "reading"
    <3>1. Places = {at}
      BY <2>1 DEF Places
    <3> QED
      BY <2>1, <3>1 DEF Rest, Lists!Below
  <2>2. CASE walk.step # "reading"
    <3>1. Places = {}
      BY <1>1, <2>2, NumbersOfIds DEF Places, Walked, Entries
    <3> QED
      BY <1>1, <2>2, <3>1 DEF Rest, Lists!Matching
  <2> QED
    BY <2>1, <2>2
<1>3. PICK answer \in Lists!Answers(Rest) : Lists!ShowCursorPage(Lists!FirstOf(answer, Limit + 1))
    BY <1>2 DEF Lists!ReadConversations
<1> QED
    BY <1>1, <1>2, <1>3, CursorPage DEF Lists!ReadConversations

LEMMA ReadAttachmentsStep == ASSUME WInv, Lists!ReadAttachments PROVE WInv'
<1>1. Walked /\ ByCursor /\ listing \notin Lists!Numbered /\ walk.step = "asking"
    BY NumberedLists DEF WInv, Lists!ReadAttachments
<1>2. CASE walk.cursor # Lists!NoCursor /\ walk.cursor \notin Lists!Present
    BY <1>1, <1>2, LostWalk DEF Lists!ReadAttachments
<1>3. CASE ~(walk.cursor # Lists!NoCursor /\ walk.cursor \notin Lists!Present)
  <2> DEFINE at == Lists!Row(walk.cursor)
             rows == IF walk.cursor # Lists!NoCursor THEN Lists!Below(Lists!Matching, at) ELSE Lists!Matching
  <2>1. rows = Rest /\ (walk.cursor = Lists!NoCursor \/ Places # {})
    <3>1. CASE walk.cursor # Lists!NoCursor
      <4>1. at \in table /\ at.id = walk.cursor /\ \A row \in table : row.id = walk.cursor => row = at
        BY <1>1, <1>3, <3>1, RowOfId
      <4> HIDE DEF at
      <4>2. Places = {at}
        BY <1>1, <4>1 DEF Places
      <4> QED
        BY <3>1, <4>2 DEF Rest, Lists!Below
    <3>2. CASE walk.cursor = Lists!NoCursor
      <4>1. Places = {}
        BY <1>1, <3>2, NumbersOfIds DEF Places, Walked, Entries
      <4> QED
        BY <3>2, <4>1 DEF Rest, Lists!Matching
    <3> QED
      BY <3>1, <3>2
  <2>2. PICK answer \in Lists!Answers(Rest) : Lists!ShowCursorPage(Lists!FirstOf(answer, Limit + 1))
    BY <1>3, <2>1 DEF Lists!ReadAttachments
  <2>3. UNCHANGED <<listing, table, steady, moved, fallen, lost, shifted>>
    BY <1>3 DEF Lists!ReadAttachments
  <2> QED
    BY <1>1, <2>1, <2>2, <2>3, CursorPage
<1> QED
    BY <1>2, <1>3

-----------------------------------------------------------------------------
(* What happens to the list while a client walks through it.               *)

\* Every change gives the list other rows.  In a list with a cursor a row has its key, or
\* one that moves the cursor or lets a shown row fall if it is such a row, or nobody has seen it.
Replaced ==
    /\ walk.step # "done"
    /\ UNCHANGED <<listing, walk, shown, lost>>
    /\ shifted' = (shifted \/ (listing \in Lists!Numbered /\ \E n \in Lists!Ends : Lists!InFront(n)' # Lists!InFront(n)))
    /\ table' \subseteq Entries
    /\ \A x, y \in table' : x.id = y.id => x = y
    /\ SteadyMatch' /\ steady' \subseteq steady
    /\ {moved', fallen'} \subseteq BOOLEAN /\ (moved => moved') /\ (fallen => fallen')
    /\ listing = "attachments" => moved' = moved /\ fallen' = fallen
    /\ listing \notin Lists!Numbered =>
          \A row \in table' :
              \/ row.id \notin ToSet(shown) \cup steady'
              \/ \E was \in table :
                    /\ was.id = row.id
                    /\ \/ was.key = row.key
                       \/ /\ row.id \notin steady'
                          /\ row.id = walk.cursor => moved'
                          /\ row.id \in ToSet(shown) /\ row.key < was.key => fallen'

LEMMA ReplacedWalked == ASSUME WInv, Replaced PROVE Walked' /\ SteadyMatch' /\ listing' = listing
<1>1. shifted' \in BOOLEAN
    BY DEF Replaced, WInv, Walked
<1> QED
    BY <1>1 DEF Replaced, WInv, Walked

\* A place that moves unnoticed goes up; no shown row comes under it unless it falls.
LEMMA ReplacedByCursor == ASSUME WInv, Replaced, listing \notin Lists!Numbered PROVE ByCursor'
<1>1. /\ Walked /\ ByCursor /\ Started /\ NoneAgain /\ NoneMissed
      /\ Walked' /\ steady' \subseteq steady /\ walk.step # "done"
      /\ UNCHANGED <<listing, walk, shown, lost>>
      /\ (moved => moved') /\ (fallen => fallen')
      /\ listing = "attachments" => moved' = moved /\ fallen' = fallen
    BY ReplacedWalked DEF WInv, ByCursor, Replaced
<1>2. ASSUME NEW row \in table'
      PROVE  /\ row.id \in Int /\ row.key \in Int /\ row.id \in Ids
             /\ row.id \in ToSet(shown) \cup steady' =>
                   \E was \in table :
                      /\ was.id = row.id /\ was.id \in Int /\ was.key \in Int
                      /\ \/ was.key = row.key
                         \/ /\ row.id \notin steady'
                            /\ row.id = walk.cursor => moved'
                            /\ row.id \in ToSet(shown) /\ row.key < was.key => fallen'
  <2>1. row.id \in Ids /\ row.key \in Nat
    BY <1>1 DEF Walked, Entries
  <2>2. row.id \in Int /\ row.key \in Int
    BY <2>1, NumbersOfIds
  <2>3. \A was \in table : was.id \in Int /\ was.key \in Int
    BY <1>1, Comparable
  <2> QED
    BY <2>1, <2>2, <2>3 DEF Replaced
<1>3. Started' /\ (listing' = "attachments" => ~moved' /\ ~fallen')
    BY <1>1 DEF ByCursor, Started
<1>4. ASSUME NEW at \in Places'
      PROVE  \E was \in Places :
                /\ was.id = at.id /\ {was.id, was.key, at.key} \subseteq Int
                /\ \/ was.key = at.key
                   \/ moved' /\ (at.key < was.key => fallen')
  <2>1. CASE walk.step = "reading"
    <3>1. at \in Places
      BY <1>1, <2>1 DEF Places
    <3>2. at.id \in Int /\ at.key \in Int
      BY <1>1, <3>1, Comparable
    <3> QED
      BY <3>1, <3>2
  <2>2. CASE walk.step # "reading"
    <3>1. at \in table' /\ at.id = walk.cursor
      BY <1>1, <2>2 DEF Places
    <3>2. at.id \in ToSet(shown)
      BY <1>1, <1>2, <3>1, NumbersOfIds DEF Started
    <3>3. PICK was \in table :
              /\ was.id = at.id /\ was.id \in Int /\ was.key \in Int
              /\ was.key = at.key \/ (moved' /\ (at.key < was.key => fallen'))
      BY <1>2, <3>1, <3>2
    <3>4. was \in Places
      BY <2>2, <3>1, <3>3 DEF Places
    <3> QED
      BY <1>2, <3>1, <3>3, <3>4
  <2> QED
    BY <2>1, <2>2
<1>5. NoneAgain'
  <2>1. ASSUME ~moved', ~fallen', NEW at \in Places', NEW row \in table', row.id \in ToSet(shown)
        PROVE  ~Lists!Before(at, row)
    <3>1. PICK place \in Places : place.id = at.id /\ place.key = at.key /\ {at.id, at.key} \subseteq Int
      BY <1>4, <2>1
    <3>2. PICK was \in table :
              was.id = row.id /\ {was.id, was.key, row.key} \subseteq Int /\ ~(row.key < was.key)
      BY <1>2, <2>1
    <3>3. ~Lists!Before(place, was)
      BY <1>1, <2>1, <3>2 DEF NoneAgain
    <3> QED
      BY <3>1, <3>2, <3>3 DEF Lists!Before
  <2> QED
    BY <1>1, <2>1 DEF NoneAgain
<1>6. NoneMissed'
  <2>1. ASSUME ~fallen', NEW at \in Places', NEW row \in table', row.id \in steady'
        PROVE  row.id \in ToSet(shown) \/ Lists!Before(at, row)
    <3>1. PICK place \in Places :
              place.id = at.id /\ {place.id, place.key, at.key} \subseteq Int /\ ~(at.key < place.key)
      BY <1>4, <2>1
    <3>2. PICK was \in table : was.id = row.id /\ was.id \in Int /\ was.key \in Int /\ was.key = row.key
      BY <1>2, <2>1
    <3>3. was.id \in ToSet(shown) \/ Lists!Before(place, was)
      BY <1>1, <2>1, <3>2 DEF NoneMissed
    <3> QED
      BY <3>1, <3>2, <3>3 DEF Lists!Before
  <2> QED
    BY <1>1, <2>1 DEF NoneMissed
<1> QED
    BY <1>3, <1>5, <1>6 DEF ByCursor

LEMMA CreateReplaces == ASSUME WInv, NEW i \in Ids, Lists!Create(i) PROVE Replaced
<1>1. PICK key \in Lists!Keys : Lists!Replace(table \cup {[id |-> i, key |-> key, match |-> TRUE, born |-> key]})
    BY DEF Lists!Create
<1> DEFINE row == [id |-> i, key |-> key, match |-> TRUE, born |-> key]
<1>2. /\ Walked /\ SteadyMatch /\ table' = table \cup {row} /\ UNCHANGED <<steady, moved, fallen>>
      /\ i \notin Lists!Present /\ i \notin steady \cup ToSet(shown)
    BY <1>1, SameLibraries DEF WInv, Lists!Create, Lists!Replace
<1>3. row \in Entries
  <2>1. key \in Nat
    BY <1>1, ReadingAssumption DEF Lists!PagesAssumption, Lists!Keys
  <2> QED
    BY <2>1 DEF Entries
<1>4. row.id = i
    OBVIOUS
<1> HIDE DEF row
<1>5. table' \subseteq Entries /\ \A x, y \in table' : x.id = y.id => x = y
    BY <1>2, <1>3, <1>4 DEF Walked, Lists!Present
<1>6. SteadyMatch'
    BY <1>2 DEF SteadyMatch, Lists!Matching
<1>7. \A x \in table' : x.id \notin ToSet(shown) \cup steady' \/ x \in table
    BY <1>2, <1>4
<1>8. /\ walk.step # "done" /\ UNCHANGED <<listing, walk, shown, lost>>
      /\ shifted' = (shifted \/ (listing \in Lists!Numbered /\ \E n \in Lists!Ends : Lists!InFront(n)' # Lists!InFront(n)))
    BY <1>1 DEF Lists!Replace
<1>9. UNCHANGED <<moved, fallen>> /\ {moved', fallen'} \subseteq BOOLEAN /\ steady' \subseteq steady
    BY <1>2 DEF Walked
<1> QED
    BY <1>5, <1>6, <1>7, <1>8, <1>9 DEF Replaced

LEMMA RemovalReplaces ==
    ASSUME WInv, Lists!Replace(table'), table' \subseteq table, UNCHANGED <<moved, fallen>>,
           steady' \subseteq steady, SteadyMatch'
    PROVE  Replaced
<1>1. /\ walk.step # "done" /\ UNCHANGED <<listing, walk, shown, lost>>
      /\ shifted' = (shifted \/ (listing \in Lists!Numbered /\ \E n \in Lists!Ends : Lists!InFront(n)' # Lists!InFront(n)))
    BY DEF Lists!Replace
<1>2. /\ table' \subseteq Entries /\ \A x, y \in table' : x.id = y.id => x = y
      /\ {moved', fallen'} \subseteq BOOLEAN
    BY DEF WInv, Walked
<1>3. \A x \in table' : x \in table
    OBVIOUS
<1> QED
    BY <1>1, <1>2, <1>3 DEF Replaced

LEMMA DeleteReplaces == ASSUME WInv, NEW i \in Ids, Lists!Delete(i) PROVE Replaced
<1>1. /\ Walked /\ SteadyMatch /\ table' = table \ {Lists!Row(i)}
      /\ steady' = steady \ {i} /\ UNCHANGED <<moved, fallen>> /\ i \in Lists!Present
    BY DEF WInv, Lists!Delete, Lists!Replace
<1>2. Lists!Row(i).id = i
    BY <1>1, RowOfId
<1>3. SteadyMatch'
    BY <1>1, <1>2 DEF SteadyMatch, Lists!Matching
<1>4. Lists!Replace(table')
    BY <1>1 DEF Lists!Delete
<1> QED
    BY <1>1, <1>3, <1>4, RemovalReplaces

LEMMA ClearReplaces == ASSUME WInv, Lists!Clear PROVE Replaced
<1>1. table' = {} /\ steady' = {} /\ UNCHANGED <<moved, fallen>>
    BY DEF Lists!Clear, Lists!Replace
<1>2. Lists!Replace(table')
    BY <1>1 DEF Lists!Clear
<1> QED
    BY <1>1, <1>2, RemovalReplaces DEF SteadyMatch

\* Attachments do not change; a row of another list gets another key, or keeps it.
LEMMA ChangeReplaces ==
    ASSUME WInv, listing # "attachments", NEW i \in Ids, NEW row \in Entries, row.id = i, Lists!Change(i, row)
    PROVE  Replaced
<1> DEFINE old == Lists!Row(i)
<1>1. /\ Walked /\ SteadyMatch /\ table' = (table \ {old}) \cup {row}
      /\ steady' = steady \ {i} /\ moved' = (moved \/ (i = walk.cursor /\ row.key # old.key))
      /\ fallen' = (fallen \/ (i \in ToSet(shown) /\ row.key < old.key))
      /\ i \in Lists!Present /\ Lists!Replace(table')
    BY SameLibraries DEF WInv, Lists!Change, Lists!Replace
<1>2. old \in table /\ old.id = i /\ \A x \in table : x.id = i => x = old
    BY <1>1, RowOfId
<1> HIDE DEF old
<1>3. table' \subseteq Entries /\ \A x, y \in table' : x.id = y.id => x = y
    BY <1>1, <1>2 DEF Walked
<1>4. SteadyMatch'
    BY <1>1, <1>2 DEF SteadyMatch, Lists!Matching
<1>5. /\ walk.step # "done" /\ UNCHANGED <<listing, walk, shown, lost>>
      /\ shifted' = (shifted \/ (listing \in Lists!Numbered /\ \E n \in Lists!Ends : Lists!InFront(n)' # Lists!InFront(n)))
    BY <1>1 DEF Lists!Replace
<1>6. /\ {moved', fallen'} \subseteq BOOLEAN /\ (moved => moved') /\ (fallen => fallen')
      /\ steady' \subseteq steady
    BY <1>1 DEF Walked
<1>7. ASSUME NEW x \in table'
      PROVE  \E was \in table :
                /\ was.id = x.id
                /\ \/ was.key = x.key
                   \/ /\ x.id \notin steady'
                      /\ x.id = walk.cursor => moved'
                      /\ x.id \in ToSet(shown) /\ x.key < was.key => fallen'
  <2>1. CASE x \in table
    BY <2>1
  <2>2. CASE x = row
    <3>1. x.id = i /\ i \notin steady'
      BY <1>1, <2>2
    <3>2. CASE row.key = old.key
      BY <1>2, <2>2, <3>1, <3>2
    <3>3. CASE row.key # old.key
      <4>1. (i = walk.cursor => moved') /\ (i \in ToSet(shown) /\ row.key < old.key => fallen')
        BY <1>1, <3>3, Zenon
      <4> QED
        BY <1>2, <2>2, <3>1, <4>1, Zenon
    <3> QED
      BY <3>2, <3>3
  <2> QED
    BY <1>1, <2>1, <2>2
<1> QED
    BY <1>3, <1>4, <1>5, <1>6, <1>7 DEF Replaced

LEMMA ChangesReplace ==
    ASSUME WInv, NEW i \in Ids, Lists!Touch(i) \/ Lists!Retitle(i) \/ Lists!Rename(i)
    PROVE  Replaced
<1> DEFINE old == Lists!Row(i)
<1>1. i \in Lists!Present
    BY Zenon DEF Lists!Touch, Lists!Retitle, Lists!Rename
<1>2. old \in Entries /\ old.id = i
    BY <1>1, RowOfId DEF WInv, Walked
<1>3. MaxTime \in Nat /\ \A date \in Lists!TouchDates(i) : date \in Nat
    BY <1>2, ReadingAssumption DEF Lists!PagesAssumption, Lists!TouchDates, Entries
<1>4. CASE Lists!Touch(i)
  <2>1. PICK date \in Lists!TouchDates(i) : Lists!Change(i, [old EXCEPT !.key = date])
    BY <1>4, Zenon DEF Lists!Touch
  <2> DEFINE row == [old EXCEPT !.key = date]
  <2>2. row \in Entries /\ row.id = i
    BY <1>2, <1>3 DEF Entries
  <2>3. listing # "attachments" /\ Lists!Change(i, row)
    BY <1>4, <2>1 DEF Lists!Touch
  <2> HIDE DEF row, old
  <2> QED
    BY <2>2, <2>3, ChangeReplaces
<1>5. CASE Lists!Retitle(i)
  <2>1. PICK date \in Lists!TouchDates(i) : Lists!Change(i, [old EXCEPT !.match = ~old.match, !.key = date])
    BY <1>5, Zenon DEF Lists!Retitle
  <2> DEFINE row == [old EXCEPT !.match = ~old.match, !.key = date]
  <2>2. row \in Entries /\ row.id = i
    BY <1>2, <1>3 DEF Entries
  <2>3. listing # "attachments" /\ Lists!Change(i, row)
    BY <1>5, <2>1 DEF Lists!Retitle
  <2> HIDE DEF row, old
  <2> QED
    BY <2>2, <2>3, ChangeReplaces
<1>6. CASE Lists!Rename(i)
  <2>1. listing \in Lists!Numbered
    BY <1>6, Zenon DEF Lists!Rename
  <2>2. PICK match \in BOOLEAN, key \in (IF listing = "members" THEN Lists!Keys ELSE {old.key}) :
            Lists!Change(i, [old EXCEPT !.match = match, !.key = key])
    BY <1>6, Zenon DEF Lists!Rename
  <2>3. key \in Nat
    <3>1. old.key \in Nat
      BY <1>2 DEF Entries
    <3> QED
      BY <1>3, <3>1 DEF Lists!Keys
  <2> DEFINE row == [old EXCEPT !.match = match, !.key = key]
  <2>4. row \in Entries /\ row.id = i
    BY <1>2, <2>3 DEF Entries
  <2>5. listing # "attachments" /\ Lists!Change(i, row)
    BY <2>1, <2>2, NumberedLists
  <2> HIDE DEF row, old
  <2> QED
    BY <2>4, <2>5, ChangeReplaces
<1> QED
    BY <1>4, <1>5, <1>6

-----------------------------------------------------------------------------
(* A page by its number.                                                   *)

\* The row of an id in front is one of few above.
LEMMA FrontRows ==
    ASSUME NEW n
    PROVE  \A i : i \in Lists!InFront(n) <=> \E row \in Lists!Matching : row.id = i /\ Cardinality(Above(row)) < n
<1>1. \A row : Lists!Cardinality(Above(row)) = Cardinality(Above(row))
    BY SameLibraries
<1>2. \A i : i \in Lists!InFront(n) <=>
                 \E row \in Lists!Matching : row.id = i /\ Lists!Cardinality(Above(row)) < n
    BY DEF Lists!InFront, Above
<1> QED
    BY <1>1, <1>2, Zenon

\* Where no tie lies across n, the rows in front of it are the first n of every answer.
LEMMA PrefixIsFront ==
    ASSUME Walked, listing \in Lists!Numbered, NEW answer \in Lists!Answers(Lists!Matching),
           NEW n \in Nat, Cardinality(Lists!InFront(n)) <= n, NEW k \in 1 .. Len(answer)
    PROVE  k <= n <=> answer[k].id \in Lists!InFront(n)
<1>1. /\ answer \in Seq(Lists!Matching) /\ Len(answer) \in Nat
      /\ \A i, j \in 1 .. Len(answer) : answer[i] = answer[j] => i = j
      /\ \A row \in Lists!Matching : \E j \in 1 .. Len(answer) : answer[j] = row
      /\ \A i, j \in 1 .. Len(answer) : i < j => answer[i].key >= answer[j].key
    BY FiniteList, AnswerFacts
<1>2. ASSUME NEW j \in 1 .. Len(answer)
      PROVE  answer[j] \in Lists!Matching /\ answer[j] \in table /\ answer[j].key \in Int /\ answer[j].id \in Ids
  <2>1. answer[j] \in Lists!Matching
    BY <1>1
  <2>2. answer[j] \in table
    BY <2>1 DEF Lists!Matching
  <2> QED
    BY <2>1, <2>2 DEF Walked, Entries
<1>3. ASSUME NEW j \in 1 .. Len(answer) PROVE IsFiniteSet(Above(answer[j])) /\ Cardinality(Above(answer[j])) <= j - 1
  <2> DEFINE above == Above(answer[j])
             before == {answer[i] : i \in 1 .. j - 1}
             f == [i \in 1 .. j - 1 |-> answer[i]]
  <2>1. ASSUME NEW y \in above PROVE \E i \in 1 .. j - 1 : answer[i] = y
    <3>1. y \in Lists!Matching /\ y.key > answer[j].key
      BY DEF Above
    <3>2. PICK i \in 1 .. Len(answer) : answer[i] = y
      BY <1>1, <3>1
    <3>3. answer[i].key > answer[j].key /\ answer[i].key \in Int /\ answer[j].key \in Int
      BY <1>2, <3>1, <3>2
    <3>4. j < i => answer[j].key >= answer[i].key
      BY <1>1
    <3>5. j # i /\ ~(j < i)
      BY <3>3, <3>4
    <3>6. i \in 1 .. j - 1
      BY <1>1, <3>5
    <3> QED
      BY <3>2, <3>6
  <2>2. f \in Surjection(1 .. j - 1, before)
    BY DEF Surjection
  <2>3. IsFiniteSet(1 .. j - 1) /\ Cardinality(1 .. j - 1) = j - 1
    BY FS_Interval
  <2>4. IsFiniteSet(before) /\ Cardinality(before) <= j - 1
    BY <2>2, <2>3, FS_Surjection
  <2>5. above \in SUBSET before
    BY <2>1
  <2> HIDE DEF above, before
  <2>6. IsFiniteSet(above) /\ Cardinality(above) <= Cardinality(before)
    BY <2>4, <2>5, FS_Subset
  <2>7. Cardinality(above) \in Nat /\ Cardinality(before) \in Nat
    BY <2>4, <2>6, FS_CardinalityType
  <2> QED
    BY <2>4, <2>6, <2>7 DEF above
<1>4. ASSUME NEW j \in 1 .. Len(answer), j <= n PROVE answer[j].id \in Lists!InFront(n)
  <2>1. Cardinality(Above(answer[j])) <= j - 1 /\ Cardinality(Above(answer[j])) \in Nat
    BY <1>3, FS_CardinalityType
  <2>2. Cardinality(Above(answer[j])) < n
    BY <1>4, <2>1
  <2> QED
    BY <1>2, <2>2, FrontRows
<1>5. ASSUME n < k, answer[k].id \in Lists!InFront(n) PROVE FALSE
  <2> DEFINE S == (1 .. n) \cup {k}
             f == [j \in S |-> answer[j].id]
             front == Lists!InFront(n)
  <2>1. S \subseteq 1 .. Len(answer)
    BY <1>1, <1>5
  <2>2. \A j \in S : answer[j].id \in front
    BY <1>4, <1>5, <2>1
  <2>3. \A i, j \in S : answer[i].id = answer[j].id => i = j
    <3> SUFFICES ASSUME NEW i \in S, NEW j \in S, answer[i].id = answer[j].id PROVE i = j
      OBVIOUS
    <3>1. answer[i] \in table /\ answer[j] \in table
      BY <1>2, <2>1
    <3>2. answer[i] = answer[j]
      BY <3>1 DEF Walked
    <3> QED
      BY <1>1, <2>1, <3>2
  <2> HIDE DEF front
  <2>4. f \in Injection(S, front)
    BY <2>2, <2>3 DEF Injection, IsInjective
  <2>5. IsFiniteSet(Ids)
    BY ReadingAssumption, SameLibraries DEF Lists!PagesAssumption
  <2>6. front \in SUBSET Ids
    <3>1. \A row \in Lists!Matching : row.id \in Ids
      BY DEF Lists!Matching, Walked, Entries
    <3> QED
      BY <3>1, FrontRows DEF front
  <2>7. IsFiniteSet(front)
    BY <2>5, <2>6, FS_Subset
  <2>8. Cardinality(S) <= Cardinality(front)
    BY <2>4, <2>7, FS_Injection
  <2>9. IsFiniteSet(1 .. n) /\ Cardinality(1 .. n) = n
    BY FS_Interval
  <2>10. Cardinality(S) = n + 1
    <3>1. k \notin 1 .. n
      BY <1>5
    <3> QED
      BY <2>9, <3>1, FS_AddElement
  <2>11. Cardinality(front) \in Nat
    BY <2>7, FS_CardinalityType
  <2> QED
    BY <2>8, <2>10, <2>11 DEF front
<1> QED
  <2>1. k \in Int /\ n \in Int
    OBVIOUS
  <2> QED
    BY <1>4, <1>5, <2>1

LEMMA Skips ==
    ASSUME NEW page \in Nat \ {0}
    PROVE  /\ Lists!Skip(page) \in Nat /\ Lists!Skip(page + 1) \in Nat
           /\ Lists!Skip(page + 1) = Lists!Skip(page) + Limit
           /\ Lists!Skip(page + 1) = page * Limit
<1>1. Limit \in Nat /\ page - 1 \in Nat /\ page + 1 - 1 = page
    BY NumbersOfIds
<1>2. Lists!Skip(page) = (page - 1) * Limit /\ Lists!Skip(page + 1) = page * Limit
    BY <1>1 DEF Lists!Skip
<1>3. \A p \in Nat : p * Limit \in Nat
    BY <1>1
<1>4. page * Limit = (page - 1) * Limit + Limit
    BY <1>1
<1> QED
    BY <1>1, <1>2, <1>3, <1>4

\* What is in front of a place depends on the matching rows only.
LEMMA SameFront ==
    ASSUME UNCHANGED table
    PROVE  Lists!Matching' = Lists!Matching /\ \A n : Lists!InFront(n)' = Lists!InFront(n)
<1>1. Lists!Matching' = Lists!Matching
    BY DEF Lists!Matching
<1> QED
    BY <1>1 DEF Lists!InFront

\* The reach of a walk in the next state is where its step and its page put it.
LEMMA NextReaches ==
    /\ Reach' = Lists!Skip(IF walk'.step = "asking" THEN walk'.page ELSE walk'.page + 1)
    /\ NextReach' = Lists!Skip(walk'.page + 1)
BY DEF Reach, NextReach, Lists!Skip

LEMMA FrontsLater ==
    ASSUME UNCHANGED table
    PROVE  /\ Lists!InFront(Reach)' = Lists!InFront(Reach')
           /\ Lists!InFront(NextReach)' = Lists!InFront(NextReach')
<1>1. Lists!Matching' = Lists!Matching
    BY DEF Lists!Matching
<1> QED
    BY <1>1 DEF Lists!InFront

\* A walk that stays where it is relies on the end of the pages it has read.
LEMMA FrontsThatStay ==
    ASSUME UNCHANGED walk, \A n \in Lists!Ends : Lists!InFront(n)' = Lists!InFront(n), Walked, Counted
    PROVE  /\ Reach' = Reach /\ NextReach' = NextReach
           /\ Lists!InFront(Reach)' = Lists!InFront(Reach)
           /\ walk.total # -1 /\ walk.total <= NextReach => Lists!InFront(NextReach)' = Lists!InFront(NextReach)
<1>1. Reach' = Reach /\ NextReach' = NextReach
    BY DEF Reach, NextReach, Lists!Skip
<1>2. Reach \in Lists!Ends
    BY DEF Lists!Ends, Reach
<1>3. ASSUME walk.total # -1, walk.total <= NextReach PROVE NextReach \in Lists!Ends
  <2>1. walk.page \in Nat \ {0} /\ walk.total \in Nat
    BY <1>3 DEF Walked
  <2>2. NextReach \in Nat
    BY <2>1, Skips DEF NextReach
  <2>3. walk.total \in 0 .. NextReach
    BY <1>3, <2>1, <2>2
  <2> QED
    BY <2>3 DEF Lists!Ends, NextReach
<1> QED
    BY <1>1, <1>2, <1>3

LEMMA ReadPageStep == ASSUME WInv, Lists!ReadPage, listing \in Lists!Numbered PROVE WInv'
<1>1. PICK answer \in Lists!Answers(Lists!Matching) :
          shown' = shown \o Lists!IdsIn(
                       Lists!FirstOf(SubSeq(answer, Lists!Skip(walk.page) + 1, Len(answer)), Limit))
    BY DEF Lists!ReadPage
<1> DEFINE n == Len(answer)
           s == Lists!Skip(walk.page)
           m == PartSize(answer, s, Limit)
           page == PartOf(answer, s, Limit)
<1>2. /\ Walked /\ SteadyMatch /\ ByNumber /\ walk.step = "asking" /\ Limit \in Nat \ {0}
      /\ walk' = [walk EXCEPT !.step = IF walk.total = -1 THEN "counting" ELSE "turning"]
      /\ shifted' = (shifted \/ Cardinality(Lists!InFront(Lists!Skip(walk.page + 1))) > Lists!Skip(walk.page + 1))
      /\ UNCHANGED <<listing, table, steady, moved, fallen, lost>>
    BY NumbersOfIds, SameLibraries DEF WInv, Lists!ReadPage
<1>3. /\ walk'.step = (IF walk.total = -1 THEN "counting" ELSE "turning")
      /\ walk'.page = walk.page /\ walk'.total = walk.total /\ walk.page \in Nat \ {0}
    BY <1>2 DEF Walked
<1>4. s \in Nat /\ Reach = s /\ NextReach = s + Limit /\ Reach' = s + Limit /\ NextReach' = s + Limit
      /\ Lists!Skip(walk.page + 1) = s + Limit
  <2>1. Reach = s
    BY <1>2 DEF Reach
  <2>2. Reach' = Lists!Skip(walk.page + 1) /\ NextReach' = Lists!Skip(walk.page + 1)
    BY <1>3, NextReaches
  <2> QED
    BY <1>3, <2>1, <2>2, Skips DEF NextReach
<1>5. /\ answer \in Seq(Lists!Matching) /\ n \in Nat /\ n = Cardinality(Lists!Matching)
      /\ \A i, j \in 1 .. n : answer[i] = answer[j] => i = j
      /\ \A row \in Lists!Matching : \E k \in 1 .. n : answer[k] = row
    BY <1>2, FiniteList, AnswerFacts
<1> HIDE DEF s
<1>6. /\ m \in Nat /\ m <= Limit /\ (s + m <= n \/ m = 0)
      /\ page \in Seq(Lists!Matching) /\ Len(page) = m
      /\ \A k \in 1 .. m : page[k] = answer[s + k]
  <2>1. Limit \in Nat /\ s \in Nat /\ answer \in Seq(Lists!Matching)
    BY <1>2, <1>4, <1>5
  <2> QED
    BY <2>1, PartOfAnswer
<1>m. m = IF n - s < Limit THEN IF n < s THEN 0 ELSE n - s ELSE Limit
    BY DEF PartSize
<1> HIDE DEF m, page
<1>7. page \in Seq(table)
    BY <1>6 DEF Lists!Matching
<1>8. /\ shown' \in Seq(Ids) /\ ToSet(shown') = ToSet(shown) \cup {page[k].id : k \in 1 .. Len(page)}
      /\ IsInjective(shown) /\ (\A i, j \in 1 .. Len(page) : page[i] = page[j] => i = j)
              /\ (\A k \in 1 .. Len(page) : page[k].id \notin ToSet(shown))
              => IsInjective(shown')
    BY <1>1, <1>2, <1>7, ShownPage DEF page, s, PartOf
<1>9. ASSUME NEW k \in 1 .. m PROVE s + k \in 1 .. n /\ answer[s + k] \in Lists!Matching
  <2>1. s + k \in 1 .. n
    BY <1>4, <1>5, <1>6
  <2> QED
    BY <1>5, <2>1
<1>10. Walked' /\ SteadyMatch' /\ Counted'
  <2>1. shifted' \in BOOLEAN
    BY <1>2 DEF Walked
  <2> QED
    BY <1>2, <1>3, <1>8, <2>1 DEF Walked, SteadyMatch, Lists!Matching, ByNumber, Counted
<1>11. ASSUME ~shifted'
       PROVE  /\ ToSet(shown') = Lists!InFront(s + Limit) /\ Cardinality(Lists!InFront(s + Limit)) <= s + Limit
              /\ IsInjective(shown') /\ ~shifted
  <2>1. /\ ToSet(shown) = Lists!InFront(s) /\ Cardinality(Lists!InFront(s)) <= s /\ IsInjective(shown)
        /\ ~shifted /\ ~(Cardinality(Lists!InFront(s + Limit)) > s + Limit)
    BY <1>2, <1>4, <1>11, Zenon DEF ByNumber, Unshifted
  <2>2. IsFiniteSet(Lists!InFront(s + Limit))
    <3>1. IsFiniteSet(Ids)
      BY ReadingAssumption, SameLibraries DEF Lists!PagesAssumption
    <3>2. \A row \in Lists!Matching : row.id \in Ids
      BY <1>2 DEF Lists!Matching, Walked, Entries
    <3>3. Lists!InFront(s + Limit) \in SUBSET Ids
      BY <3>2, FrontRows
    <3> QED
      BY <3>1, <3>3, FS_Subset
  <2>3. s + Limit \in Nat /\ Cardinality(Lists!InFront(s + Limit)) <= s + Limit
    BY <1>2, <1>4, <2>1, <2>2, FS_CardinalityType
  <2>4. \A k \in 1 .. n : k <= s <=> answer[k].id \in Lists!InFront(s)
    BY <1>2, <1>4, <2>1, PrefixIsFront
  <2>5. \A k \in 1 .. n : k <= s + Limit <=> answer[k].id \in Lists!InFront(s + Limit)
    BY <1>2, <2>3, PrefixIsFront
  <2>6. ASSUME NEW k \in 1 .. m
        PROVE  page[k].id \in Lists!InFront(s + Limit) /\ page[k].id \notin Lists!InFront(s)
    <3>1. page[k] = answer[s + k] /\ s + k \in 1 .. n /\ s + k <= s + Limit /\ ~(s + k <= s)
      BY <1>2, <1>4, <1>6, <1>9
    <3> QED
      BY <2>4, <2>5, <3>1
  <2>7. ASSUME NEW x \in Lists!InFront(s + Limit)
        PROVE  x \in Lists!InFront(s) \/ \E k \in 1 .. m : x = page[k].id
    <3>1. PICK i \in 1 .. n : x = answer[i].id
      BY <1>5, FrontRows
    <3>2. CASE i <= s
      BY <2>4, <3>1, <3>2
    <3>3. CASE ~(i <= s)
      <4>1. i <= s + Limit
        BY <2>5, <3>1
      <4>2. i - s \in 1 .. m /\ s + (i - s) = i
        BY <1>2, <1>4, <1>5, <1>m, <3>3, <4>1
      <4> QED
        BY <1>6, <3>1, <4>2
    <3> QED
      BY <3>2, <3>3
  <2>8. ASSUME NEW x \in Lists!InFront(s) PROVE x \in Lists!InFront(s + Limit)
    <3>1. PICK i \in 1 .. n : x = answer[i].id
      BY <1>5, FrontRows
    <3>2. i <= s
      BY <2>4, <3>1
    <3>3. i <= s + Limit
      BY <1>2, <1>4, <3>2
    <3> QED
      BY <2>5, <3>1, <3>3
  <2>9. ToSet(shown') = Lists!InFront(s + Limit)
    BY <1>6, <1>8, <2>1, <2>6, <2>7, <2>8
  <2>10. \A i, j \in 1 .. m : page[i] = page[j] => i = j
    <3> SUFFICES ASSUME NEW i \in 1 .. m, NEW j \in 1 .. m, page[i] = page[j] PROVE i = j
      OBVIOUS
    <3>1. s + i \in 1 .. n /\ s + j \in 1 .. n /\ answer[s + i] = answer[s + j]
      BY <1>6, <1>9
    <3>2. s + i = s + j
      BY <1>5, <3>1
    <3> QED
      BY <1>4, <1>6, <3>2
  <2> QED
    BY <1>6, <1>8, <2>1, <2>3, <2>6, <2>9, <2>10
<1>12. Unshifted'
  <2>1. /\ Lists!InFront(Reach)' = Lists!InFront(s + Limit)
        /\ Lists!InFront(NextReach)' = Lists!InFront(s + Limit)
    BY <1>2, <1>4, FrontsLater
  <2>2. ~shifted => (walk.total # -1 /\ walk.total <= s + Limit => steady \subseteq Lists!InFront(s + Limit))
    BY <1>2, <1>4 DEF ByNumber, Unshifted
  <2> QED
    BY <1>2, <1>3, <1>4, <1>11, <2>1, <2>2 DEF Unshifted
<1> QED
  <2>1. WInv' <=> Walked' /\ SteadyMatch' /\ ByNumber'
    BY <1>2 DEF WInv
  <2> QED
    BY <1>10, <1>12, <2>1 DEF ByNumber

\* Rows that are fewer than the reach are all in front of it.
LEMMA AllInFront ==
    ASSUME Walked, SteadyMatch, NEW n, Cardinality(Lists!Matching) <= n, n \in Nat
    PROVE  steady \subseteq Lists!InFront(n)
<1> SUFFICES ASSUME NEW row \in Lists!Matching PROVE Cardinality(Above(row)) < n
    BY FrontRows DEF SteadyMatch
<1>1. IsFiniteSet(Lists!Matching) /\ Above(row) \in SUBSET Lists!Matching
    BY FiniteList DEF Above
<1>2. row.key \in Nat /\ row \notin Above(row)
    BY DEF Walked, Entries, Lists!Matching, Above
<1>3. /\ IsFiniteSet(Above(row)) /\ Cardinality(Above(row)) <= Cardinality(Lists!Matching)
      /\ Cardinality(Above(row)) # Cardinality(Lists!Matching)
    BY <1>1, <1>2, FS_Subset
<1>4. Cardinality(Above(row)) \in Nat /\ Cardinality(Lists!Matching) \in Nat
    BY <1>1, <1>3, FS_CardinalityType
<1> QED
    BY <1>3, <1>4

LEMMA CountStep == ASSUME WInv, Lists!Count, listing \in Lists!Numbered PROVE WInv'
<1> DEFINE size == Cardinality(Lists!Matching)
<1>1. /\ Walked /\ SteadyMatch /\ ByNumber /\ walk.step \in {"asking", "counting"}
      /\ UNCHANGED <<listing, table, shown, steady, moved, fallen, lost, shifted>>
      /\ walk' = [walk EXCEPT !.total = size, !.step = IF walk.step = "counting" THEN "turning" ELSE walk.step]
    BY SameLibraries DEF WInv, Lists!Count
<1>2. size \in Nat
    BY <1>1, FiniteList, FS_CardinalityType
<1>3. \A n \in Nat : size <= n => steady \subseteq Lists!InFront(n)
    BY <1>1, AllInFront
<1> HIDE DEF size
<1>4. /\ walk'.step = (IF walk.step = "counting" THEN "turning" ELSE "asking")
      /\ walk'.page = walk.page /\ walk'.total = size /\ walk.page \in Nat \ {0}
    BY <1>1 DEF Walked
<1>5. Walked' /\ SteadyMatch'
  <2>1. walk' \in [step : {"asking", "reading", "counting", "turning", "done"},
                   cursor : Ids \cup {Lists!NoCursor}, key : Int, page : Nat \ {0}, total : Nat \cup {-1}]
    BY <1>1, <1>2 DEF Walked
  <2> QED
    BY <1>1, <2>1 DEF Walked, SteadyMatch, Lists!Matching
<1>6. Counted'
    BY <1>2, <1>4 DEF Counted
<1>7. Reach' = Reach /\ NextReach' = NextReach /\ NextReach \in Nat
    BY <1>1, <1>4, NextReaches, Skips DEF Reach, NextReach
<1>8. Lists!InFront(Reach)' = Lists!InFront(Reach) /\ Lists!InFront(NextReach)' = Lists!InFront(NextReach)
    BY <1>1, <1>7, FrontsLater
<1>9. Unshifted'
    BY <1>1, <1>3, <1>4, <1>7, <1>8 DEF Unshifted, ByNumber
<1> QED
  <2>1. WInv' <=> Walked' /\ SteadyMatch' /\ ByNumber'
    BY <1>1 DEF WInv
  <2> QED
    BY <1>5, <1>6, <1>9, <2>1 DEF ByNumber

LEMMA TurnStep == ASSUME WInv, Lists!TurnPage PROVE WInv'
<1>1. /\ Walked /\ SteadyMatch /\ walk.step = "turning" /\ listing \in Lists!Numbered /\ ByNumber
      /\ UNCHANGED <<listing, table, shown, steady, moved, fallen, lost, shifted>>
      /\ walk' = IF walk.page * Limit < walk.total
                 THEN [walk EXCEPT !.step = "asking", !.page = walk.page + 1, !.total = -1]
                 ELSE [walk EXCEPT !.step = "done"]
    BY DEF WInv, Lists!TurnPage, ByCursor, Started
<1>2. walk.page \in Nat \ {0} /\ walk.total \in Nat
    BY <1>1 DEF Walked, ByNumber, Counted
<1>3. Reach = walk.page * Limit /\ NextReach = Reach /\ Reach \in Nat /\ Lists!Skip(walk.page + 1) = Reach
    BY <1>1, <1>2, Skips DEF Reach, NextReach
<1>4. CASE walk.page * Limit < walk.total
  <2>1. walk' = [walk EXCEPT !.step = "asking", !.page = walk.page + 1, !.total = -1]
    BY <1>1, <1>4
  <2>2. walk'.step = "asking" /\ walk'.page = walk.page + 1 /\ walk'.total = -1
    BY <1>1, <2>1 DEF Walked
  <2>3. Walked' /\ SteadyMatch'
    <3>1. walk.page + 1 \in Nat \ {0}
      BY <1>2
    <3>2. walk' \in [step : {"asking", "reading", "counting", "turning", "done"},
                     cursor : Ids \cup {Lists!NoCursor}, key : Int, page : Nat \ {0}, total : Nat \cup {-1}]
      BY <1>1, <2>1, <3>1 DEF Walked
    <3> QED
      BY <1>1, <3>2 DEF Walked, SteadyMatch, Lists!Matching
  <2>4. Reach' = Reach
    BY <1>3, <2>2, NextReaches
  <2>5. Lists!InFront(Reach)' = Lists!InFront(Reach)
    BY <1>1, <2>4, FrontsLater
  <2>6. Counted' /\ Unshifted'
    BY <1>1, <2>2, <2>4, <2>5 DEF Counted, ByNumber, Unshifted
  <2>7. WInv' <=> Walked' /\ SteadyMatch' /\ ByNumber'
    BY <1>1 DEF WInv
  <2> QED
    BY <2>3, <2>6, <2>7 DEF ByNumber
<1>5. CASE ~(walk.page * Limit < walk.total)
  <2>1. walk' = [walk EXCEPT !.step = "done"]
    BY <1>1, <1>5
  <2>2. walk'.step = "done" /\ walk'.page = walk.page /\ walk'.total = walk.total
    BY <1>1, <2>1 DEF Walked
  <2>3. Walked' /\ SteadyMatch'
    BY <1>1, <2>1 DEF Walked, SteadyMatch, Lists!Matching
  <2>4. Reach' = Reach /\ NextReach' = NextReach
    BY <1>3, <2>2, NextReaches
  <2>5. Lists!InFront(Reach)' = Lists!InFront(Reach) /\ Lists!InFront(NextReach)' = Lists!InFront(NextReach)
    BY <1>1, <2>4, FrontsLater
  <2>6. walk.total # -1 /\ walk.total <= NextReach
    BY <1>2, <1>3, <1>5
  <2>7. Counted' /\ Unshifted'
    BY <1>1, <2>2, <2>4, <2>5, <2>6 DEF Counted, ByNumber, Unshifted
  <2>8. WInv' <=> Walked' /\ SteadyMatch' /\ ByNumber'
    BY <1>1 DEF WInv
  <2> QED
    BY <2>3, <2>7, <2>8 DEF ByNumber
<1> QED
    BY <1>4, <1>5

\* Rows that come to the ends the walk relies on, or leave them, shift.
LEMMA ReplacedByNumber == ASSUME WInv, Replaced, listing \in Lists!Numbered PROVE ByNumber'
<1>1. /\ Walked /\ ByNumber /\ UNCHANGED <<listing, walk, shown>> /\ steady' \subseteq steady
      /\ ~shifted' => ~shifted /\ \A n \in Lists!Ends : Lists!InFront(n)' = Lists!InFront(n)
    BY Zenon DEF WInv, Replaced
<1>2. Counted'
    BY <1>1 DEF ByNumber, Counted, NextReach, Lists!Skip
<1>3. ASSUME ~shifted'
      PROVE  /\ ~shifted /\ Reach' = Reach /\ NextReach' = NextReach
             /\ Lists!InFront(Reach)' = Lists!InFront(Reach)
             /\ walk.total # -1 /\ walk.total <= NextReach => Lists!InFront(NextReach)' = Lists!InFront(NextReach)
    BY <1>1, <1>3, FrontsThatStay DEF ByNumber
<1>4. Unshifted'
    BY <1>1, <1>3 DEF ByNumber, Unshifted
<1> QED
    BY <1>2, <1>4 DEF ByNumber

-----------------------------------------------------------------------------
(* The whole list.                                                         *)

LEMMA ReplacedStep == ASSUME WInv, Replaced PROVE WInv'
BY ReplacedWalked, ReplacedByCursor, ReplacedByNumber DEF WInv

\* Nothing happens to the list.
LEMMA StillStep ==
    ASSUME WInv, UNCHANGED <<listing, table, walk, shown, steady, moved, fallen, lost, shifted>>
    PROVE  WInv'
<1>1. Walked' /\ SteadyMatch'
    BY DEF WInv, Walked, SteadyMatch, Lists!Matching
<1>2. CASE listing \in Lists!Numbered
  <2>1. Walked /\ ByNumber
    BY <1>2 DEF WInv
  <2>2. Reach' = Reach /\ NextReach' = NextReach
    BY NextReaches DEF Reach, NextReach
  <2>3. Lists!InFront(Reach)' = Lists!InFront(Reach) /\ Lists!InFront(NextReach)' = Lists!InFront(NextReach)
    BY <2>2, FrontsLater
  <2>4. Counted' /\ Unshifted'
    BY <2>1, <2>2, <2>3 DEF ByNumber, Counted, Unshifted
  <2>5. WInv' <=> Walked' /\ SteadyMatch' /\ ByNumber'
    BY <1>2 DEF WInv
  <2> QED
    BY <1>1, <2>4, <2>5 DEF ByNumber
<1>3. CASE listing \notin Lists!Numbered
  <2>1. ByCursor
    BY <1>3 DEF WInv
  <2>2. Places' = Places
    BY DEF Places
  <2>3. ByCursor'
    BY <2>1, <2>2 DEF ByCursor, Started, NoneAgain, NoneMissed
  <2> QED
    BY <1>1, <1>3, <2>3 DEF WInv
<1> QED
    BY <1>2, <1>3

\* The first page is still to come: no row is in front of it, none at a cursor.
LEMMA WInit == Init => WInv
<1> SUFFICES ASSUME Init PROVE WInv
    OBVIOUS
<1>1. /\ listing \in {"conversations", "attachments"} \cup Lists!Numbered
      /\ shown = <<>> /\ moved = FALSE /\ fallen = FALSE /\ lost = FALSE /\ shifted = FALSE
      /\ walk = [step |-> "asking", cursor |-> Lists!NoCursor, key |-> -1, page |-> 1, total |-> -1]
      /\ steady = {row.id : row \in Lists!Matching}
    BY ReadingAssumption, NumberedLists DEF Init, Lists!Init, Lists!NoKey, Lists!PagesAssumption
<1>2. /\ table \in SUBSET [id : Ids, key : Lists!Keys, match : BOOLEAN, born : {0}]
      /\ \A x, y \in table : x.id = y.id => x = y
    BY DEF Init, Lists!Init
<1>3. \A row \in table : row \in Entries /\ row.id \in Ids
  <2>1. \A key \in Lists!Keys : key \in Nat
    BY ReadingAssumption DEF Lists!PagesAssumption, Lists!Keys
  <2> QED
    BY <1>2, <2>1 DEF Entries
<1>4. /\ walk.step = "asking" /\ walk.cursor = Lists!NoCursor /\ walk.page = 1 /\ walk.total = -1
      /\ walk \in [step : {"asking", "reading", "counting", "turning", "done"},
                   cursor : Ids \cup {Lists!NoCursor}, key : Int, page : Nat \ {0}, total : Nat \cup {-1}]
    BY <1>1
<1>5. ToSet(shown) = {} /\ IsInjective(shown) /\ shown \in Seq(Ids)
    BY <1>1 DEF ToSet, IsInjective
<1>6. Walked
    BY <1>1, <1>2, <1>3, <1>4, <1>5 DEF Walked
<1>7. SteadyMatch
    BY <1>1 DEF SteadyMatch
<1>8. ASSUME listing \in Lists!Numbered PROVE ByNumber
  <2>1. Counted
    BY <1>4 DEF Counted
  <2>2. Reach = 0
    <3>1. (1 - 1) * Limit = 0
      BY NumbersOfIds
    <3> QED
      BY <1>4, <3>1 DEF Reach, Lists!Skip
  <2>3. ASSUME NEW row \in Lists!Matching PROVE ~(Cardinality(Above(row)) < 0)
    <3>1. Above(row) \in SUBSET Lists!Matching
      BY DEF Above
    <3>2. IsFiniteSet(Above(row))
      BY <1>6, <3>1, FiniteList, FS_Subset
    <3>3. Cardinality(Above(row)) \in Nat
      BY <3>2, FS_CardinalityType
    <3> QED
      BY <3>3
  <2>4. Lists!InFront(0) = {}
    BY <2>3, FrontRows
  <2>5. Cardinality({}) = 0
    BY FS_EmptySet
  <2>6. Lists!InFront(Reach) = {} /\ Cardinality(Lists!InFront(Reach)) <= Reach
    BY <2>2, <2>4, <2>5
  <2>7. Unshifted
    BY <1>4, <1>5, <2>6 DEF Unshifted
  <2> QED
    BY <2>1, <2>7 DEF ByNumber
<1>9. ASSUME listing \notin Lists!Numbered PROVE ByCursor
  <2>1. Places = {}
    BY <1>3, <1>4, NumbersOfIds DEF Places
  <2>2. Started
    BY <1>1, <1>4 DEF Started
  <2>3. NoneAgain /\ NoneMissed
    BY <1>4, <1>5, <2>1 DEF NoneAgain, NoneMissed
  <2> QED
    BY <1>1, <2>2, <2>3 DEF ByCursor
<1> QED
    BY <1>6, <1>7, <1>8, <1>9 DEF WInv

LEMMA WStep == WInv /\ [Next]_vars => WInv'
<1> SUFFICES ASSUME WInv, [Next]_vars PROVE WInv'
    OBVIOUS
<1> USE DEF listVars
<1>1. CASE UNCHANGED listVars
    BY <1>1, StillStep
<1>2. ASSUME Lists!Next PROVE WInv'
  <2>1. CASE Lists!LookUpCursor
    BY <2>1, LookUpStep
  <2>2. CASE Lists!ReadConversations
    BY <2>2, ReadConversationsStep
  <2>3. CASE Lists!ReadAttachments
    BY <2>3, ReadAttachmentsStep
  <2>4. CASE Lists!CountUsers \/ Lists!CountGroups \/ Lists!CountMembers
    BY <2>4, CountStep, NumberedLists DEF Lists!CountUsers, Lists!CountGroups, Lists!CountMembers
  <2>5. CASE Lists!ReadUsers \/ Lists!ReadGroups \/ Lists!ReadMembers
    BY <2>5, ReadPageStep, NumberedLists DEF Lists!ReadUsers, Lists!ReadGroups, Lists!ReadMembers
  <2>6. CASE Lists!TurnPage
    BY <2>6, TurnStep
  <2>7. ASSUME NEW i \in Ids,
               Lists!Create(i) \/ Lists!Delete(i) \/ Lists!Touch(i) \/ Lists!Retitle(i) \/ Lists!Rename(i)
        PROVE  WInv'
    BY <2>7, CreateReplaces, DeleteReplaces, ChangesReplace, ReplacedStep
  <2>8. CASE Lists!Clear
    BY <2>8, ClearReplaces, ReplacedStep
  <2> QED
    BY <1>2, <2>1, <2>2, <2>3, <2>4, <2>5, <2>6, <2>7, <2>8 DEF Lists!Next
<1>3. CASE Walk
    BY <1>2, <1>3 DEF Walk
<1>4. CASE Stream \/ SaveAnswer \/ SaveFailure \/ DeleteConversation \/ Ask \/ FindMessage \/ FindConversation
    BY <1>1, <1>4 DEF Stream, SaveAnswer, SaveFailure, DeleteConversation, Ask, FindMessage, FindConversation
<1>5. CASE UNCHANGED vars
    BY <1>1, <1>5 DEF vars
<1> QED
    BY <1>3, <1>4, <1>5 DEF Next

\* In every state of every list a walk by a cursor has its place in the order of the rows; a
\* walk by page numbers has shown exactly the rows in front of the end of its last page,
\* each once, unless rows have shifted at an end it relied on.
THEOREM Inductive == Spec => []WInv
<1>1. WInv /\ [Next]_vars => WInv'
    BY WStep
<1> QED
    BY <1>1, WInit, PTL DEF Spec

\* A list shows a row twice only if a conversation the walk had shown got another date, or
\* rows have shifted under page numbers; a walk through attachments never does.
THEOREM RepeatsHaveACause == Spec => []RepeatsNeedAMove
<1>1. WInv => RepeatsNeedAMove
  <2> SUFFICES ASSUME WInv PROVE Lists!RepeatsNeedAMove
    BY DEF RepeatsNeedAMove
  <2>1. CASE listing \in Lists!Numbered
    BY <2>1, SameLibraries DEF WInv, ByNumber, Unshifted, Lists!RepeatsNeedAMove
  <2>2. CASE listing \notin Lists!Numbered
    <3>1. listing = "conversations" \/ (listing = "attachments" /\ ~moved /\ ~fallen)
      BY <2>2 DEF WInv, Walked, ByCursor
    <3> QED
      BY <2>2, <3>1, SameLibraries DEF WInv, ByCursor, NoneAgain, Lists!RepeatsNeedAMove
  <2> QED
    BY <2>1, <2>2
<1> QED
    BY <1>1, Inductive, PTL

\* A walk that is through has shown every row that was there and left alone throughout,
\* unless the row at its cursor was gone, a conversation it had shown fell to an older date,
\* or rows have shifted under page numbers.
THEOREM SteadyAreShown == Spec => []SteadyRowsAreShown
<1>1. WInv => SteadyRowsAreShown
  <2> SUFFICES ASSUME WInv, walk.step = "done"
               PROVE  \/ steady \subseteq ToSet(shown)
                      \/ listing \notin Lists!Numbered /\ lost
                      \/ listing = "conversations" /\ fallen
                      \/ listing \in Lists!Numbered /\ shifted
    BY SameLibraries DEF SteadyRowsAreShown, Lists!SteadyRowsAreShown
  <2>1. CASE listing \notin Lists!Numbered
    BY <2>1 DEF WInv, Walked, ByCursor, NoneMissed
  <2>2. CASE listing \in Lists!Numbered /\ ~shifted
    <3>1. Reach = NextReach
      BY DEF Reach, NextReach
    <3> QED
      BY <2>2, <3>1 DEF WInv, ByNumber, Counted, Unshifted
  <2> QED
    BY <2>1, <2>2
<1> QED
    BY <1>1, Inductive, PTL

-----------------------------------------------------------------------------
(* The answer of the model.                                                *)

\* What the model sends: lines and line ends.
LF == Events!LineFeed
CR == Events!CarriageReturn
Symbols == STRING \cup {LF, CR}

EventNames == {"reading", "taking", "flushing", "done", "broken"}

\* A stream that stands before block k: what was yielded are the tokens of the blocks before,
\* and what is buffered or to come is what the model sends from k on.
StandsAt(lineEnd, missing, k) ==
    /\ Events!Sent = yielded \o Events!SentFrom[k]
    /\ IF step = "flushing"
       THEN /\ body = <<>>
            /\ IF k > Len(blocks) THEN buffer \in {<<>>, <<LF>>}
               ELSE /\ k = Len(blocks) /\ missing > 0
                    /\ buffer = Events!Written(blocks, lineEnd, missing)[k] \o <<LF, LF>>
       ELSE buffer \o body = Events!Written(blocks, lineEnd, missing)[k]

StreamInv ==
    /\ blocks \in Bodies
    /\ body \in Seq(Symbols) /\ buffer \in Seq(Symbols) /\ yielded \in Seq(Symbols)
    /\ step \in EventNames
    /\ step = "reading" => Events!Boundaries = {}
    /\ IF step = "done" THEN yielded = Events!Sent
       ELSE \E lineEnd \in Events!LineEnds, missing \in 0 .. 2, k \in 1 .. Len(blocks) + 1 :
               StandsAt(lineEnd, missing, k)

-----------------------------------------------------------------------------
(* Functions that are defined from the last member down to the first.      *)

LEMMA LeastNatural ==
    ASSUME NEW T \in SUBSET Nat, T # {}
    PROVE  \E x \in T : \A y \in T : x <= y
<1> DEFINE R == {ss \in Nat \X Nat : ss[1] < ss[2]}
<1>1. IsWellFoundedOn(R, Nat)
    BY NatLessThanWellFounded DEF OpToRel
<1> HIDE DEF R
<1>2. PICK x \in T : \A y \in T : <<y, x>> \notin R
    BY <1>1, WFMin
<1>3. \A y \in T : ~(y < x)
    BY <1>2 DEF R
<1>4. \A y \in T : x <= y
    BY <1>3
<1> QED
    BY <1>4

\* A set that has a place whenever it has all the places after it has every place.
LEMMA Downward ==
    ASSUME NEW n \in Nat, NEW T, \A k \in 1 .. n + 1 : (k + 1 .. n + 1) \subseteq T => k \in T
    PROVE  1 .. n + 1 \subseteq T
<1> DEFINE Bad == {d \in 0 .. n : n + 1 - d \notin T}
<1>1. Bad = {}
  <2> SUFFICES ASSUME Bad # {} PROVE FALSE
    OBVIOUS
  <2>1. Bad \in SUBSET Nat
    OBVIOUS
  <2>2. PICK d \in Bad : \A y \in Bad : d <= y
    BY <2>1, LeastNatural
  <2>3. d \in 0 .. n /\ n + 1 - d \notin T /\ n + 1 - d \in 1 .. n + 1
    BY <2>2
  <2>4. ASSUME NEW j \in n + 1 - d + 1 .. n + 1 PROVE j \in T
    <3> DEFINE y == n + 1 - j
    <3>1. y \in 0 .. n /\ ~(d <= y) /\ n + 1 - y = j
      BY <2>3
    <3> HIDE DEF y
    <3> QED
      BY <2>2, <3>1
  <2> QED
    BY <2>3, <2>4
<1>2. ASSUME NEW k \in 1 .. n + 1 PROVE k \in T
  <2> DEFINE d == n + 1 - k
  <2>1. d \in 0 .. n /\ n + 1 - d = k
    OBVIOUS
  <2> HIDE DEF d
  <2> QED
    BY <1>1, <2>1
<1> QED
    BY <1>2

\* A set that has the first place, and the next one of each that it has, has every place.
LEMMA Upward ==
    ASSUME NEW n \in Nat, NEW T, 1 \in T, \A k \in 2 .. n : k - 1 \in T => k \in T
    PROVE  1 .. n \subseteq T
<1> DEFINE Bad == {k \in 1 .. n : k \notin T}
<1> SUFFICES ASSUME Bad # {} PROVE FALSE
    OBVIOUS
<1>1. Bad \in SUBSET Nat
    OBVIOUS
<1>2. PICK k \in Bad : \A y \in Bad : k <= y
    BY <1>1, LeastNatural
<1>3. k \in 2 .. n /\ k \notin T /\ k - 1 \in 1 .. n /\ ~(k <= k - 1)
    BY <1>2
<1>4. k - 1 \in T
    BY <1>2, <1>3
<1> QED
    BY <1>3, <1>4

\* Each value is made of that of a place after it, as the functions J and G say.
Leaps(n, S, base, J, G) ==
    \E f \in [1 .. n + 1 -> S] : f[n + 1] = base /\ \A k \in 1 .. n : f[k] = G[k][f[J[k]]]

LEMMA LeapFrom ==
    ASSUME NEW n \in Nat, NEW S, NEW base \in S, NEW G \in [1 .. n -> [S -> S]],
           NEW J, \A k \in 1 .. n : J[k] \in k + 1 .. n + 1
    PROVE  Leaps(n, S, base, J, G)
<1> DEFINE Solves(f, m) == f[n + 1] = base /\ \A k \in m .. n : f[k] = G[k][f[J[k]]]
           Solved(m) == \E f \in [m .. n + 1 -> S] : Solves(f, m)
           T == {m \in 1 .. n + 1 : Solved(m)}
<1>1. Solved(n + 1)
  <2> DEFINE f == [k \in n + 1 .. n + 1 |-> base]
  <2>1. f \in [n + 1 .. n + 1 -> S] /\ Solves(f, n + 1)
    OBVIOUS
  <2> QED
    BY <2>1
<1>2. ASSUME NEW m \in 1 .. n, Solved(m + 1) PROVE Solved(m)
  <2>1. PICK f \in [m + 1 .. n + 1 -> S] : Solves(f, m + 1)
    BY <1>2
  <2> DEFINE g == [k \in m .. n + 1 |-> IF k = m THEN G[m][f[J[m]]] ELSE f[k]]
  <2>2. J[m] \in m + 1 .. n + 1 /\ f[J[m]] \in S
    BY <2>1
  <2>3. G[m][f[J[m]]] \in S
    BY <2>2
  <2>4. g \in [m .. n + 1 -> S]
    BY <2>1, <2>3
  <2>5. g[n + 1] = base
    BY <2>1
  <2>6. ASSUME NEW k \in m .. n PROVE g[k] = G[k][g[J[k]]]
    <3>1. k \in 1 .. n /\ J[k] \in k + 1 .. n + 1
      OBVIOUS
    <3>2. J[k] \in m .. n + 1 /\ J[k] # m /\ k \in m .. n + 1
      BY <3>1
    <3>3. g[J[k]] = f[J[k]]
      BY <3>2
    <3>4. CASE k = m
      BY <3>2, <3>3, <3>4
    <3>5. CASE k # m
      <4>1. k \in m + 1 .. n
        BY <3>1, <3>5
      <4>2. f[k] = G[k][f[J[k]]] /\ g[k] = f[k]
        BY <2>1, <3>2, <3>5, <4>1
      <4> QED
        BY <3>3, <4>2
    <3> QED
      BY <3>4, <3>5
  <2> HIDE DEF g
  <2> QED
    BY <2>4, <2>5, <2>6
<1> HIDE DEF Solved
<1>3. ASSUME NEW k \in 1 .. n + 1, (k + 1 .. n + 1) \subseteq T PROVE k \in T
  <2>1. CASE k = n + 1
    BY <1>1, <2>1
  <2>2. CASE k # n + 1
    <3>1. k \in 1 .. n /\ k + 1 \in k + 1 .. n + 1
      BY <2>2
    <3> QED
      BY <1>2, <1>3, <3>1
  <2> QED
    BY <2>1, <2>2
<1> HIDE DEF T
<1>4. 1 .. n + 1 \subseteq T
    BY <1>3, Downward
<1>5. 1 \in T
    BY <1>4
<1> QED
    BY <1>5 DEF T, Solved, Leaps

\* Each value is made of the next one, as the function G says.
Descends(n, S, base, G) ==
    \E f \in [1 .. n + 1 -> S] : f[n + 1] = base /\ \A k \in 1 .. n : f[k] = G[k][f[k + 1]]

LEMMA DownFrom ==
    ASSUME NEW n \in Nat, NEW S, NEW base \in S, NEW G \in [1 .. n -> [S -> S]]
    PROVE  Descends(n, S, base, G)
<1> DEFINE J == [k \in 1 .. n |-> k + 1]
<1>1. \A k \in 1 .. n : J[k] \in k + 1 .. n + 1 /\ J[k] = k + 1
    OBVIOUS
<1> HIDE DEF J
<1>2. Leaps(n, S, base, J, G)
    BY <1>1, LeapFrom
<1>3. PICK f \in [1 .. n + 1 -> S] : f[n + 1] = base /\ \A k \in 1 .. n : f[k] = G[k][f[J[k]]]
    BY <1>2, Zenon DEF Leaps
<1>4. \A k \in 1 .. n : f[k] = G[k][f[k + 1]]
    BY <1>1, <1>3, Zenon
<1> QED
    BY <1>3, <1>4, Zenon DEF Descends

\* What holds of the last value, and of each one if it does of the next, holds of all.
LEMMA DownTo ==
    ASSUME NEW n \in Nat, NEW S, NEW f, f[n + 1] \in S, \A k \in 1 .. n : f[k + 1] \in S => f[k] \in S
    PROVE  \A k \in 1 .. n + 1 : f[k] \in S
<1> DEFINE T == {k \in 1 .. n + 1 : f[k] \in S}
<1>1. ASSUME NEW k \in 1 .. n + 1, (k + 1 .. n + 1) \subseteq T PROVE k \in T
  <2>1. CASE k = n + 1
    BY <2>1
  <2>2. CASE k # n + 1
    <3>1. k \in 1 .. n /\ k + 1 \in T
      BY <1>1, <2>2
    <3> QED
      BY <3>1
  <2> QED
    BY <2>1, <2>2
<1> HIDE DEF T
<1>2. 1 .. n + 1 \subseteq T
    BY <1>1, Downward
<1> QED
    BY <1>2 DEF T

-----------------------------------------------------------------------------
(* What the model sends.                                                   *)

Block == Seq(STRING \ {LF, CR}) \ {<<>>}

LEMMA Bodily ==
    ASSUME NEW sent \in Bodies
    PROVE  Len(sent) \in Nat /\ \A k \in 1 .. Len(sent) : sent[k] \in Block
<1>1. sent \in Seq(Block)
    BY ReadingAssumption DEF Events!EventsAssumption, Block, LF, CR, Events!LineFeed, Events!CarriageReturn
<1> QED
    BY <1>1

LEMMA InPairs == ASSUME NEW m \in Nat, NEW i \in 1 .. 2 * m PROVE \E j \in 1 .. m : i = 2 * j - 1 \/ i = 2 * j
<1> DEFINE j == ((i - 1) \div 2) + 1
<1>1. j \in 1 .. m /\ (i = 2 * j - 1 \/ i = 2 * j)
    OBVIOUS
<1> HIDE DEF j
<1> QED
    BY <1>1

LEMMA InTriples ==
    ASSUME NEW m \in Nat, NEW i \in 1 .. 3 * m
    PROVE  \E j \in 1 .. m : i = 3 * j - 2 \/ i = 3 * j - 1 \/ i = 3 * j
<1> DEFINE j == ((i - 1) \div 3) + 1
<1>1. j \in 1 .. m /\ (i = 3 * j - 2 \/ i = 3 * j - 1 \/ i = 3 * j)
    OBVIOUS
<1> HIDE DEF j
<1> QED
    BY <1>1

\* Where the lines of a block are, with either line end.
LEMMA LinesOfBlock ==
    ASSUME NEW b \in Block, NEW lineEnd \in Events!LineEnds, NEW x, x = Events!Lines(b, lineEnd)
    PROVE  /\ x \in Seq(Symbols) /\ Len(b) \in Nat \ {0} /\ \A j \in 1 .. Len(b) : b[j] \in STRING \ {LF, CR}
           /\ \/ /\ lineEnd = <<LF>> /\ Len(x) = 2 * Len(b)
                 /\ \A j \in 1 .. Len(b) : x[2 * j - 1] = b[j] /\ x[2 * j] = LF
              \/ /\ lineEnd = <<CR, LF>> /\ Len(x) = 3 * Len(b)
                 /\ \A j \in 1 .. Len(b) : x[3 * j - 2] = b[j] /\ x[3 * j - 1] = CR /\ x[3 * j] = LF
<1>1. Len(b) \in Nat \ {0} /\ \A j \in 1 .. Len(b) : b[j] \in STRING \ {LF, CR}
    BY DEF Block
<1>2. LF \in Symbols /\ CR \in Symbols /\ \A j \in 1 .. Len(b) : b[j] \in Symbols
    BY <1>1 DEF Symbols
<1>3. CASE lineEnd = <<LF>>
  <2>1. Len(lineEnd) = 1 /\ lineEnd[1] = LF
    BY <1>3
  <2>2. x = [i \in 1 .. 2 * Len(b) |-> IF (i - 1) % 2 = 0 THEN b[((i - 1) \div 2) + 1] ELSE lineEnd[(i - 1) % 2]]
    BY <2>1 DEF Events!Lines
  <2>3. ASSUME NEW j \in 1 .. Len(b) PROVE x[2 * j - 1] = b[j] /\ x[2 * j] = LF
    <3>1. /\ 2 * j - 1 \in 1 .. 2 * Len(b) /\ 2 * j \in 1 .. 2 * Len(b)
          /\ (2 * j - 1 - 1) % 2 = 0 /\ (2 * j - 1 - 1) \div 2 = j - 1 /\ (2 * j - 1) % 2 = 1
      BY <1>1
    <3> QED
      BY <2>1, <2>2, <3>1
  <2>4. ASSUME NEW i \in 1 .. 2 * Len(b) PROVE x[i] \in Symbols
    BY <1>1, <1>2, <2>3, InPairs
  <2>5. x \in Seq(Symbols) /\ Len(x) = 2 * Len(b)
    BY <1>1, <2>2, <2>4
  <2> QED
    BY <1>1, <1>3, <2>3, <2>5
<1>4. CASE lineEnd = <<CR, LF>>
  <2>1. Len(lineEnd) = 2 /\ lineEnd[1] = CR /\ lineEnd[2] = LF
    BY <1>4
  <2>2. x = [i \in 1 .. 3 * Len(b) |-> IF (i - 1) % 3 = 0 THEN b[((i - 1) \div 3) + 1] ELSE lineEnd[(i - 1) % 3]]
    BY <2>1 DEF Events!Lines
  <2>3. ASSUME NEW j \in 1 .. Len(b) PROVE x[3 * j - 2] = b[j] /\ x[3 * j - 1] = CR /\ x[3 * j] = LF
    <3>1. /\ 3 * j - 2 \in 1 .. 3 * Len(b) /\ 3 * j - 1 \in 1 .. 3 * Len(b) /\ 3 * j \in 1 .. 3 * Len(b)
          /\ (3 * j - 2 - 1) % 3 = 0 /\ (3 * j - 2 - 1) \div 3 = j - 1
          /\ (3 * j - 1 - 1) % 3 = 1 /\ (3 * j - 1) % 3 = 2
      BY <1>1
    <3> QED
      BY <2>1, <2>2, <3>1
  <2>4. ASSUME NEW i \in 1 .. 3 * Len(b) PROVE x[i] \in Symbols
    <3>1. PICK j \in 1 .. Len(b) : i = 3 * j - 2 \/ i = 3 * j - 1 \/ i = 3 * j
      BY <1>1, InTriples
    <3> QED
      BY <1>2, <2>3, <3>1
  <2>5. x \in Seq(Symbols) /\ Len(x) = 3 * Len(b)
    BY <1>1, <2>2, <2>4
  <2> QED
    BY <1>1, <1>4, <2>3, <2>5
<1> QED
    BY <1>3, <1>4 DEF Events!LineEnds, LF, CR

\* What is sent from a block on: the block, a line end, and what is sent from the next one on.
LEMMA WrittenFrom ==
    ASSUME NEW sent \in Bodies, NEW lineEnd \in Events!LineEnds, NEW missing \in 0 .. 2,
           NEW text, text = Events!Written(sent, lineEnd, missing)
    PROVE  /\ text \in [1 .. Len(sent) + 1 -> Seq(Symbols)]
           /\ text[Len(sent) + 1] = <<>>
           /\ \A k \in 1 .. Len(sent) :
                 LET block == Events!Lines(sent[k], lineEnd) \o lineEnd
                 IN  text[k] = IF k < Len(sent) THEN block \o text[k + 1]
                               ELSE SubSeq(block, 1, Len(block) - missing * Len(lineEnd))
<1> DEFINE n == Len(sent)
           block(k) == Events!Lines(sent[k], lineEnd) \o lineEnd
           cut(k) == SubSeq(block(k), 1, Len(block(k)) - missing * Len(lineEnd))
           S == Seq(Symbols)
           G == [k \in 1 .. n |-> [rest \in S |-> IF k < n THEN block(k) \o rest ELSE cut(k)]]
<1>1. n \in Nat /\ \A k \in 1 .. n : sent[k] \in Block
    BY Bodily
<1>2. lineEnd \in S /\ Len(lineEnd) \in {1, 2}
  <2>1. lineEnd = <<LF>> \/ lineEnd = <<CR, LF>>
    BY DEF Events!LineEnds, LF, CR
  <2>2. LF \in Symbols /\ CR \in Symbols
    BY DEF Symbols
  <2>3. CASE lineEnd = <<LF>>
    BY <2>2, <2>3
  <2>4. CASE lineEnd = <<CR, LF>>
    BY <2>2, <2>4
  <2> QED
    BY <2>1, <2>3, <2>4
<1>3. ASSUME NEW k \in 1 .. n PROVE block(k) \in S /\ Len(block(k)) \in Nat /\ cut(k) \in S
  <2>1. Events!Lines(sent[k], lineEnd) \in S /\ Len(Events!Lines(sent[k], lineEnd)) >= 2 * Len(lineEnd) - Len(lineEnd)
    BY <1>1, <1>2, LinesOfBlock
  <2>2. block(k) \in S /\ Len(block(k)) \in Nat
    BY <1>2, <2>1
  <2> HIDE DEF block
  <2>3. Len(block(k)) - missing * Len(lineEnd) <= Len(block(k)) /\ Len(block(k)) - missing * Len(lineEnd) \in Int
    BY <1>2, <2>2
  <2>4. \A i \in 1 .. Len(block(k)) - missing * Len(lineEnd) : block(k)[i] \in Symbols
    BY <2>2, <2>3
  <2> QED
    BY <2>2, <2>3, <2>4
<1> HIDE DEF block, cut
<1>4. G \in [1 .. n -> [S -> S]]
  <2>1. ASSUME NEW k \in 1 .. n, NEW rest \in S PROVE (IF k < n THEN block(k) \o rest ELSE cut(k)) \in S
    BY <1>3
  <2> QED
    BY <2>1
<1>5. PICK f \in [1 .. n + 1 -> S] : f[n + 1] = <<>> /\ \A k \in 1 .. n : f[k] = G[k][f[k + 1]]
  <2>1. <<>> \in S
    OBVIOUS
  <2> HIDE DEF G, n, S
  <2>2. Descends(n, S, <<>>, G)
    BY <1>1, <1>4, <2>1, DownFrom
  <2> QED
    BY <2>2, Zenon DEF Descends
<1> DEFINE Def(g) == [k \in 1 .. n + 1 |-> IF k > n THEN <<>> ELSE IF k < n THEN block(k) \o g[k + 1] ELSE cut(k)]
<1>6. f = Def(f)
  <2>1. ASSUME NEW k \in 1 .. n PROVE f[k] = IF k < n THEN block(k) \o f[k + 1] ELSE cut(k)
    <3>1. k + 1 \in 1 .. n + 1 /\ f[k + 1] \in S
      BY <1>1, <1>5
    <3> QED
      BY <1>5, <3>1
  <2>2. ASSUME NEW k \in 1 .. n + 1
        PROVE  f[k] = IF k > n THEN <<>> ELSE IF k < n THEN block(k) \o f[k + 1] ELSE cut(k)
    <3>1. CASE k > n
      BY <1>1, <1>5, <3>1
    <3>2. CASE ~(k > n)
      <4>1. k \in 1 .. n
        BY <1>1, <3>2
      <4> QED
        BY <2>1, <3>2, <4>1
    <3> QED
      BY <3>1, <3>2
  <2> QED
    BY <1>5, <2>2
<1>7. text = Def(text)
  <2>1. text = CHOOSE g : g = Def(g)
    BY Zenon DEF Events!Written, block, cut
  <2> HIDE DEF Def
  <2> QED
    BY <1>6, <2>1
<1>8. /\ DOMAIN text = 1 .. n + 1 /\ text[n + 1] = <<>>
      /\ \A k \in 1 .. n : text[k] = IF k < n THEN block(k) \o text[k + 1] ELSE cut(k)
  <2>1. \A k \in 1 .. n + 1 :
            text[k] = IF k > n THEN <<>> ELSE IF k < n THEN block(k) \o text[k + 1] ELSE cut(k)
    BY <1>7, Zenon
  <2>2. n + 1 \in 1 .. n + 1 /\ n + 1 > n /\ \A k \in 1 .. n : k \in 1 .. n + 1 /\ ~(k > n)
    BY <1>1
  <2>3. DOMAIN text = 1 .. n + 1
    BY <1>7, Zenon
  <2> HIDE DEF n
  <2> QED
    BY <2>1, <2>2, <2>3
<1>9. \A k \in 1 .. n + 1 : text[k] \in S
  <2>1. text[n + 1] \in S
    BY <1>8
  <2>2. ASSUME NEW k \in 1 .. n, text[k + 1] \in S PROVE text[k] \in S
    <3>1. block(k) \in S /\ cut(k) \in S
      BY <1>3
    <3>2. text[k] = block(k) \o text[k + 1] \/ text[k] = cut(k)
      BY <1>8
    <3>3. block(k) \o text[k + 1] \in S
      BY <2>2, <3>1, ConcatProperties, Zenon
    <3> QED
      BY <3>1, <3>2, <3>3, Zenon
  <2> HIDE DEF n
  <2> QED
    BY <1>1, <2>1, <2>2, DownTo
<1>10. text \in [1 .. n + 1 -> S]
  <2>1. text = [k \in 1 .. n + 1 |-> text[k]]
    BY <1>7, <1>8, Zenon
  <2> QED
    BY <1>9, <2>1
<1> QED
    BY <1>8, <1>10 DEF block, cut

-----------------------------------------------------------------------------
(* Blocks in the buffer.                                                   *)

\* What follows the first part of what is buffered or to come, once that part is taken.
LEMMA Cut ==
    ASSUME NEW S, NEW s \in Seq(S), NEW t \in Seq(S), NEW front \in Seq(S), NEW rest \in Seq(S),
           s \o t = front \o rest, Len(front) <= Len(s)
    PROVE  /\ SubSeq(s, Len(front) + 1, Len(s)) \in Seq(S)
           /\ SubSeq(s, Len(front) + 1, Len(s)) \o t = rest
<1> DEFINE r == SubSeq(s, Len(front) + 1, Len(s))
<1>1. Len(s) \in Nat /\ Len(t) \in Nat /\ Len(front) \in Nat /\ Len(rest) \in Nat
    OBVIOUS
<1>2. Len(s) + Len(t) = Len(front) + Len(rest)
  <2>1. Len(s \o t) = Len(s) + Len(t) /\ Len(front \o rest) = Len(front) + Len(rest)
    OBVIOUS
  <2> QED
    BY <2>1
<1>3. r \in Seq(S) /\ Len(r) = Len(s) - Len(front) /\ \A i \in 1 .. Len(r) : r[i] = s[Len(front) + i]
    BY <1>1
<1> HIDE DEF r
<1>4. r \o t \in Seq(S) /\ Len(r \o t) = Len(rest)
  <2>1. r \o t \in Seq(S) /\ Len(r \o t) = Len(r) + Len(t)
    BY <1>3, ConcatProperties, Zenon
  <2> QED
    BY <1>1, <1>2, <1>3, <2>1
<1>5. ASSUME NEW i \in 1 .. Len(rest) PROVE (r \o t)[i] = rest[i]
  <2>1. rest[i] = (front \o rest)[Len(front) + i]
    BY <1>1
  <2>2. rest[i] = (s \o t)[Len(front) + i]
    BY <2>1
  <2>3. CASE i <= Len(r)
    BY <1>1, <1>2, <1>3, <2>2, <2>3
  <2>4. CASE ~(i <= Len(r))
    <3>1. (r \o t)[i] = t[i - Len(r)]
      BY <1>1, <1>2, <1>3, <1>4, <2>4
    <3>2. Len(front) + i \in 1 .. Len(s) + Len(t) /\ ~(Len(front) + i <= Len(s))
      BY <1>1, <1>2, <1>3, <2>4
    <3>3. (s \o t)[Len(front) + i] = t[Len(front) + i - Len(s)]
      BY <1>1, <3>2, ConcatProperties
    <3>4. i - Len(r) = Len(front) + i - Len(s)
      BY <1>1, <1>3
    <3> QED
      BY <2>2, <3>1, <3>3, <3>4
  <2> QED
    BY <2>3, <2>4
<1>6. Len(r \o t) = Len(rest) /\ \A i \in 1 .. Len(rest) : (r \o t)[i] = rest[i]
    BY <1>4, <1>5
<1>7. r \o t = rest
  <2> DEFINE u == r \o t
  <2>1. u \in Seq(S) /\ Len(u) = Len(rest) /\ \A i \in 1 .. Len(rest) : u[i] = rest[i]
    BY <1>4, <1>6
  <2> HIDE DEF u
  <2>2. u = rest
    BY <2>1
  <2> QED
    BY <2>2 DEF u
<1> QED
    BY <1>3, <1>7 DEF r

LEMMA LineEndsAreNone ==
    /\ LF # CR
    /\ ~Events!IsData(LF) /\ ~Events!IsData(CR)
    /\ "end" \notin Tokens /\ "none" \notin Tokens
<1>1. {"\n", "\r", "end", "junk", "none"} \cap Tokens = {}
    BY ReadingAssumption DEF Events!EventsAssumption
<1>2. LF \notin Tokens /\ CR \notin Tokens /\ "end" \notin Tokens /\ "none" \notin Tokens
    BY <1>1 DEF LF, CR, Events!LineFeed, Events!CarriageReturn
<1>3. LF # CR /\ LF # "end" /\ LF # "junk" /\ CR # "end" /\ CR # "junk"
    BY DEF LF, CR, Events!LineFeed, Events!CarriageReturn
<1> QED
    BY <1>2, <1>3 DEF Events!IsData

LEMMA BoundaryIs ==
    ASSUME buffer \in Seq(Symbols), NEW i \in 1 .. Len(buffer)
    PROVE  \/ /\ Events!Boundary(i) = 2
              /\ i + 1 <= Len(buffer) /\ buffer[i] = LF /\ buffer[i + 1] = LF
           \/ /\ Events!Boundary(i) = 4
              /\ i + 3 <= Len(buffer)
              /\ buffer[i] = CR /\ buffer[i + 1] = LF /\ buffer[i + 2] = CR /\ buffer[i + 3] = LF
           \/ /\ Events!Boundary(i) = 0
              /\ ~(i + 1 <= Len(buffer) /\ buffer[i] = LF /\ buffer[i + 1] = LF)
              /\ ~(/\ i + 3 <= Len(buffer)
                   /\ buffer[i] = CR /\ buffer[i + 1] = LF /\ buffer[i + 2] = CR /\ buffer[i + 3] = LF)
<1> USE DEF LF, CR
<1>1. Len(buffer) \in Nat
    OBVIOUS
<1>2. ASSUME i < Len(buffer)
      PROVE  SubSeq(buffer, i, i + 1) = <<LF, LF>> <=> buffer[i] = LF /\ buffer[i + 1] = LF
  <2> DEFINE two == SubSeq(buffer, i, i + 1)
  <2>1. two \in Seq(Symbols) /\ Len(two) = 2 /\ two[1] = buffer[i] /\ two[2] = buffer[i + 1]
    BY <1>1, <1>2
  <2> HIDE DEF two, LF
  <2>2. two = <<LF, LF>> <=> two[1] = LF /\ two[2] = LF
    BY <2>1
  <2> QED
    BY <2>1, <2>2 DEF two
<1>3. ASSUME i + 2 < Len(buffer)
      PROVE  SubSeq(buffer, i, i + 3) = <<CR, LF, CR, LF>>
             <=> buffer[i] = CR /\ buffer[i + 1] = LF /\ buffer[i + 2] = CR /\ buffer[i + 3] = LF
  <2> DEFINE four == SubSeq(buffer, i, i + 3)
  <2>1. /\ four \in Seq(Symbols) /\ Len(four) = 4
        /\ four[1] = buffer[i] /\ four[2] = buffer[i + 1] /\ four[3] = buffer[i + 2] /\ four[4] = buffer[i + 3]
    BY <1>1, <1>3
  <2> HIDE DEF four, LF, CR
  <2>2. LF \in Symbols /\ CR \in Symbols
    BY DEF Symbols
  <2>3. ASSUME NEW s \in Seq(Symbols), NEW t \in Seq(Symbols), Len(s) = 4, Len(t) = 4,
               s[1] = t[1] /\ s[2] = t[2] /\ s[3] = t[3] /\ s[4] = t[4]
        PROVE  s = t
    <3>1. \A l \in 1 .. 4 : s[l] = t[l]
      BY <2>3
    <3> QED
      BY <2>3, <3>1
  <2> DEFINE ends == <<CR, LF, CR, LF>>
  <2>4. ends \in Seq(Symbols) /\ Len(ends) = 4 /\ ends[1] = CR /\ ends[2] = LF /\ ends[3] = CR /\ ends[4] = LF
    BY <2>2
  <2> HIDE DEF ends
  <2>5. four = ends <=> four[1] = CR /\ four[2] = LF /\ four[3] = CR /\ four[4] = LF
    BY <2>1, <2>3, <2>4
  <2> QED
    BY <2>1, <2>5 DEF four, ends
<1>4. (i < Len(buffer) <=> i + 1 <= Len(buffer)) /\ (i + 2 < Len(buffer) <=> i + 3 <= Len(buffer))
    BY <1>1
<1>5. LF # CR
    BY LineEndsAreNone
<1> DEFINE Two == SubSeq(buffer, i, i + 1) = <<LF, LF>>
           Four == SubSeq(buffer, i, i + 3) = <<CR, LF, CR, LF>>
<1>6. Events!Boundary(i) = IF i < Len(buffer) /\ Two THEN 2 ELSE IF i + 2 < Len(buffer) /\ Four THEN 4 ELSE 0
    BY DEF Events!Boundary
<1> HIDE DEF LF, CR, Two, Four
<1> QED
    BY <1>2, <1>3, <1>4, <1>5, <1>6 DEF Two, Four

\* The first of the boundaries is where one begins and none before it does.
LEMMA FirstAt ==
    ASSUME buffer \in Seq(Symbols), NEW q \in 1 .. Len(buffer), Events!Boundary(q) > 0,
           \A i \in 1 .. q - 1 : Events!Boundary(i) = 0
    PROVE  Events!Boundaries # {} /\ Events!Min(Events!Boundaries) = q
<1>1. q \in Events!Boundaries
    BY DEF Events!Boundaries
<1>2. \A i \in Events!Boundaries : q <= i /\ i \in Nat
  <2> SUFFICES ASSUME NEW i \in Events!Boundaries PROVE q <= i /\ i \in Nat
    OBVIOUS
  <2>1. i \in 1 .. Len(buffer) /\ Events!Boundary(i) > 0
    BY DEF Events!Boundaries
  <2>2. ~(i \in 1 .. q - 1)
    BY <2>1
  <2> QED
    BY <2>1, <2>2
<1>3. \A i \in Events!Boundaries : (\A j \in Events!Boundaries : i <= j) => i = q
    BY <1>1, <1>2
<1> QED
    BY <1>1, <1>2, <1>3 DEF Events!Min

\* Line ends before, between and after the lines of a block do not change what its data line is.
LEMMA DataLineIs ==
    ASSUME NEW b \in Block, NEW y \in Seq(Symbols), NEW at \in [1 .. Len(b) -> 1 .. Len(y)],
           \A j, l \in 1 .. Len(b) : j < l => at[j] < at[l],
           \A j \in 1 .. Len(b) : y[at[j]] = b[j],
           \A i \in 1 .. Len(y) : y[i] \in {LF, CR} \/ \E j \in 1 .. Len(b) : at[j] = i
    PROVE  Events!DataLine(y) = Events!DataLine(b)
<1> DEFINE D(s) == {i \in DOMAIN s : Events!IsData(s[i])}
<1>1. Len(b) \in Nat /\ Len(y) \in Nat /\ DOMAIN b = 1 .. Len(b) /\ DOMAIN y = 1 .. Len(y)
    BY DEF Block
<1>2. \A s : Events!DataLine(s) = IF D(s) = {} THEN "none" ELSE s[Events!Min(D(s))]
    BY Zenon DEF Events!DataLine
<1>3. \A j \in 1 .. Len(b) : j \in D(b) <=> at[j] \in D(y)
    BY <1>1
<1>4. \A i \in D(y) : \E j \in 1 .. Len(b) : at[j] = i
    BY <1>1, LineEndsAreNone
<1>5. D(b) \subseteq 1 .. Len(b) /\ D(y) \subseteq 1 .. Len(y)
    BY <1>1
<1> HIDE DEF D
<1>6. CASE D(b) = {}
    BY <1>2, <1>3, <1>4, <1>6
<1>7. CASE D(b) # {}
  <2>1. PICK j \in D(b) : \A l \in D(b) : j <= l
    BY <1>5, <1>7, LeastNatural
  <2>2. Events!Min(D(b)) = j
    <3>1. \A l \in D(b) : (\A i \in D(b) : l <= i) => l = j
      BY <1>5, <2>1
    <3> QED
      BY <2>1, <3>1 DEF Events!Min
  <2>3. at[j] \in D(y) /\ \A i \in D(y) : at[j] <= i
    <3>1. j \in 1 .. Len(b) /\ at[j] \in D(y)
      BY <1>3, <1>5, <2>1
    <3>2. ASSUME NEW i \in D(y) PROVE at[j] <= i
      <4>1. PICK l \in 1 .. Len(b) : at[l] = i
        BY <1>4
      <4>2. l \in D(b) /\ (j = l \/ j < l)
        BY <1>3, <1>5, <2>1, <4>1
      <4>3. at[j] = at[l] \/ at[j] < at[l]
        BY <3>1, <4>2
      <4> QED
        BY <3>1, <4>1, <4>3
    <3> QED
      BY <3>1, <3>2
  <2>4. Events!Min(D(y)) = at[j]
    <3>1. \A l \in D(y) : (\A i \in D(y) : l <= i) => l = at[j]
      BY <1>5, <2>3
    <3> QED
      BY <2>3, <3>1 DEF Events!Min
  <2>5. y[at[j]] = b[j]
    BY <1>5, <2>1
  <2> QED
    BY <1>2, <1>7, <2>2, <2>3, <2>4, <2>5
<1> QED
    BY <1>6, <1>7

\* A sequence begins as another does.
Begins(s, z) == Len(s) <= Len(z) /\ \A i \in 1 .. Len(s) : s[i] = z[i]

\* The lines of a block in pairs with a line feed, or each before two more symbols, which are
\* the two line ends but for the last line.
Paired(z, b) == \A j \in 1 .. Len(b) : z[2 * j - 1] = b[j] /\ z[2 * j] = LF

Tripled(z, b) ==
    /\ \A j \in 1 .. Len(b) : z[3 * j - 2] = b[j]
    /\ \A j \in 1 .. Len(b) - 1 : z[3 * j - 1] = CR /\ z[3 * j] = LF

\* The first boundary ends what block b reads.
FirstEnds(q, size, b) ==
    /\ Events!Boundaries # {}
    /\ Events!Min(Events!Boundaries) = q
    /\ Events!Boundary(q) = size
    /\ q + size - 1 <= Len(buffer)
    /\ Events!DataLine(SubSeq(buffer, 1, q - 1)) = Events!DataLine(b)

LEMMA SomeBoundary ==
    ASSUME Events!Boundaries # {}, buffer \in Seq(Symbols)
    PROVE  \E i \in 1 .. Len(buffer) : Events!Boundary(i) \in {2, 4}
<1>1. PICK i \in 1 .. Len(buffer) : Events!Boundary(i) > 0
    BY DEF Events!Boundaries
<1> QED
    BY <1>1, BoundaryIs

\* A block whose lines end in line feeds.
LEMMA EndOfPairs ==
    ASSUME buffer \in Seq(Symbols), NEW b \in Block, NEW m \in Nat, m = Len(b), NEW q \in Nat, q = 2 * m,
           NEW z \in Seq(Symbols), q + 1 <= Len(z), z[q + 1] = LF,
           Paired(z, b), Begins(buffer, z),
           Events!Boundaries # {} \/ q + 1 <= Len(buffer)
    PROVE  FirstEnds(q, 2, b)
<1>1. m \in Nat \ {0} /\ q \in Nat /\ Len(buffer) \in Nat /\ Len(z) \in Nat
    BY DEF Block
<1>2. \A j \in 1 .. m : z[2 * j - 1] = b[j] /\ z[2 * j] = LF /\ b[j] \notin {LF, CR}
    BY DEF Block, Paired
<1>3. Len(buffer) <= Len(z) /\ \A i \in 1 .. Len(buffer) : buffer[i] = z[i]
    BY DEF Begins
<1>4. ASSUME NEW i \in 1 .. Len(buffer), i < q PROVE Events!Boundary(i) = 0
  <2>1. i \in 1 .. 2 * m
    BY <1>1, <1>4
  <2>2. PICK j \in 1 .. m : i = 2 * j - 1 \/ i = 2 * j
    BY <1>1, <2>1, InPairs
  <2>3. CASE i = 2 * j - 1
    <3>1. buffer[i] \notin {LF, CR}
      BY <1>2, <1>3, <2>3
    <3> QED
      BY <3>1, BoundaryIs
  <2>4. CASE i = 2 * j
    <3>1. j + 1 \in 1 .. m /\ i + 1 = 2 * (j + 1) - 1
      BY <1>1, <1>4, <2>4
    <3>2. z[i + 1] = b[j + 1] /\ b[j + 1] # LF
      BY <1>2, <3>1
    <3>3. z[i] = LF /\ buffer[i] = LF
      BY <1>2, <1>3, <2>4
    <3>4. i + 1 <= Len(buffer) => buffer[i + 1] = z[i + 1]
      BY <1>1, <1>3
    <3> QED
      BY <3>2, <3>3, <3>4, BoundaryIs, LineEndsAreNone
  <2> QED
    BY <2>2, <2>3, <2>4
<1>5. q + 1 <= Len(buffer)
  <2> SUFFICES ASSUME Events!Boundaries # {} PROVE q + 1 <= Len(buffer)
    OBVIOUS
  <2>1. PICK i \in 1 .. Len(buffer) : Events!Boundary(i) \in {2, 4}
    BY SomeBoundary
  <2>2. i >= q
    <3>1. Events!Boundary(i) # 0
      BY <2>1
    <3>2. ~(i < q)
      BY <1>4, <3>1
    <3> QED
      BY <1>1, <3>2
  <2>3. i + 1 <= Len(buffer)
    BY <1>1, <2>1, BoundaryIs
  <2> QED
    BY <1>1, <2>2, <2>3
<1>6. q \in 1 .. Len(buffer) /\ q + 1 \in 1 .. Len(buffer)
    BY <1>1, <1>5
<1>7. Events!Boundary(q) = 2
  <2>1. z[q] = LF
    <3>1. m \in 1 .. m
      BY <1>1
    <3> QED
      BY <1>2, <3>1
  <2>2. buffer[q] = LF /\ buffer[q + 1] = LF
    BY <1>3, <1>6, <2>1
  <2> QED
    BY <1>5, <1>6, <2>2, BoundaryIs, LineEndsAreNone, Zenon
<1>8. Events!Boundaries # {} /\ Events!Min(Events!Boundaries) = q
  <2>1. \A i \in 1 .. q - 1 : Events!Boundary(i) = 0
    <3>1. \A i \in 1 .. q - 1 : i \in 1 .. Len(buffer) /\ i < q
      BY <1>1, <1>5
    <3> QED
      BY <1>4, <3>1
  <2>2. Events!Boundary(q) > 0
    BY <1>7
  <2> QED
    BY <1>6, <2>1, <2>2, FirstAt, Zenon
<1>9. Events!DataLine(SubSeq(buffer, 1, q - 1)) = Events!DataLine(b)
  <2> DEFINE y == SubSeq(buffer, 1, q - 1)
             at == [j \in 1 .. m |-> 2 * j - 1]
  <2>1. y \in Seq(Symbols) /\ Len(y) = q - 1 /\ \A i \in 1 .. q - 1 : y[i] = buffer[i]
    BY <1>1, <1>6
  <2> HIDE DEF y
  <2>2. \A i \in 1 .. q - 1 : y[i] = z[i]
    BY <1>1, <1>3, <1>6, <2>1
  <2>3. at \in [1 .. m -> 1 .. Len(y)] /\ \A j, l \in 1 .. m : j < l => at[j] < at[l]
    BY <1>1, <2>1
  <2>4. \A j \in 1 .. m : y[at[j]] = b[j]
    BY <1>1, <1>2, <2>2
  <2>5. ASSUME NEW i \in 1 .. Len(y) PROVE y[i] \in {LF, CR} \/ \E j \in 1 .. m : at[j] = i
    <3>1. i \in 1 .. 2 * m /\ i \in 1 .. q - 1
      BY <1>1, <2>1
    <3>2. PICK j \in 1 .. m : i = 2 * j - 1 \/ i = 2 * j
      BY <1>1, <3>1, InPairs
    <3>3. CASE i = 2 * j - 1
      BY <3>3
    <3>4. CASE i = 2 * j
      BY <1>2, <2>2, <3>1, <3>4
    <3> QED
      BY <3>2, <3>3, <3>4
  <2> HIDE DEF at
  <2>6. /\ at \in [1 .. Len(b) -> 1 .. Len(y)]
        /\ \A j, l \in 1 .. Len(b) : j < l => at[j] < at[l]
        /\ \A j \in 1 .. Len(b) : y[at[j]] = b[j]
        /\ \A i \in 1 .. Len(y) : y[i] \in {LF, CR} \/ \E j \in 1 .. Len(b) : at[j] = i
    BY <2>3, <2>4, <2>5
  <2>7. Events!DataLine(y) = Events!DataLine(b)
    BY <2>1, <2>6, DataLineIs, Zenon
  <2> QED
    BY <2>7 DEF y
<1> QED
    BY <1>1, <1>5, <1>7, <1>8, <1>9 DEF FirstEnds

\* How a block ends whose lines end in a carriage return and a line feed: with its own line
\* end, or with two line feeds after its last line, or in place of the end of that line.
Ending(z, q, size, m) ==
    \/ /\ q = 3 * m - 1 /\ size = 4
       /\ z[3 * m - 1] = CR /\ z[3 * m] = LF /\ z[3 * m + 1] = CR /\ z[3 * m + 2] = LF
    \/ /\ q = 3 * m /\ size = 2
       /\ z[3 * m - 1] = CR /\ z[3 * m] = LF /\ z[3 * m + 1] = LF
    \/ /\ q = 3 * m - 1 /\ size = 2
       /\ z[3 * m - 1] = LF /\ z[3 * m] = LF

LEMMA Tripling ==
    \A m, q \in Nat :
        /\ q = 3 * m - 1 => q + 1 = 3 * m /\ q + 2 = 3 * m + 1 /\ q + 3 = 3 * m + 2
        /\ q = 3 * m => q + 1 = 3 * m + 1
OBVIOUS

LEMMA EndOfTriples ==
    ASSUME buffer \in Seq(Symbols), NEW b \in Block, NEW m, m = Len(b),
           NEW z \in Seq(Symbols), NEW q, NEW size, Ending(z, q, size, m), q + size - 1 <= Len(z),
           Tripled(z, b), Begins(buffer, z),
           Events!Boundaries # {} \/ q + size - 1 <= Len(buffer)
    PROVE  FirstEnds(q, size, b)
<1>1. m \in Nat \ {0} /\ Len(buffer) \in Nat /\ Len(z) \in Nat
    BY DEF Block
<1>2. /\ \A j \in 1 .. m : z[3 * j - 2] = b[j] /\ b[j] \notin {LF, CR}
      /\ \A j \in 1 .. m - 1 : z[3 * j - 1] = CR /\ z[3 * j] = LF
    BY DEF Block, Tripled
<1>3. Len(buffer) <= Len(z) /\ \A i \in 1 .. Len(buffer) : buffer[i] = z[i]
    BY DEF Begins
<1>4. q \in Nat /\ size \in {2, 4} /\ 3 * m - 1 <= q /\ q <= 3 * m /\ (size = 4 => q = 3 * m - 1)
    BY <1>1 DEF Ending
<1>5. LF # CR
    BY LineEndsAreNone
<1>6. ASSUME NEW i \in 1 .. Len(buffer), i < q PROVE Events!Boundary(i) = 0
  <2>1. i \in 1 .. 3 * m
    BY <1>1, <1>4, <1>6
  <2>2. PICK j \in 1 .. m : i = 3 * j - 2 \/ i = 3 * j - 1 \/ i = 3 * j
    BY <1>1, <2>1, InTriples
  <2>3. CASE i = 3 * j - 2
    <3>1. buffer[i] \notin {LF, CR}
      BY <1>2, <1>3, <2>3
    <3> QED
      BY <3>1, BoundaryIs
  <2>4. CASE i = 3 * j - 1 /\ j < m
    <3>1. j + 1 \in 1 .. m /\ i + 2 = 3 * (j + 1) - 2 /\ j \in 1 .. m - 1
      BY <1>1, <2>4
    <3>2. z[i + 2] # CR /\ z[i] = CR
      BY <1>2, <2>4, <3>1
    <3>3. buffer[i] = CR /\ (i + 2 <= Len(buffer) => buffer[i + 2] # CR)
      BY <1>1, <1>3, <3>2
    <3>4. i + 3 <= Len(buffer) => i + 2 <= Len(buffer)
      BY <1>1
    <3> QED
      BY <1>5, <3>3, <3>4, BoundaryIs
  <2>5. CASE i = 3 * j - 1 /\ j = m
    <3>1. z[3 * m - 1] = CR /\ z[3 * m + 1] = LF
      BY <1>1, <1>4, <1>6, <2>5 DEF Ending
    <3>2. i + 2 = 3 * m + 1 /\ i = 3 * m - 1
      BY <1>1, <2>5
    <3>3. buffer[i] = CR
      BY <1>3, <3>1, <3>2
    <3>4. i + 2 <= Len(buffer) => buffer[i + 2] = LF
      BY <1>1, <1>3, <3>1, <3>2
    <3>5. i + 3 <= Len(buffer) => i + 2 <= Len(buffer)
      BY <1>1
    <3> QED
      BY <1>5, <3>3, <3>4, <3>5, BoundaryIs
  <2>6. CASE i = 3 * j
    <3>1. j + 1 \in 1 .. m /\ i + 1 = 3 * (j + 1) - 2 /\ j \in 1 .. m - 1
      BY <1>1, <1>4, <1>6, <2>6
    <3>2. z[i + 1] # LF /\ z[i] = LF
      BY <1>2, <2>6, <3>1
    <3>3. buffer[i] = LF /\ (i + 1 <= Len(buffer) => buffer[i + 1] # LF)
      BY <1>1, <1>3, <3>2
    <3> QED
      BY <1>5, <3>3, BoundaryIs
  <2>7. j < m \/ j = m
    BY <1>1
  <2> QED
    BY <2>2, <2>3, <2>4, <2>5, <2>6, <2>7
<1>7. q + size - 1 <= Len(buffer)
  <2> SUFFICES ASSUME Events!Boundaries # {} PROVE q + size - 1 <= Len(buffer)
    OBVIOUS
  <2>1. PICK i \in 1 .. Len(buffer) : Events!Boundary(i) \in {2, 4}
    BY SomeBoundary
  <2>2. i >= q
    <3>1. Events!Boundary(i) # 0
      BY <2>1
    <3>2. ~(i < q)
      BY <1>6, <3>1
    <3> QED
      BY <1>4, <3>2
  <2>3. i + 1 <= Len(buffer)
    BY <1>1, <2>1, BoundaryIs
  <2>4. CASE size = 2
    BY <1>1, <1>4, <2>2, <2>3, <2>4
  <2>5. CASE size = 4
    <3>1. q = 3 * m - 1 /\ z[q] = CR /\ z[q + 1] = LF /\ z[q + 2] = CR
      <4>1. q = 3 * m - 1 /\ q + 1 = 3 * m /\ q + 2 = 3 * m + 1
        BY <1>1, <1>4, <2>5
      <4> QED
        BY <2>5, <4>1 DEF Ending
    <3>2. CASE i = q \/ i = q + 2
      <4>1. buffer[i] = CR
        BY <1>3, <3>1, <3>2
      <4>2. i + 3 <= Len(buffer)
        BY <1>5, <2>1, <4>1, BoundaryIs
      <4> QED
        BY <1>1, <1>4, <2>2, <2>5, <4>2
    <3>3. CASE i = q + 1
      <4>1. i + 1 = q + 2 /\ (i + 1 <= Len(buffer) => i + 1 \in 1 .. Len(buffer))
        BY <1>1, <1>4, <3>3
      <4>2. buffer[i] = LF /\ (i + 1 <= Len(buffer) => buffer[i + 1] = CR)
        BY <1>3, <3>1, <3>3, <4>1
      <4> QED
        BY <1>5, <2>1, <4>2, BoundaryIs
    <3>4. CASE i >= q + 3
      BY <1>1, <1>4, <2>3, <2>5, <3>4
    <3> QED
      BY <1>4, <2>2, <3>2, <3>3, <3>4
  <2> QED
    BY <1>4, <2>4, <2>5
<1>8. q \in 1 .. Len(buffer) /\ q + 1 \in 1 .. Len(buffer)
    BY <1>1, <1>4, <1>7
<1>9. Events!Boundary(q) = size
  <2>1. CASE size = 4
    <3>1. z[q] = CR /\ z[q + 1] = LF /\ z[q + 2] = CR /\ z[q + 3] = LF
      <4>1. q = 3 * m - 1 /\ q + 1 = 3 * m /\ q + 2 = 3 * m + 1 /\ q + 3 = 3 * m + 2
        BY <1>1, <1>4, <2>1
      <4> QED
        BY <2>1, <4>1 DEF Ending
    <3>2. q + 2 \in 1 .. Len(buffer) /\ q + 3 \in 1 .. Len(buffer) /\ q + 3 <= Len(buffer)
      BY <1>1, <1>4, <1>7, <2>1
    <3>3. buffer[q] = CR /\ buffer[q + 1] = LF /\ buffer[q + 2] = CR /\ buffer[q + 3] = LF
      BY <1>3, <1>8, <3>1, <3>2
    <3> QED
      BY <1>5, <1>8, <2>1, <3>2, <3>3, BoundaryIs
  <2>2. CASE size = 2
    <3>1. z[q] = LF /\ z[q + 1] = LF
      <4>1. (q = 3 * m - 1 => q + 1 = 3 * m) /\ (q = 3 * m => q + 1 = 3 * m + 1)
        BY <1>1, <1>4, Tripling
      <4> QED
        BY <2>2, <4>1 DEF Ending
    <3>2. buffer[q] = LF /\ buffer[q + 1] = LF /\ q + 1 <= Len(buffer)
      BY <1>3, <1>8, <3>1
    <3> QED
      BY <1>5, <1>8, <2>2, <3>2, BoundaryIs, Zenon
  <2> QED
    BY <1>4, <2>1, <2>2
<1>10. Events!Boundaries # {} /\ Events!Min(Events!Boundaries) = q
  <2>1. \A i \in 1 .. q - 1 : Events!Boundary(i) = 0
    <3>1. \A i \in 1 .. q - 1 : i \in 1 .. Len(buffer) /\ i < q
      BY <1>1, <1>4, <1>8
    <3> QED
      BY <1>6, <3>1
  <2>2. Events!Boundary(q) > 0
    BY <1>4, <1>9
  <2> QED
    BY <1>8, <2>1, <2>2, FirstAt
<1>11. Events!DataLine(SubSeq(buffer, 1, q - 1)) = Events!DataLine(b)
  <2> DEFINE y == SubSeq(buffer, 1, q - 1)
             at == [j \in 1 .. m |-> 3 * j - 2]
  <2>1. y \in Seq(Symbols) /\ Len(y) = q - 1 /\ \A i \in 1 .. q - 1 : y[i] = buffer[i]
    BY <1>1, <1>4, <1>8
  <2> HIDE DEF y
  <2>2. \A i \in 1 .. q - 1 : y[i] = z[i]
    BY <1>1, <1>3, <1>4, <1>8, <2>1
  <2>3. at \in [1 .. m -> 1 .. Len(y)] /\ \A j, l \in 1 .. m : j < l => at[j] < at[l]
    BY <1>1, <1>4, <2>1
  <2>4. \A j \in 1 .. m : y[at[j]] = b[j]
    <3>1. \A j \in 1 .. m : 3 * j - 2 \in 1 .. q - 1
      BY <1>1, <1>4
    <3> QED
      BY <1>2, <2>2, <3>1
  <2>5. ASSUME NEW i \in 1 .. Len(y) PROVE y[i] \in {LF, CR} \/ \E j \in 1 .. m : at[j] = i
    <3>1. i \in 1 .. 3 * m /\ i \in 1 .. q - 1
      BY <1>1, <1>4, <2>1
    <3>2. PICK j \in 1 .. m : i = 3 * j - 2 \/ i = 3 * j - 1 \/ i = 3 * j
      BY <1>1, <3>1, InTriples
    <3>3. CASE i = 3 * j - 2
      BY <3>3
    <3>4. CASE i # 3 * j - 2 /\ j < m
      <4>1. j \in 1 .. m - 1
        BY <1>1, <3>4
      <4> QED
        BY <1>2, <2>2, <3>1, <3>2, <3>4, <4>1
    <3>5. CASE i # 3 * j - 2 /\ j = m
      <4>1. i = 3 * m - 1 \/ i = 3 * m
        BY <3>2, <3>5
      <4>2. i = 3 * m - 1 /\ q = 3 * m
        <5>1. i \in Int /\ q \in Int /\ i < q /\ q <= 3 * m
          BY <1>1, <1>4, <3>1
        <5>2. i = 3 * m - 1
          BY <4>1, <5>1
        <5> QED
          BY <1>1, <5>1, <5>2
      <4>3. z[3 * m - 1] = CR
        BY <1>1, <4>2 DEF Ending
      <4> QED
        BY <2>2, <3>1, <4>2, <4>3
    <3> QED
      BY <1>1, <3>3, <3>4, <3>5
  <2> HIDE DEF at
  <2>6. /\ at \in [1 .. Len(b) -> 1 .. Len(y)]
        /\ \A j, l \in 1 .. Len(b) : j < l => at[j] < at[l]
        /\ \A j \in 1 .. Len(b) : y[at[j]] = b[j]
        /\ \A i \in 1 .. Len(y) : y[i] \in {LF, CR} \/ \E j \in 1 .. Len(b) : at[j] = i
    BY <2>3, <2>4, <2>5
  <2>7. Events!DataLine(y) = Events!DataLine(b)
    BY <2>1, <2>6, DataLineIs, Zenon
  <2> QED
    BY <2>7 DEF y
<1> QED
    BY <1>7, <1>9, <1>10, <1>11 DEF FirstEnds

\* One sequence after another.
Joins(z, s, t) ==
    /\ Len(z) = Len(s) + Len(t)
    /\ \A i \in 1 .. Len(s) : z[i] = s[i]
    /\ \A i \in 1 .. Len(t) : z[Len(s) + i] = t[i]

LEMMA Joined ==
    ASSUME NEW S, NEW s \in Seq(S), NEW t \in Seq(S)
    PROVE  s \o t \in Seq(S) /\ Len(s) \in Nat /\ Len(t) \in Nat /\ Joins(s \o t, s, t)
<1>1. s \o t \in Seq(S) /\ Len(s) \in Nat /\ Len(t) \in Nat /\ Len(s \o t) = Len(s) + Len(t)
    OBVIOUS
<1>2. \A i \in 1 .. Len(s) : (s \o t)[i] = s[i]
    OBVIOUS
<1>3. \A i \in 1 .. Len(t) : (s \o t)[Len(s) + i] = t[i]
    OBVIOUS
<1> QED
    BY <1>1, <1>2, <1>3 DEF Joins

\* A block as it is sent, with its line end.
Sending(x, b, lineEnd) ==
    \/ /\ lineEnd = <<LF>> /\ Len(x) = 2 * Len(b) + 1
       /\ Paired(x, b) /\ x[2 * Len(b) + 1] = LF
    \/ /\ lineEnd = <<CR, LF>> /\ Len(x) = 3 * Len(b) + 2
       /\ Tripled(x, b) /\ Ending(x, 3 * Len(b) - 1, 4, Len(b))

LEMMA AsSent ==
    ASSUME NEW b \in Block, NEW lineEnd \in Events!LineEnds, NEW y, y = Events!Lines(b, lineEnd),
           NEW x, x = y \o lineEnd
    PROVE  x \in Seq(Symbols) /\ Len(b) \in Nat \ {0} /\ Sending(x, b, lineEnd)
<1>1. /\ y \in Seq(Symbols) /\ Len(b) \in Nat \ {0} /\ \A j \in 1 .. Len(b) : b[j] \in STRING \ {LF, CR}
      /\ \/ /\ lineEnd = <<LF>> /\ Len(y) = 2 * Len(b)
            /\ \A j \in 1 .. Len(b) : y[2 * j - 1] = b[j] /\ y[2 * j] = LF
         \/ /\ lineEnd = <<CR, LF>> /\ Len(y) = 3 * Len(b)
            /\ \A j \in 1 .. Len(b) : y[3 * j - 2] = b[j] /\ y[3 * j - 1] = CR /\ y[3 * j] = LF
    BY LinesOfBlock
<1>3. LF \in Symbols /\ CR \in Symbols
    BY DEF Symbols
<1> DEFINE m == Len(b)
<1>4. m \in Nat \ {0}
    BY <1>1
<1>5. CASE lineEnd = <<LF>> /\ Len(y) = 2 * m /\ \A j \in 1 .. m : y[2 * j - 1] = b[j] /\ y[2 * j] = LF
  <2> HIDE DEF m
  <2>1. lineEnd \in Seq(Symbols) /\ Len(lineEnd) = 1 /\ lineEnd[1] = LF
    BY <1>3, <1>5
  <2>2. x \in Seq(Symbols) /\ Joins(x, y, lineEnd)
    BY <1>1, <2>1, Joined, Zenon
  <2>3. Len(x) = 2 * m + 1 /\ \A i \in 1 .. 2 * m : x[i] = y[i]
    BY <1>4, <1>5, <2>1, <2>2 DEF Joins
  <2>4. x[2 * m + 1] = LF
    <3>1. Len(y) = 2 * m /\ 1 \in 1 .. Len(lineEnd)
      BY <1>5, <2>1
    <3> QED
      BY <2>1, <2>2, <3>1 DEF Joins
  <2>5. ASSUME NEW j \in 1 .. m PROVE x[2 * j - 1] = b[j] /\ x[2 * j] = LF
    <3>1. 2 * j - 1 \in 1 .. 2 * m /\ 2 * j \in 1 .. 2 * m
      BY <1>4
    <3> QED
      BY <1>5, <2>3, <3>1
  <2> QED
    BY <1>4, <1>5, <2>2, <2>3, <2>4, <2>5, Zenon DEF Sending, Paired, m
<1>6. CASE /\ lineEnd = <<CR, LF>> /\ Len(y) = 3 * m
           /\ \A j \in 1 .. m : y[3 * j - 2] = b[j] /\ y[3 * j - 1] = CR /\ y[3 * j] = LF
  <2> HIDE DEF m
  <2>1. lineEnd \in Seq(Symbols) /\ Len(lineEnd) = 2 /\ lineEnd[1] = CR /\ lineEnd[2] = LF
    BY <1>3, <1>6
  <2>2. x \in Seq(Symbols) /\ Joins(x, y, lineEnd)
    BY <1>1, <2>1, Joined, Zenon
  <2>3. Len(x) = 3 * m + 2 /\ \A i \in 1 .. 3 * m : x[i] = y[i]
    BY <1>4, <1>6, <2>1, <2>2 DEF Joins
  <2>4. x[3 * m + 1] = CR /\ x[3 * m + 2] = LF
    <3>1. Len(y) = 3 * m /\ 1 \in 1 .. Len(lineEnd) /\ 2 \in 1 .. Len(lineEnd)
      BY <1>6, <2>1
    <3> QED
      BY <2>1, <2>2, <3>1 DEF Joins
  <2>5. ASSUME NEW j \in 1 .. m PROVE x[3 * j - 2] = b[j] /\ x[3 * j - 1] = CR /\ x[3 * j] = LF
    <3>1. 3 * j - 2 \in 1 .. 3 * m /\ 3 * j - 1 \in 1 .. 3 * m /\ 3 * j \in 1 .. 3 * m
      BY <1>4
    <3> QED
      BY <1>6, <2>3, <3>1
  <2>6. Tripled(x, b)
    <3>1. \A j \in 1 .. m - 1 : j \in 1 .. m
      BY <1>4
    <3> QED
      BY <2>5, <3>1, Zenon DEF Tripled, m
  <2>7. Ending(x, 3 * m - 1, 4, m)
    <3>1. m \in 1 .. m
      BY <1>4
    <3> QED
      BY <2>4, <2>5, <3>1, Zenon DEF Ending
  <2> QED
    BY <1>4, <1>6, <2>2, <2>3, <2>6, <2>7, Zenon DEF Sending, m
<1> QED
    BY <1>1, <1>5, <1>6

\* The first block of the buffer is what block b reads, and ends, with its boundary, at n.
Holds(b, n) == \E q, size \in Nat : FirstEnds(q, size, b) /\ q + size - 1 = n

LEMMA WholeBlock ==
    ASSUME buffer \in Seq(Symbols), body \in Seq(Symbols),
           NEW b \in Block, NEW lineEnd \in Events!LineEnds, NEW x \in Seq(Symbols), Sending(x, b, lineEnd),
           NEW rest \in Seq(Symbols), buffer \o body = x \o rest,
           Events!Boundaries # {} \/ Len(x) <= Len(buffer)
    PROVE  Holds(b, Len(x)) /\ Len(x) <= Len(buffer)
<1> DEFINE z == x \o rest
           m == Len(b)
<1>1. m \in Nat \ {0}
    BY DEF Block
<1>2. z \in Seq(Symbols) /\ Joins(z, x, rest)
    BY Joined, Zenon
<1>3. Joins(z, buffer, body)
    BY Joined, Zenon
<1> HIDE DEF z
<1>4. Len(x) \in Nat /\ Len(rest) \in Nat /\ Len(buffer) \in Nat /\ Len(body) \in Nat
    OBVIOUS
<1>5. Len(x) <= Len(z) /\ \A i \in 1 .. Len(x) : z[i] = x[i]
    BY <1>2, <1>4 DEF Joins
<1>6. Begins(buffer, z)
  <2>1. Len(buffer) <= Len(z) /\ \A i \in 1 .. Len(buffer) : z[i] = buffer[i]
    BY <1>3, <1>4 DEF Joins
  <2> QED
    BY <2>1 DEF Begins
<1> HIDE DEF m
<1>7. CASE Len(x) = 2 * m + 1 /\ Paired(x, b) /\ x[2 * m + 1] = LF
  <2> DEFINE q == 2 * m
  <2>1. q \in Nat /\ q = 2 * m /\ Len(x) = q + 1
    BY <1>1, <1>7
  <2>2. q + 1 <= Len(z) /\ z[q + 1] = LF
    <3>1. q + 1 \in 1 .. Len(x) /\ x[q + 1] = LF
      BY <1>7, <2>1
    <3> QED
      BY <1>5, <2>1, <3>1
  <2>3. Paired(z, b)
    <3>1. \A j \in 1 .. m : 2 * j - 1 \in 1 .. Len(x) /\ 2 * j \in 1 .. Len(x)
      BY <1>1, <1>7
    <3> QED
      BY <1>5, <1>7, <3>1 DEF Paired, m
  <2> HIDE DEF q
  <2>4. FirstEnds(q, 2, b)
    BY <1>1, <1>2, <1>6, <2>1, <2>2, <2>3, EndOfPairs, Zenon DEF m
  <2>5. q + 2 - 1 = Len(x)
    BY <2>1
  <2>6. Len(x) <= Len(buffer)
    BY <2>4, <2>5 DEF FirstEnds
  <2>7. 2 \in Nat
    OBVIOUS
  <2> QED
    BY <2>1, <2>4, <2>5, <2>6, <2>7, Zenon DEF Holds
<1>8. CASE Len(x) = 3 * m + 2 /\ Tripled(x, b) /\ Ending(x, 3 * m - 1, 4, m)
  <2> DEFINE q == 3 * m - 1
  <2>1. q \in Nat /\ Len(x) = q + 4 - 1 /\ 4 \in Nat
    BY <1>1, <1>8
  <2>2. q + 4 - 1 <= Len(z)
    BY <1>5, <2>1
  <2>3. Tripled(z, b)
    <3>1. \A j \in 1 .. m : 3 * j - 2 \in 1 .. Len(x) /\ 3 * j - 1 \in 1 .. Len(x) /\ 3 * j \in 1 .. Len(x)
      BY <1>1, <1>8
    <3>2. \A j \in 1 .. m - 1 : j \in 1 .. m
      BY <1>1
    <3> QED
      BY <1>5, <1>8, <3>1, <3>2 DEF Tripled, m
  <2>4. Ending(z, q, 4, m)
    <3>1. 3 * m - 1 \in 1 .. Len(x) /\ 3 * m \in 1 .. Len(x) /\ 3 * m + 1 \in 1 .. Len(x) /\ 3 * m + 2 \in 1 .. Len(x)
      BY <1>1, <1>8
    <3>2. 3 * m - 1 # 3 * m /\ 4 # 2
      BY <1>1
    <3> QED
      BY <1>5, <1>8, <3>1, <3>2 DEF Ending
  <2> HIDE DEF q
  <2>5. FirstEnds(q, 4, b)
    <3>1. Events!Boundaries # {} \/ q + 4 - 1 <= Len(buffer)
      BY <2>1
    <3> QED
      BY <1>1, <1>2, <1>6, <2>1, <2>2, <2>3, <2>4, <3>1, EndOfTriples, Zenon DEF m
  <2>6. Len(x) <= Len(buffer)
    BY <2>1, <2>5 DEF FirstEnds
  <2> QED
    BY <2>1, <2>5, <2>6, Zenon DEF Holds
<1> QED
    BY <1>7, <1>8 DEF Sending, m

\* A sequence with two line feeds after it.
Ended(z, c) ==
    /\ Len(z) = Len(c) + 2
    /\ \A i \in 1 .. Len(c) : z[i] = c[i]
    /\ z[Len(c) + 1] = LF /\ z[Len(c) + 2] = LF

LEMMA TwoAfter ==
    ASSUME NEW c \in Seq(Symbols)
    PROVE  c \o <<LF, LF>> \in Seq(Symbols) /\ Ended(c \o <<LF, LF>>, c)
<1> DEFINE two == <<LF, LF>>
           z == c \o two
<1>1. two \in Seq(Symbols) /\ Len(two) = 2 /\ two[1] = LF /\ two[2] = LF
    BY DEF Symbols
<1> HIDE DEF two
<1>2. z \in Seq(Symbols) /\ Joins(z, c, two)
    BY <1>1, Joined, Zenon
<1> HIDE DEF z
<1>3. Ended(z, c)
    BY <1>1, <1>2 DEF Joins, Ended
<1> QED
    BY <1>2, <1>3 DEF z, two

LEMMA Beginning ==
    ASSUME NEW S, NEW s \in Seq(S), NEW n \in 0 .. Len(s)
    PROVE  SubSeq(s, 1, n) \in Seq(S) /\ Len(SubSeq(s, 1, n)) = n /\ Begins(SubSeq(s, 1, n), s)
<1>1. Len(s) \in Nat /\ \A i \in 1 .. n : s[i] \in S
    OBVIOUS
<1> DEFINE u == SubSeq(s, 1, n)
<1>2. u \in Seq(S) /\ Len(u) = n /\ \A i \in 1 .. n : u[i] = s[i]
    BY <1>1
<1> HIDE DEF u
<1>3. Begins(u, s)
    BY <1>1, <1>2 DEF Begins
<1> QED
    BY <1>2, <1>3 DEF u

\* What is left of a block that lacks some of its last line ends.
Lacks(c, x, missing, lineEnd) == Begins(c, x) /\ Len(c) = Len(x) - missing * Len(lineEnd)

\* A block that was broken off, and its end made good by two line feeds.
LEMMA BrokenOff ==
    ASSUME buffer \in Seq(Symbols), NEW b \in Block, NEW lineEnd \in Events!LineEnds,
           NEW x \in Seq(Symbols), Sending(x, b, lineEnd), NEW missing \in {1, 2},
           NEW c \in Seq(Symbols), Lacks(c, x, missing, lineEnd),
           NEW z \in Seq(Symbols), Ended(z, c), Begins(buffer, z), Events!Boundaries # {} \/ buffer = z
    PROVE  FirstEnds(Len(c) + missing - 1, 2, b)
<1> DEFINE m == Len(b)
<1>1. m \in Nat \ {0}
    BY DEF Block
<1>2. Len(c) \in Nat /\ Len(z) = Len(c) + 2
    BY DEF Ended
<1>3. /\ \A i \in 1 .. Len(c) : z[i] = x[i] /\ c[i] = x[i]
      /\ z[Len(c) + 1] = LF /\ z[Len(c) + 2] = LF
    BY DEF Begins, Ended, Lacks
<1> HIDE DEF m
<1>4. CASE lineEnd = <<LF>> /\ Len(x) = 2 * m + 1 /\ Paired(x, b) /\ x[2 * m + 1] = LF
  <2>1. Len(lineEnd) = 1
    BY <1>4
  <2>2. Len(c) = 2 * m + 1 - missing
    BY <1>1, <1>4, <2>1 DEF Lacks
  <2>3. \A j \in 1 .. m : x[2 * j - 1] = b[j] /\ x[2 * j] = LF
    BY <1>4 DEF Paired, m
  <2>4. ASSUME NEW j \in 1 .. m PROVE z[2 * j - 1] = b[j] /\ z[2 * j] = LF
    <3>1. 2 * j - 1 \in 1 .. Len(c)
      BY <1>1, <2>2
    <3>2. z[2 * j - 1] = b[j]
      BY <1>3, <2>3, <3>1
    <3>3. CASE 2 * j <= Len(c)
      <4>1. 2 * j \in 1 .. Len(c)
        BY <1>2, <3>3
      <4> QED
        BY <1>3, <2>3, <3>2, <4>1
    <3>4. CASE ~(2 * j <= Len(c))
      <4>1. 2 * j = Len(c) + 1
        BY <1>1, <2>2, <3>4
      <4> QED
        BY <1>3, <3>2, <4>1
    <3> QED
      BY <3>3, <3>4
  <2>5. Paired(z, b)
    BY <2>4, Zenon DEF Paired, m
  <2> DEFINE q == 2 * m
  <2>6. q \in Nat /\ q = 2 * m /\ q = Len(c) + missing - 1 /\ q + 1 <= Len(z)
    BY <1>1, <1>2, <2>2
  <2>7. z[q + 1] = LF
    <3>1. q + 1 = Len(c) + 1 \/ q + 1 = Len(c) + 2
      BY <1>1, <2>2
    <3> QED
      BY <1>3, <3>1
  <2>8. Events!Boundaries # {} \/ q + 1 <= Len(buffer)
    BY <2>6
  <2> HIDE DEF q
  <2>9. FirstEnds(q, 2, b)
    BY <1>1, <2>5, <2>6, <2>7, <2>8, EndOfPairs, Zenon DEF m
  <2> QED
    BY <2>6, <2>9, Zenon
<1>5. CASE lineEnd = <<CR, LF>> /\ Len(x) = 3 * m + 2 /\ Tripled(x, b) /\ Ending(x, 3 * m - 1, 4, m)
  <2>1. Len(lineEnd) = 2
    BY <1>5
  <2>2. Len(c) = 3 * m + 2 - 2 * missing
    BY <1>1, <1>5, <2>1 DEF Lacks
  <2>3. /\ \A j \in 1 .. m : x[3 * j - 2] = b[j]
        /\ \A j \in 1 .. m - 1 : x[3 * j - 1] = CR /\ x[3 * j] = LF
    BY <1>5 DEF Tripled, m
  <2>4. ASSUME NEW j \in 1 .. m
        PROVE  /\ 3 * j - 2 \in 1 .. Len(c)
               /\ j \in 1 .. m - 1 => 3 * j - 1 \in 1 .. Len(c) /\ 3 * j \in 1 .. Len(c)
    BY <1>1, <2>2
  <2>5. Tripled(z, b)
    <3>1. \A j \in 1 .. m - 1 : j \in 1 .. m
      BY <1>1
    <3>2. /\ \A j \in 1 .. m : z[3 * j - 2] = b[j]
          /\ \A j \in 1 .. m - 1 : z[3 * j - 1] = CR /\ z[3 * j] = LF
      BY <1>3, <2>3, <2>4, <3>1
    <3> QED
      BY <3>2, Zenon DEF Tripled, m
  <2> DEFINE q == Len(c) + missing - 1
  <2>6. q \in Nat /\ 2 \in Nat /\ q + 2 - 1 <= Len(z)
    BY <1>1, <1>2, <2>2
  <2>7. ASSUME missing = 1 PROVE Ending(z, q, 2, m)
    <3>1. q = 3 * m /\ 3 * m + 1 = Len(c) + 1 /\ 3 * m - 1 \in 1 .. Len(c) /\ 3 * m \in 1 .. Len(c)
      BY <1>1, <2>2, <2>7
    <3>2. x[3 * m - 1] = CR /\ x[3 * m] = LF
      BY <1>1, <1>5 DEF Ending
    <3> QED
      BY <1>3, <3>1, <3>2 DEF Ending
  <2>8. ASSUME missing = 2 PROVE Ending(z, q, 2, m)
    <3>1. q = 3 * m - 1 /\ 3 * m - 1 = Len(c) + 1 /\ 3 * m = Len(c) + 2
      BY <1>1, <2>2, <2>8
    <3> QED
      BY <1>3, <3>1 DEF Ending
  <2>9. Ending(z, q, 2, m)
    BY <2>7, <2>8
  <2>10. Events!Boundaries # {} \/ q + 2 - 1 <= Len(buffer)
    BY <2>6
  <2> HIDE DEF q
  <2>11. FirstEnds(q, 2, b)
    BY <1>1, <2>5, <2>6, <2>9, <2>10, EndOfTriples, Zenon DEF m
  <2> QED
    BY <2>11, Zenon DEF q
<1> QED
    BY <1>4, <1>5 DEF Sending, m

-----------------------------------------------------------------------------
(* The tokens that were sent.                                              *)

LEMMA DataLineIsALine ==
    ASSUME NEW b \in Block, Events!DataLine(b) \in Tokens
    PROVE  Events!DataLine(b) \in Symbols
<1> DEFINE D == {i \in DOMAIN b : Events!IsData(b[i])}
<1>1. Events!DataLine(b) = IF D = {} THEN "none" ELSE b[Events!Min(D)]
    BY Zenon DEF Events!DataLine
<1>2. Len(b) \in Nat /\ DOMAIN b = 1 .. Len(b) /\ \A i \in 1 .. Len(b) : b[i] \in Symbols
    BY DEF Block, Symbols
<1>3. D \subseteq 1 .. Len(b)
    BY <1>2
<1> HIDE DEF D
<1>4. D # {}
    BY <1>1, LineEndsAreNone
<1>5. PICK j \in D : \A l \in D : j <= l
    BY <1>3, <1>4, LeastNatural
<1>6. Events!Min(D) \in D
    BY <1>5 DEF Events!Min
<1> QED
    BY <1>1, <1>2, <1>3, <1>4, <1>6

\* What is still to be yielded from a block on, by its data line.
LEMMA SentFromIs ==
    ASSUME blocks \in Bodies
    PROVE  /\ \A k \in 1 .. Len(blocks) + 1 : Events!SentFrom[k] \in Seq(Symbols)
           /\ Events!SentFrom[Len(blocks) + 1] = <<>>
           /\ \A k \in 1 .. Len(blocks) :
                 LET line == Events!DataLine(blocks[k])
                 IN  Events!SentFrom[k] =
                        IF line = "end" THEN <<>>
                        ELSE IF line \in Tokens THEN <<line>> \o Events!SentFrom[k + 1]
                        ELSE Events!SentFrom[k + 1]
<1> DEFINE n == Len(blocks)
           line(k) == Events!DataLine(blocks[k])
           S == Seq(Symbols)
           Put(k, rest) == IF line(k) = "end" THEN <<>> ELSE IF line(k) \in Tokens THEN <<line(k)>> \o rest ELSE rest
           G == [k \in 1 .. n |-> [rest \in S |-> Put(k, rest)]]
           text == Events!SentFrom
<1>1. n \in Nat /\ \A k \in 1 .. n : blocks[k] \in Block
    BY Bodily
<1>2. \A k \in 1 .. n : line(k) \in Tokens => line(k) \in Symbols
    BY <1>1, DataLineIsALine
<1> HIDE DEF line
<1>3. ASSUME NEW k \in 1 .. n, NEW rest \in S PROVE Put(k, rest) \in S
  <2>1. line(k) \in Tokens => <<line(k)>> \in S
    BY <1>2
  <2>2. line(k) \in Tokens => <<line(k)>> \o rest \in S
    BY <2>1, ConcatProperties, Zenon
  <2>3. <<>> \in S
    OBVIOUS
  <2> QED
    BY <2>2, <2>3
<1> HIDE DEF Put
<1>4. G \in [1 .. n -> [S -> S]]
    BY <1>3
<1>5. PICK f \in [1 .. n + 1 -> S] : f[n + 1] = <<>> /\ \A k \in 1 .. n : f[k] = G[k][f[k + 1]]
  <2>1. <<>> \in S
    OBVIOUS
  <2> HIDE DEF G, n, S
  <2>2. Descends(n, S, <<>>, G)
    BY <1>1, <1>4, <2>1, DownFrom
  <2> QED
    BY <2>2, Zenon DEF Descends
<1> DEFINE Def(g) == [k \in 1 .. n + 1 |-> IF k > n \/ line(k) = "end" THEN <<>>
                                           ELSE IF line(k) \in Tokens THEN <<line(k)>> \o g[k + 1]
                                           ELSE g[k + 1]]
<1>6. f = Def(f)
  <2>1. ASSUME NEW k \in 1 .. n PROVE f[k] = Put(k, f[k + 1])
    <3>1. k + 1 \in 1 .. n + 1 /\ f[k + 1] \in S
      BY <1>1, <1>5
    <3> QED
      BY <1>5, <3>1
  <2>2. ASSUME NEW k \in 1 .. n + 1
        PROVE  f[k] = IF k > n \/ line(k) = "end" THEN <<>>
                      ELSE IF line(k) \in Tokens THEN <<line(k)>> \o f[k + 1] ELSE f[k + 1]
    <3>1. CASE k > n
      <4>1. k = n + 1
        BY <1>1, <3>1
      <4>2. f[k] = <<>>
        BY <1>5, <4>1
      <4> QED
        BY <3>1, <4>2, Zenon
    <3>2. CASE ~(k > n)
      <4>1. k \in 1 .. n
        BY <1>1, <3>2
      <4> QED
        BY <2>1, <3>2, <4>1, Zenon DEF Put
    <3> QED
      BY <3>1, <3>2
  <2> QED
    BY <1>5, <2>2
<1>7. text = Def(text)
  <2>1. text = CHOOSE g : g = Def(g)
    BY Zenon DEF Events!SentFrom, line
  <2> HIDE DEF Def, text
  <2> QED
    BY <1>6, <2>1
<1> HIDE DEF text
<1>8. /\ DOMAIN text = 1 .. n + 1 /\ text[n + 1] = <<>>
      /\ \A k \in 1 .. n : text[k] = Put(k, text[k + 1])
  <2>1. \A k \in 1 .. n + 1 :
            text[k] = IF k > n \/ line(k) = "end" THEN <<>>
                      ELSE IF line(k) \in Tokens THEN <<line(k)>> \o text[k + 1] ELSE text[k + 1]
    BY <1>7, Zenon
  <2>2. n + 1 \in 1 .. n + 1 /\ n + 1 > n /\ \A k \in 1 .. n : k \in 1 .. n + 1 /\ ~(k > n)
    BY <1>1
  <2>3. DOMAIN text = 1 .. n + 1
    BY <1>7, Zenon
  <2> HIDE DEF n
  <2> QED
    BY <2>1, <2>2, <2>3, Zenon DEF Put
<1>9. \A k \in 1 .. n + 1 : text[k] \in S
  <2>1. text[n + 1] \in S
    BY <1>8
  <2>2. ASSUME NEW k \in 1 .. n, text[k + 1] \in S PROVE text[k] \in S
    BY <1>3, <1>8, <2>2, Zenon
  <2> HIDE DEF n, S
  <2> QED
    BY <1>1, <2>1, <2>2, DownTo
<1> QED
    BY <1>8, <1>9, Zenon DEF text, Put, line, n

-----------------------------------------------------------------------------
(* The steps of a stream.                                                  *)

LEMMA LeavesSome ==
    ASSUME NEW b \in Block, NEW lineEnd \in Events!LineEnds, NEW x \in Seq(Symbols), Sending(x, b, lineEnd),
           NEW missing \in 0 .. 2
    PROVE  Len(x) - missing * Len(lineEnd) \in 0 .. Len(x)
<1> DEFINE m == Len(b)
<1>1. m \in Nat \ {0}
    BY DEF Block
<1>2. \/ lineEnd = <<LF>> /\ Len(x) = 2 * m + 1
      \/ lineEnd = <<CR, LF>> /\ Len(x) = 3 * m + 2
    BY Zenon DEF Sending
<1> HIDE DEF m
<1>3. CASE lineEnd = <<LF>> /\ Len(x) = 2 * m + 1
  <2>1. Len(lineEnd) = 1
    BY <1>3
  <2>2. missing * Len(lineEnd) = missing
    BY <2>1
  <2> QED
    BY <1>1, <1>3, <2>2
<1>4. CASE lineEnd = <<CR, LF>> /\ Len(x) = 3 * m + 2
  <2>1. Len(lineEnd) = 2
    BY <1>4
  <2>2. missing * Len(lineEnd) = 2 * missing
    BY <2>1
  <2> QED
    BY <1>1, <1>4, <2>2
<1> QED
    BY <1>2, <1>3, <1>4

\* What is sent from block k on: all of the block and what comes after it, or what there is of
\* the last block.
LEMMA TextAt ==
    ASSUME NEW sent \in Bodies, NEW lineEnd \in Events!LineEnds, NEW missing \in 0 .. 2,
           NEW k \in 1 .. Len(sent), NEW text, text = Events!Written(sent, lineEnd, missing),
           NEW x, x = Events!Lines(sent[k], lineEnd) \o lineEnd
    PROVE  /\ sent[k] \in Block /\ x \in Seq(Symbols) /\ Sending(x, sent[k], lineEnd)
           /\ text[k] \in Seq(Symbols) /\ text[k + 1] \in Seq(Symbols)
           /\ IF k < Len(sent) \/ missing = 0 THEN text[k] = x \o text[k + 1]
              ELSE Lacks(text[k], x, missing, lineEnd)
<1>1. Len(sent) \in Nat /\ sent[k] \in Block
    BY Bodily
<1>2. x \in Seq(Symbols) /\ Len(sent[k]) \in Nat \ {0} /\ Sending(x, sent[k], lineEnd)
    BY <1>1, AsSent, Zenon
<1>3. /\ text \in [1 .. Len(sent) + 1 -> Seq(Symbols)]
      /\ text[Len(sent) + 1] = <<>>
      /\ text[k] = IF k < Len(sent) THEN x \o text[k + 1] ELSE SubSeq(x, 1, Len(x) - missing * Len(lineEnd))
    BY WrittenFrom, Zenon
<1>4. k \in 1 .. Len(sent) + 1 /\ k + 1 \in 1 .. Len(sent) + 1
    BY <1>1
<1>5. text[k] \in Seq(Symbols) /\ text[k + 1] \in Seq(Symbols)
    BY <1>3, <1>4, Zenon
<1>6. CASE k < Len(sent)
    BY <1>1, <1>2, <1>3, <1>5, <1>6, Zenon
<1>7. CASE ~(k < Len(sent)) /\ missing = 0
  <2>1. k = Len(sent) /\ text[k + 1] = <<>>
    BY <1>1, <1>3, <1>7
  <2>2. text[k] = SubSeq(x, 1, Len(x))
    <3>1. missing * Len(lineEnd) = 0 /\ Len(x) - 0 = Len(x)
      <4>1. Len(lineEnd) \in {1, 2} /\ Len(x) \in Nat
        BY <1>2 DEF Events!LineEnds
      <4> QED
        BY <1>7, <4>1
    <3> QED
      BY <1>3, <1>7, <3>1
  <2>3. text[k] = x
    BY <1>2, <2>2, SubSeqFull, Zenon
  <2>4. x \o <<>> = x
    BY <1>2
  <2> QED
    BY <1>1, <1>2, <1>5, <1>7, <2>1, <2>3, <2>4, Zenon
<1>8. CASE ~(k < Len(sent)) /\ missing # 0
  <2> DEFINE n == Len(x) - missing * Len(lineEnd)
  <2>1. n \in 0 .. Len(x)
    BY <1>1, <1>2, LeavesSome, Zenon
  <2>2. text[k] = SubSeq(x, 1, n)
    BY <1>3, <1>8, Zenon
  <2>3. n = Len(x) - missing * Len(lineEnd)
    OBVIOUS
  <2> HIDE DEF n
  <2>4. Len(text[k]) = n /\ Begins(text[k], x)
    BY <1>2, <2>1, <2>2, Beginning, Zenon
  <2>5. Lacks(text[k], x, missing, lineEnd)
    BY <2>3, <2>4 DEF Lacks
  <2> QED
    BY <1>1, <1>2, <1>5, <1>8, <2>5, Zenon
<1> QED
    BY <1>6, <1>7, <1>8

LEMMA After ==
    ASSUME NEW S, NEW s \in Seq(S), NEW n \in Nat, n <= Len(s)
    PROVE  /\ SubSeq(s, n + 1, Len(s)) \in Seq(S) /\ Len(SubSeq(s, n + 1, Len(s))) = Len(s) - n
           /\ \A i \in 1 .. Len(s) - n : SubSeq(s, n + 1, Len(s))[i] = s[n + i]
<1>1. Len(s) \in Nat
    OBVIOUS
<1> QED
    BY <1>1

\* A read moves the first of what is to come to the end of what is buffered.
LEMMA Rejoined ==
    ASSUME NEW S, NEW s \in Seq(S), NEW t \in Seq(S), NEW n \in 1 .. Len(t)
    PROVE  /\ s \o SubSeq(t, 1, n) \in Seq(S) /\ SubSeq(t, n + 1, Len(t)) \in Seq(S)
           /\ (s \o SubSeq(t, 1, n)) \o SubSeq(t, n + 1, Len(t)) = s \o t
<1> DEFINE front == SubSeq(t, 1, n)
           back == SubSeq(t, n + 1, Len(t))
<1>1. Len(t) \in Nat /\ Len(s) \in Nat
    OBVIOUS
<1>2. front \in Seq(S) /\ Len(front) = n /\ \A i \in 1 .. n : front[i] = t[i]
    BY <1>1
<1>3. back \in Seq(S) /\ Len(back) = Len(t) - n /\ \A i \in 1 .. Len(t) - n : back[i] = t[n + i]
  <2>1. n \in Nat /\ n <= Len(t)
    BY <1>1
  <2> QED
    BY <2>1, After, Zenon
<1> HIDE DEF front, back
<1>4. front \o back = t
  <2> DEFINE u == front \o back
  <2>1. u \in Seq(S) /\ Joins(u, front, back)
    BY <1>2, <1>3, Joined, Zenon
  <2> HIDE DEF u
  <2>2. Len(u) = Len(t)
    BY <1>1, <1>2, <1>3, <2>1 DEF Joins
  <2>3. ASSUME NEW i \in 1 .. Len(t) PROVE u[i] = t[i]
    <3>1. CASE i <= n
      BY <1>1, <1>2, <2>1, <3>1 DEF Joins
    <3>2. CASE ~(i <= n)
      <4> DEFINE l == i - n
      <4>1. l \in 1 .. Len(back) /\ n + l = i
        BY <1>1, <1>3, <3>2
      <4> HIDE DEF l
      <4>2. u[Len(front) + l] = back[l] /\ back[l] = t[n + l]
        BY <1>3, <2>1, <4>1 DEF Joins
      <4> QED
        BY <1>2, <4>1, <4>2
    <3> QED
      BY <3>1, <3>2
  <2>4. u = t
    BY <2>1, <2>2, <2>3
  <2> QED
    BY <2>4 DEF u
<1>5. (s \o front) \o back = s \o (front \o back)
  <2>1. front \in Seq(S) /\ back \in Seq(S)
    BY <1>2, <1>3
  <2> QED
    BY <2>1, ConcatAssociative
<1>6. s \o front \in Seq(S)
    BY <1>2, ConcatProperties, Zenon
<1> QED
    BY <1>3, <1>4, <1>5, <1>6 DEF front, back

\* What was sent is what was sent.
LEMMA SentStays ==
    ASSUME blocks' = blocks
    PROVE  Events!SentFrom' = Events!SentFrom /\ Events!Sent' = Events!Sent
<1>1. Events!SentFrom' = Events!SentFrom
    BY DEF Events!SentFrom
<1> QED
    BY <1>1 DEF Events!Sent

\* A boundary takes two symbols.
LEMMA NoneInOne ==
    ASSUME buffer \in Seq(Symbols), Len(buffer) <= 1
    PROVE  Events!Boundaries = {}
<1> SUFFICES ASSUME Events!Boundaries # {} PROVE FALSE
    OBVIOUS
<1>1. PICK i \in 1 .. Len(buffer) : Events!Boundary(i) \in {2, 4}
    BY SomeBoundary
<1>2. Len(buffer) \in Nat
    OBVIOUS
<1>3. i + 1 <= Len(buffer)
    BY <1>1, <1>2, BoundaryIs
<1> QED
    BY <1>1, <1>2, <1>3

LEMMA StreamStart ==
    ASSUME Events!Init
    PROVE  StreamInv
<1>1. PICK lineEnd \in Events!LineEnds, missing \in 0 .. 2 : body = Events!Written(blocks, lineEnd, missing)[1]
    BY Zenon DEF Events!Init
<1>2. blocks \in Bodies /\ buffer = <<>> /\ yielded = <<>> /\ step = "reading"
    BY DEF Events!Init
<1>3. Len(blocks) \in Nat /\ 1 \in 1 .. Len(blocks) + 1
    BY <1>2, Bodily
<1>4. body \in Seq(Symbols)
  <2>1. Events!Written(blocks, lineEnd, missing) \in [1 .. Len(blocks) + 1 -> Seq(Symbols)]
    BY <1>2, WrittenFrom, Zenon
  <2> QED
    BY <1>1, <1>3, <2>1, Zenon
<1>5. Events!SentFrom[1] \in Seq(Symbols)
    BY <1>2, <1>3, SentFromIs, Zenon
<1>6. Events!Sent = yielded \o Events!SentFrom[1]
    BY <1>2, <1>5 DEF Events!Sent
<1>7. buffer \in Seq(Symbols) /\ yielded \in Seq(Symbols) /\ buffer \o body = body /\ Len(buffer) <= 1
    BY <1>2, <1>4
<1>8. StandsAt(lineEnd, missing, 1)
    BY <1>1, <1>2, <1>6, <1>7 DEF StandsAt
<1>9. Events!Boundaries = {}
    BY <1>7, NoneInOne
<1>10. step \in EventNames /\ step # "done"
    BY <1>2 DEF EventNames
<1> QED
    BY <1>2, <1>3, <1>4, <1>7, <1>8, <1>9, <1>10 DEF StreamInv

\* What there is of a block does not begin with a line end.
LEMMA NotBlank ==
    ASSUME NEW b \in Block, NEW lineEnd \in Events!LineEnds, NEW x \in Seq(Symbols), Sending(x, b, lineEnd),
           NEW missing \in {1, 2}, NEW c \in Seq(Symbols), Lacks(c, x, missing, lineEnd)
    PROVE  Len(c) \in Nat \ {0} /\ c[1] \notin {LF, CR}
<1> DEFINE m == Len(b)
<1>1. m \in Nat \ {0} /\ 1 \in 1 .. m /\ b[1] \notin {LF, CR}
    BY DEF Block
<1> HIDE DEF m
<1>2. x[1] = b[1] /\ (\/ lineEnd = <<LF>> /\ Len(x) = 2 * m + 1
                      \/ lineEnd = <<CR, LF>> /\ Len(x) = 3 * m + 2)
  <2>1. CASE lineEnd = <<LF>> /\ Len(x) = 2 * m + 1 /\ Paired(x, b)
    <3>1. x[2 * 1 - 1] = b[1]
      BY <1>1, <2>1, Zenon DEF Paired, m
    <3>2. 2 * 1 - 1 = 1
      OBVIOUS
    <3> QED
      BY <2>1, <3>1, <3>2
  <2>2. CASE lineEnd = <<CR, LF>> /\ Len(x) = 3 * m + 2 /\ Tripled(x, b)
    <3>1. x[3 * 1 - 2] = b[1]
      BY <1>1, <2>2, Zenon DEF Tripled, m
    <3>2. 3 * 1 - 2 = 1
      OBVIOUS
    <3> QED
      BY <2>2, <3>1, <3>2
  <2> QED
    BY <2>1, <2>2, Zenon DEF Sending, m
<1>3. Len(c) \in Nat \ {0}
  <2>1. CASE lineEnd = <<LF>> /\ Len(x) = 2 * m + 1
    <3>1. Len(lineEnd) = 1
      BY <2>1
    <3>2. Len(c) = 2 * m + 1 - missing
      BY <1>1, <2>1, <3>1 DEF Lacks
    <3> QED
      BY <1>1, <3>2
  <2>2. CASE lineEnd = <<CR, LF>> /\ Len(x) = 3 * m + 2
    <3>1. Len(lineEnd) = 2
      BY <2>2
    <3>2. Len(c) = 3 * m + 2 - 2 * missing
      BY <1>1, <2>2, <3>1 DEF Lacks
    <3> QED
      BY <1>1, <3>2
  <2> QED
    BY <1>2, <2>1, <2>2
<1>4. c[1] = x[1]
  <2>1. 1 \in 1 .. Len(c)
    BY <1>3
  <2> QED
    BY <2>1, Zenon DEF Lacks, Begins
<1> QED
    BY <1>1, <1>2, <1>3, <1>4

\* Taking the first block, when it is what block k reads, leaves what comes after it.
LEMMA TakenBlock ==
    ASSUME StreamInv, Events!TakeBlock, NEW k \in 1 .. Len(blocks), NEW end \in Nat, Holds(blocks[k], end),
           Events!Sent = yielded \o Events!SentFrom[k]
    PROVE  /\ buffer' = SubSeq(buffer, end + 1, Len(buffer)) /\ end <= Len(buffer)
           /\ yielded' \in Seq(Symbols)
           /\ \/ step' = "done" /\ yielded' = Events!Sent
              \/ step' = step /\ Events!Sent = yielded' \o Events!SentFrom[k + 1]
<1> DEFINE line == Events!DataLine(blocks[k])
<1>1. PICK q, size \in Nat : FirstEnds(q, size, blocks[k]) /\ q + size - 1 = end
    BY Zenon DEF Holds
<1>2. /\ Events!Min(Events!Boundaries) = q /\ Events!Boundary(q) = size
      /\ Events!DataLine(SubSeq(buffer, 1, q - 1)) = line
      /\ end <= Len(buffer)
    BY <1>1 DEF FirstEnds
<1>3. blocks \in Bodies /\ yielded \in Seq(Symbols)
    BY DEF StreamInv
<1>4. Len(blocks) \in Nat /\ blocks[k] \in Block /\ k + 1 \in 1 .. Len(blocks) + 1
    BY <1>3, Bodily
<1>5. line \in Tokens => line \in Symbols
    BY <1>4, DataLineIsALine
<1>6. /\ Events!SentFrom[k + 1] \in Seq(Symbols)
      /\ Events!SentFrom[k] = IF line = "end" THEN <<>>
                              ELSE IF line \in Tokens THEN <<line>> \o Events!SentFrom[k + 1]
                              ELSE Events!SentFrom[k + 1]
    BY <1>3, <1>4, SentFromIs, Zenon
<1>7. /\ buffer' = SubSeq(buffer, q + size, Len(buffer))
      /\ yielded' = IF line \in Tokens THEN Append(yielded, line) ELSE yielded
      /\ step' = IF line = "end" THEN "done" ELSE step
    BY <1>2, Zenon DEF Events!TakeBlock
<1> HIDE DEF line
<1>8. q + size = end + 1
    BY <1>1
<1>9. CASE line = "end"
  <2>1. line \notin Tokens
    BY <1>9, LineEndsAreNone
  <2>2. Events!Sent = yielded
    BY <1>3, <1>6, <1>9
  <2> QED
    BY <1>2, <1>3, <1>7, <1>8, <1>9, <2>1, <2>2
<1>10. CASE line # "end" /\ line \in Tokens
  <2> DEFINE rest == Events!SentFrom[k + 1]
  <2>1. yielded' = Append(yielded, line) /\ Events!Sent = yielded \o (<<line>> \o rest) /\ rest \in Seq(Symbols)
    BY <1>6, <1>7, <1>10, Zenon
  <2> HIDE DEF rest
  <2>2. <<line>> \in Seq(Symbols) /\ Append(yielded, line) = yielded \o <<line>> /\ Append(yielded, line) \in Seq(Symbols)
    BY <1>3, <1>5, <1>10
  <2>3. yielded \o (<<line>> \o rest) = (yielded \o <<line>>) \o rest
    <3> DEFINE one == <<line>>
    <3>1. one \in Seq(Symbols) /\ rest \in Seq(Symbols) /\ yielded \in Seq(Symbols)
      BY <1>3, <2>1, <2>2
    <3> HIDE DEF one
    <3>2. yielded \o (one \o rest) = (yielded \o one) \o rest
      BY <3>1, ConcatAssociative
    <3> QED
      BY <3>2 DEF one
  <2>4. Events!Sent = yielded' \o rest
    BY <2>1, <2>2, <2>3, Zenon
  <2> QED
    BY <1>2, <1>7, <1>8, <1>10, <2>1, <2>2, <2>4 DEF rest
<1>11. CASE line # "end" /\ line \notin Tokens
    BY <1>2, <1>3, <1>6, <1>7, <1>8, <1>11
<1> QED
    BY <1>9, <1>10, <1>11

LEMMA JustOne ==
    ASSUME NEW S, NEW s \in Seq(S), NEW i \in 1 .. Len(s)
    PROVE  SubSeq(s, i, i) = <<s[i]>>
<1>1. Len(s) \in Nat /\ s[i] \in S
    OBVIOUS
<1> DEFINE u == SubSeq(s, i, i)
<1>2. u \in Seq(S) /\ Len(u) = 1 /\ u[1] = s[i]
    BY <1>1
<1> HIDE DEF u
<1>3. u = <<s[i]>>
    BY <1>1, <1>2
<1> QED
    BY <1>3 DEF u

LEMMA TakeBlockKeeps ==
    ASSUME StreamInv, Events!TakeBlock
    PROVE  StreamInv'
<1>1. /\ blocks' = blocks /\ body' = body /\ Events!Boundaries # {} /\ step \in {"taking", "flushing"}
    BY DEF Events!TakeBlock
<1>2. blocks \in Bodies /\ body \in Seq(Symbols) /\ buffer \in Seq(Symbols)
    BY DEF StreamInv
<1>3. PICK lineEnd \in Events!LineEnds, missing \in 0 .. 2, k \in 1 .. Len(blocks) + 1 : StandsAt(lineEnd, missing, k)
    BY <1>1, Zenon DEF StreamInv
<1> DEFINE text == Events!Written(blocks, lineEnd, missing)
<1>4. Len(blocks) \in Nat /\ text[Len(blocks) + 1] = <<>>
    BY <1>2, Bodily, WrittenFrom
<1>5. /\ Events!Sent = yielded \o Events!SentFrom[k]
      /\ step = "flushing" =>
            /\ body = <<>>
            /\ IF k > Len(blocks) THEN buffer \in {<<>>, <<LF>>}
               ELSE k = Len(blocks) /\ missing > 0 /\ buffer = text[k] \o <<LF, LF>>
      /\ step # "flushing" => buffer \o body = text[k]
    BY <1>3 DEF StandsAt
<1> HIDE DEF text
<1>6. k <= Len(blocks)
  <2> SUFFICES ASSUME ~(k <= Len(blocks)) PROVE Len(buffer) <= 1
    BY <1>1, <1>2, NoneInOne
  <2>1. k = Len(blocks) + 1 /\ k > Len(blocks)
    BY <1>4
  <2>2. CASE step = "flushing"
    <3>1. buffer \in {<<>>, <<LF>>}
      BY <1>5, <2>1, <2>2, Zenon
    <3>2. CASE buffer = <<>>
      BY <3>2
    <3>3. CASE buffer = <<LF>>
      BY <3>3
    <3> QED
      BY <3>1, <3>2, <3>3
  <2>3. CASE step # "flushing"
    <3>1. buffer \o body = <<>>
      BY <1>4, <1>5, <2>1, <2>3
    <3>2. buffer = <<>>
      BY <1>2, <3>1
    <3> QED
      BY <3>2
  <2> QED
    BY <2>2, <2>3
<1>7. k \in 1 .. Len(blocks) /\ k + 1 \in 1 .. Len(blocks) + 1
    BY <1>4, <1>6
<1> DEFINE b == blocks[k]
           x == Events!Lines(b, lineEnd) \o lineEnd
<1>8. /\ b \in Block /\ x \in Seq(Symbols) /\ Sending(x, b, lineEnd)
      /\ text[k] \in Seq(Symbols) /\ text[k + 1] \in Seq(Symbols)
      /\ IF k < Len(blocks) \/ missing = 0 THEN text[k] = x \o text[k + 1]
         ELSE Lacks(text[k], x, missing, lineEnd)
    BY <1>2, <1>7, TextAt, Zenon DEF text
<1> HIDE DEF x
<1>9. ASSUME NEW end \in Nat, Holds(b, end),
             buffer' = SubSeq(buffer, end + 1, Len(buffer)) =>
                 /\ buffer' \in Seq(Symbols)
                 /\ IF step = "flushing" THEN body = <<>> /\ k + 1 > Len(blocks) /\ buffer' \in {<<>>, <<LF>>}
                    ELSE buffer' \o body = text[k + 1]
      PROVE  StreamInv'
  <2>1. /\ buffer' = SubSeq(buffer, end + 1, Len(buffer))
        /\ yielded' \in Seq(Symbols)
        /\ \/ step' = "done" /\ yielded' = Events!Sent
           \/ step' = step /\ Events!Sent = yielded' \o Events!SentFrom[k + 1]
    BY <1>5, <1>7, <1>9, TakenBlock, Zenon
  <2>2. Events!Sent' = Events!Sent /\ Events!SentFrom' = Events!SentFrom
    BY <1>1, SentStays
  <2>3. /\ blocks' \in Bodies /\ body' \in Seq(Symbols) /\ buffer' \in Seq(Symbols) /\ yielded' \in Seq(Symbols)
        /\ step' \in EventNames /\ step' # "reading"
    BY <1>1, <1>2, <1>9, <2>1 DEF EventNames
  <2>4. CASE step' = "done" /\ yielded' = Events!Sent
    BY <2>2, <2>3, <2>4, Zenon DEF StreamInv
  <2>5. CASE step' = step /\ Events!Sent = yielded' \o Events!SentFrom[k + 1]
    <3>1. StandsAt(lineEnd, missing, k + 1)'
      <4>1. CASE step = "flushing"
        BY <1>1, <1>9, <2>1, <2>2, <2>5, <4>1, Zenon DEF StandsAt
      <4>2. CASE step # "flushing"
        BY <1>1, <1>9, <2>1, <2>2, <2>5, <4>2, Zenon DEF StandsAt, text
      <4> QED
        BY <4>1, <4>2
    <3>2. step' # "done"
      BY <1>1, <2>5
    <3>3. k + 1 \in 1 .. Len(blocks') + 1
      BY <1>1, <1>7
    <3> QED
      BY <2>3, <3>1, <3>2, <3>3, Zenon DEF StreamInv
  <2> QED
    BY <2>1, <2>4, <2>5
<1>10. CASE step # "flushing" /\ (k < Len(blocks) \/ missing = 0)
  <2>1. buffer \o body = x \o text[k + 1]
    BY <1>5, <1>8, <1>10, Zenon
  <2>2. Holds(b, Len(x)) /\ Len(x) <= Len(buffer)
    BY <1>1, <1>2, <1>8, <2>1, WholeBlock, Zenon
  <2>3. Len(x) \in Nat
    BY <1>8
  <2>4. /\ SubSeq(buffer, Len(x) + 1, Len(buffer)) \in Seq(Symbols)
        /\ SubSeq(buffer, Len(x) + 1, Len(buffer)) \o body = text[k + 1]
    <3> DEFINE rest == text[k + 1]
    <3>1. x \in Seq(Symbols) /\ rest \in Seq(Symbols) /\ buffer \o body = x \o rest
      BY <1>8, <2>1, Zenon
    <3> HIDE DEF rest
    <3> QED
      BY <1>2, <2>2, <3>1, Cut, Zenon DEF rest
  <2> QED
    BY <1>9, <1>10, <2>2, <2>3, <2>4, Zenon
<1>11. ASSUME ~(k < Len(blocks) \/ missing = 0)
       PROVE  k = Len(blocks) /\ missing \in {1, 2} /\ Lacks(text[k], x, missing, lineEnd)
              /\ text[k] \o <<LF, LF>> \in Seq(Symbols) /\ Ended(text[k] \o <<LF, LF>>, text[k])
  <2>1. k = Len(blocks) /\ missing \in {1, 2}
    BY <1>4, <1>7, <1>11
  <2> QED
    BY <1>8, <1>11, <2>1, TwoAfter, Zenon
<1>12. CASE step # "flushing" /\ ~(k < Len(blocks) \/ missing = 0)
  <2> DEFINE c == text[k]
             z == c \o <<LF, LF>>
  <2>1. z \in Seq(Symbols) /\ Ended(z, c) /\ missing \in {1, 2} /\ Lacks(c, x, missing, lineEnd) /\ c \in Seq(Symbols)
    BY <1>8, <1>11, <1>12, Zenon
  <2> HIDE DEF c, z
  <2>2. Len(buffer) \in Nat /\ Len(body) \in Nat /\ Len(c) \in Nat
    BY <1>2, <2>1
  <2>3. Joins(c, buffer, body)
    BY <1>2, <1>5, <1>12, Joined, Zenon DEF c
  <2>4. Len(buffer) <= Len(c) /\ \A i \in 1 .. Len(buffer) : c[i] = buffer[i]
    BY <2>2, <2>3 DEF Joins
  <2>5. Begins(buffer, z)
    <3>1. Len(buffer) <= Len(z)
      BY <2>1, <2>2, <2>4 DEF Ended
    <3>2. \A i \in 1 .. Len(buffer) : i \in 1 .. Len(c)
      BY <2>2, <2>4
    <3>3. \A i \in 1 .. Len(buffer) : buffer[i] = z[i]
      BY <2>1, <2>4, <3>2, Zenon DEF Ended
    <3> QED
      BY <3>1, <3>3 DEF Begins
  <2>6. FirstEnds(Len(c) + missing - 1, 2, b)
    BY <1>1, <1>2, <1>8, <2>1, <2>5, BrokenOff, Zenon
  <2>7. Len(c) + missing - 1 + 2 - 1 <= Len(buffer)
    BY <2>6, Zenon DEF FirstEnds
  <2> QED
    BY <2>1, <2>2, <2>4, <2>7
<1>13. CASE step = "flushing"
  <2> DEFINE c == text[k]
  <2>1. body = <<>> /\ k = Len(blocks) /\ missing > 0 /\ buffer = c \o <<LF, LF>>
    <3>1. ~(k > Len(blocks))
      BY <1>4, <1>7
    <3> QED
      BY <1>5, <1>13, <3>1, Zenon
  <2>2. ~(k < Len(blocks) \/ missing = 0)
    BY <1>4, <2>1
  <2>3. Ended(buffer, c) /\ missing \in {1, 2} /\ Lacks(c, x, missing, lineEnd) /\ c \in Seq(Symbols)
    BY <1>8, <1>11, <2>1, <2>2, Zenon
  <2> HIDE DEF c
  <2>4. Begins(buffer, buffer)
    BY <1>2 DEF Begins
  <2>5. Len(c) \in Nat \ {0} /\ FirstEnds(Len(c) + missing - 1, 2, b)
    BY <1>1, <1>2, <1>8, <2>3, <2>4, NotBlank, BrokenOff, Zenon
  <2> DEFINE end == Len(c) + missing
  <2>6. end \in Nat /\ Len(c) + missing - 1 \in Nat /\ 2 \in Nat /\ Len(c) + missing - 1 + 2 - 1 = end
    BY <2>3, <2>5
  <2>7. Holds(b, end)
    BY <2>5, <2>6, Zenon DEF Holds
  <2>8. Len(buffer) = Len(c) + 2 /\ buffer[Len(c) + 2] = LF
    BY <2>3 DEF Ended
  <2>9. SubSeq(buffer, end + 1, Len(buffer)) \in {<<>>, <<LF>>}
    <3>1. CASE missing = 1
      <4>1. end + 1 = Len(c) + 2 /\ end + 1 = Len(buffer) /\ end + 1 \in 1 .. Len(buffer)
        BY <2>5, <2>8, <3>1
      <4> HIDE DEF end
      <4>2. SubSeq(buffer, end + 1, end + 1) = <<buffer[end + 1]>>
        BY <1>2, <4>1, JustOne, Zenon
      <4> QED
        BY <2>8, <4>1, <4>2
    <3>2. CASE missing = 2
      <4>1. end + 1 > Len(buffer) /\ end + 1 \in Int /\ Len(buffer) \in Int
        BY <2>5, <2>8, <3>2
      <4> HIDE DEF end
      <4>2. SubSeq(buffer, end + 1, Len(buffer)) = <<>>
        BY <4>1, SubSeqEmpty
      <4> QED
        BY <4>2
    <3> QED
      BY <2>3, <3>1, <3>2
  <2>10. <<>> \in Seq(Symbols) /\ <<LF>> \in Seq(Symbols)
    <3>1. LF \in Symbols
      BY DEF Symbols
    <3> QED
      BY <3>1
  <2>11. k + 1 > Len(blocks)
    BY <1>4, <2>1
  <2> HIDE DEF end
  <2> QED
    BY <1>9, <1>13, <2>1, <2>6, <2>7, <2>9, <2>10, <2>11, Zenon
<1> QED
    BY <1>10, <1>12, <1>13

\* Where a stream stands that is not through: before a block, or after the last one.
LEMMA Standing ==
    ASSUME StreamInv, NEW lineEnd \in Events!LineEnds, NEW missing \in 0 .. 2,
           NEW k \in 1 .. Len(blocks) + 1, StandsAt(lineEnd, missing, k), NEW text,
           text = Events!Written(blocks, lineEnd, missing)
    PROVE  /\ Len(blocks) \in Nat
           /\ Events!Sent = yielded \o Events!SentFrom[k]
           /\ k > Len(blocks) => Events!Sent = yielded /\ text[k] = <<>>
           /\ step # "flushing" => buffer \o body = text[k]
           /\ step = "flushing" /\ ~(k > Len(blocks)) =>
                 body = <<>> /\ k = Len(blocks) /\ missing > 0 /\ buffer = text[k] \o <<LF, LF>>
<1>1. blocks \in Bodies /\ yielded \in Seq(Symbols)
    BY DEF StreamInv
<1>2. Len(blocks) \in Nat /\ text[Len(blocks) + 1] = <<>>
    BY <1>1, Bodily, WrittenFrom
<1>3. Events!SentFrom[Len(blocks) + 1] = <<>>
    BY <1>1, SentFromIs
<1>4. /\ Events!Sent = yielded \o Events!SentFrom[k]
      /\ step # "flushing" => buffer \o body = text[k]
      /\ step = "flushing" /\ ~(k > Len(blocks)) =>
            body = <<>> /\ k = Len(blocks) /\ missing > 0 /\ buffer = text[k] \o <<LF, LF>>
    BY Zenon DEF StandsAt
<1>5. ASSUME k > Len(blocks) PROVE Events!Sent = yielded /\ text[k] = <<>>
  <2>1. k = Len(blocks) + 1
    BY <1>2, <1>5
  <2>2. Events!Sent = yielded \o <<>>
    BY <1>3, <1>4, <2>1, Zenon
  <2> QED
    BY <1>1, <1>2, <2>1, <2>2
<1> QED
    BY <1>2, <1>4, <1>5, Zenon

\* A stream that has nothing more to come and no boundary buffered has no whole block left.
LEMMA OnlyBroken ==
    ASSUME StreamInv, body = <<>>, Events!Boundaries = {}, step # "done",
           NEW lineEnd \in Events!LineEnds, NEW missing \in 0 .. 2,
           NEW k \in 1 .. Len(blocks), StandsAt(lineEnd, missing, k), NEW text,
           text = Events!Written(blocks, lineEnd, missing)
    PROVE  /\ step # "flushing" /\ k = Len(blocks) /\ missing > 0 /\ buffer = text[k]
           /\ Len(buffer) \in Nat \ {0} /\ buffer[1] \notin {LF, CR}
<1> DEFINE b == blocks[k]
           x == Events!Lines(b, lineEnd) \o lineEnd
           t == Events!Written(blocks, lineEnd, missing)
<1>1. blocks \in Bodies /\ buffer \in Seq(Symbols) /\ body \in Seq(Symbols)
    BY DEF StreamInv
<1>2. /\ b \in Block /\ x \in Seq(Symbols) /\ Sending(x, b, lineEnd)
      /\ t[k] \in Seq(Symbols) /\ t[k + 1] \in Seq(Symbols)
      /\ IF k < Len(blocks) \/ missing = 0 THEN t[k] = x \o t[k + 1]
         ELSE Lacks(t[k], x, missing, lineEnd)
    BY <1>1, TextAt, Zenon
<1> HIDE DEF x
<1>3. Len(blocks) \in Nat /\ k \in 1 .. Len(blocks) + 1 /\ ~(k > Len(blocks))
    BY <1>1, Bodily
<1>4. /\ step # "flushing" => buffer \o body = t[k]
      /\ step = "flushing" => k = Len(blocks) /\ missing > 0 /\ buffer = t[k] \o <<LF, LF>>
    BY <1>3, Standing, Zenon
<1> HIDE DEF t
<1>5. step # "flushing"
  <2> SUFFICES ASSUME step = "flushing" PROVE FALSE
    OBVIOUS
  <2>1. ~(k < Len(blocks) \/ missing = 0) /\ missing \in {1, 2}
    BY <1>3, <1>4
  <2>2. Lacks(t[k], x, missing, lineEnd)
    BY <1>2, <2>1, Zenon
  <2>3. Ended(buffer, t[k])
    BY <1>2, <1>4, TwoAfter, Zenon
  <2>4. Begins(buffer, buffer)
    BY <1>1 DEF Begins
  <2>5. FirstEnds(Len(t[k]) + missing - 1, 2, b)
    BY <1>1, <1>2, <2>1, <2>2, <2>3, <2>4, BrokenOff, Zenon
  <2> QED
    BY <2>5, Zenon DEF FirstEnds
<1>6. buffer = t[k]
  <2>1. buffer \o body = buffer
    BY <1>1
  <2> QED
    BY <1>4, <1>5, <2>1, Zenon
<1>7. ~(k < Len(blocks) \/ missing = 0)
  <2> SUFFICES ASSUME k < Len(blocks) \/ missing = 0 PROVE FALSE
    OBVIOUS
  <2> DEFINE rest == t[k + 1]
  <2>1. buffer \o body = x \o rest /\ buffer = x \o rest /\ rest \in Seq(Symbols)
    BY <1>2, <1>4, <1>5, <1>6, Zenon
  <2> HIDE DEF rest
  <2>2. Len(x) \in Nat /\ Len(rest) \in Nat /\ Joins(buffer, x, rest)
    BY <1>2, <2>1, Joined, Zenon
  <2>3. Len(x) <= Len(buffer)
    BY <2>2 DEF Joins
  <2>4. Holds(b, Len(x))
    BY <1>1, <1>2, <2>1, <2>3, WholeBlock, Zenon
  <2> QED
    BY <2>4, Zenon DEF Holds, FirstEnds
<1>8. k = Len(blocks) /\ missing \in {1, 2} /\ missing > 0
    BY <1>3, <1>7
<1>9. Len(t[k]) \in Nat \ {0} /\ t[k][1] \notin {LF, CR}
    BY <1>2, <1>7, <1>8, NotBlank, Zenon
<1> QED
    BY <1>5, <1>6, <1>8, <1>9, Zenon DEF t

LEMMA ReadKeeps ==
    ASSUME StreamInv, NEW n \in 1 .. Len(body), Events!Read(n)
    PROVE  StreamInv'
<1>1. /\ step = "reading" /\ step' = "taking" /\ blocks' = blocks /\ yielded' = yielded
      /\ buffer' = buffer \o SubSeq(body, 1, n) /\ body' = SubSeq(body, n + 1, Len(body))
    BY DEF Events!Read
<1>2. blocks \in Bodies /\ body \in Seq(Symbols) /\ buffer \in Seq(Symbols) /\ yielded \in Seq(Symbols)
    BY DEF StreamInv
<1>3. PICK lineEnd \in Events!LineEnds, missing \in 0 .. 2, k \in 1 .. Len(blocks) + 1 : StandsAt(lineEnd, missing, k)
    BY <1>1, Zenon DEF StreamInv
<1>4. Events!Sent' = Events!Sent /\ Events!SentFrom' = Events!SentFrom
    BY <1>1, SentStays
<1>5. buffer' \in Seq(Symbols) /\ body' \in Seq(Symbols) /\ buffer' \o body' = buffer \o body
    BY <1>1, <1>2, Rejoined, Zenon
<1>6. step # "flushing" /\ step' # "flushing" /\ step' # "done" /\ step' # "reading" /\ step' \in EventNames
    BY <1>1 DEF EventNames
<1>7. StandsAt(lineEnd, missing, k)'
    BY <1>1, <1>3, <1>4, <1>5, <1>6, Zenon DEF StandsAt
<1> QED
    BY <1>1, <1>2, <1>5, <1>6, <1>7, Zenon DEF StreamInv

LEMMA BlankBuffer ==
    ASSUME buffer \in Seq(Symbols)
    PROVE  /\ buffer = <<>> => Events!IsBlank
           /\ buffer # <<>> /\ buffer[1] \notin {LF, CR} => ~Events!IsBlank
<1>1. Events!IsBlank <=> \A i \in 1 .. Len(buffer) : buffer[i] \in {LF, CR}
  <2>1. DOMAIN buffer = 1 .. Len(buffer)
    OBVIOUS
  <2>2. Events!IsBlank <=> {buffer[i] : i \in DOMAIN buffer} \subseteq {LF, CR}
    BY Zenon DEF Events!IsBlank, Events!ToSet, LF, CR
  <2> QED
    BY <2>1, <2>2, Zenon
<1>2. buffer # <<>> => 1 \in 1 .. Len(buffer)
    OBVIOUS
<1>3. buffer = <<>> => 1 .. Len(buffer) = {}
    OBVIOUS
<1> QED
    BY <1>1, <1>2, <1>3, Zenon

LEMMA ReadEndKeeps ==
    ASSUME StreamInv, Events!ReadEnd
    PROVE  StreamInv'
<1>1. step = "reading" /\ body = <<>> /\ blocks' = blocks /\ body' = body /\ yielded' = yielded
    BY DEF Events!ReadEnd
<1>2. /\ blocks \in Bodies /\ body \in Seq(Symbols) /\ buffer \in Seq(Symbols) /\ yielded \in Seq(Symbols)
      /\ Events!Boundaries = {}
    BY <1>1 DEF StreamInv
<1>3. PICK lineEnd \in Events!LineEnds, missing \in 0 .. 2, k \in 1 .. Len(blocks) + 1 : StandsAt(lineEnd, missing, k)
    BY <1>1, Zenon DEF StreamInv
<1> DEFINE text == Events!Written(blocks, lineEnd, missing)
<1>4. /\ Len(blocks) \in Nat
      /\ Events!Sent = yielded \o Events!SentFrom[k]
      /\ k > Len(blocks) => Events!Sent = yielded /\ text[k] = <<>>
      /\ step # "flushing" => buffer \o body = text[k]
    BY <1>3, Standing, Zenon
<1>5. Events!Sent' = Events!Sent /\ Events!SentFrom' = Events!SentFrom
    BY <1>1, SentStays
<1>6. k \in 1 .. Len(blocks') + 1
    BY <1>1
<1>7. CASE k > Len(blocks)
  <2>1. buffer \o body = <<>> /\ Events!Sent = yielded
    BY <1>1, <1>4, <1>7
  <2>2. buffer = <<>>
    BY <1>2, <2>1
  <2>3. Events!IsBlank
    BY <1>2, <2>2, BlankBuffer, Zenon
  <2>4. step' = "done" /\ buffer' = buffer
    BY <2>3, Zenon DEF Events!ReadEnd
  <2>5. step' \in EventNames /\ step' # "reading"
    BY <2>4 DEF EventNames
  <2> QED
    BY <1>1, <1>2, <1>5, <2>1, <2>4, <2>5, Zenon DEF StreamInv
<1>8. CASE ~(k > Len(blocks))
  <2>1. k \in 1 .. Len(blocks) /\ step # "done"
    BY <1>1, <1>4, <1>8
  <2>2. /\ k = Len(blocks) /\ missing > 0 /\ buffer = text[k]
        /\ Len(buffer) \in Nat \ {0} /\ buffer[1] \notin {LF, CR}
    BY <1>1, <1>2, <1>3, <2>1, OnlyBroken, Zenon
  <2> HIDE DEF text
  <2>3. ~Events!IsBlank
    <3>1. buffer # <<>>
      BY <2>2
    <3> QED
      BY <1>2, <2>2, <3>1, BlankBuffer, Zenon
  <2>4. step' = "flushing" /\ buffer' = buffer \o <<LF, LF>>
    BY <2>3, Zenon DEF Events!ReadEnd, LF
  <2>5. buffer' \in Seq(Symbols)
    BY <1>2, <2>4, TwoAfter, Zenon
  <2>6. step' \in EventNames /\ step' # "reading" /\ step' # "done"
    BY <2>4 DEF EventNames
  <2>7. StandsAt(lineEnd, missing, k)'
    BY <1>1, <1>4, <1>5, <1>8, <2>2, <2>4, Zenon DEF StandsAt, text
  <2> QED
    BY <1>1, <1>2, <1>6, <2>5, <2>6, <2>7, Zenon DEF StreamInv
<1> QED
    BY <1>7, <1>8

LEMMA NoBlockKeeps ==
    ASSUME StreamInv, Events!NoBlock
    PROVE  StreamInv'
<1>1. /\ step \in {"taking", "flushing"} /\ Events!Boundaries = {}
      /\ step' = IF step = "flushing" THEN "done" ELSE "reading"
      /\ blocks' = blocks /\ body' = body /\ buffer' = buffer /\ yielded' = yielded
    BY DEF Events!NoBlock
<1>2. blocks \in Bodies /\ body \in Seq(Symbols) /\ buffer \in Seq(Symbols) /\ yielded \in Seq(Symbols)
    BY DEF StreamInv
<1>3. PICK lineEnd \in Events!LineEnds, missing \in 0 .. 2, k \in 1 .. Len(blocks) + 1 : StandsAt(lineEnd, missing, k)
    BY <1>1, Zenon DEF StreamInv
<1> DEFINE text == Events!Written(blocks, lineEnd, missing)
<1>4. /\ Len(blocks) \in Nat
      /\ Events!Sent = yielded \o Events!SentFrom[k]
      /\ k > Len(blocks) => Events!Sent = yielded
      /\ step # "flushing" => buffer \o body = text[k]
      /\ step = "flushing" /\ ~(k > Len(blocks)) => body = <<>>
    BY <1>3, Standing, Zenon
<1>5. Events!Sent' = Events!Sent /\ Events!SentFrom' = Events!SentFrom
    BY <1>1, SentStays
<1>6. CASE step # "flushing"
  <2>1. step' = "reading" /\ step' \in EventNames /\ step' # "done" /\ step' # "flushing"
    BY <1>1, <1>6 DEF EventNames
  <2>2. Events!Boundaries' = {}
    BY <1>1 DEF Events!Boundaries, Events!Boundary
  <2>3. StandsAt(lineEnd, missing, k)'
    BY <1>1, <1>4, <1>5, <1>6, <2>1, Zenon DEF StandsAt
  <2> QED
    BY <1>1, <1>2, <2>1, <2>2, <2>3, Zenon DEF StreamInv
<1>7. CASE step = "flushing"
  <2>1. k > Len(blocks)
    <3> SUFFICES ASSUME ~(k > Len(blocks)) PROVE FALSE
      OBVIOUS
    <3>1. k \in 1 .. Len(blocks) /\ body = <<>> /\ step # "done"
      BY <1>1, <1>4, <1>7
    <3> QED
      BY <1>1, <1>3, <1>7, <3>1, OnlyBroken, Zenon
  <2>2. step' = "done" /\ step' \in EventNames /\ step' # "reading"
    BY <1>1, <1>7 DEF EventNames
  <2> QED
    BY <1>1, <1>2, <1>4, <1>5, <2>1, <2>2, Zenon DEF StreamInv
<1> QED
    BY <1>6, <1>7

LEMMA BreakKeeps ==
    ASSUME StreamInv, Events!Break
    PROVE  StreamInv'
<1>1. /\ step = "reading" /\ step' = "broken"
      /\ blocks' = blocks /\ body' = body /\ buffer' = buffer /\ yielded' = yielded
    BY DEF Events!Break
<1>2. PICK lineEnd \in Events!LineEnds, missing \in 0 .. 2, k \in 1 .. Len(blocks) + 1 : StandsAt(lineEnd, missing, k)
    BY <1>1, Zenon DEF StreamInv
<1>3. step # "flushing" /\ step' \in EventNames /\ step' # "done" /\ step' # "flushing" /\ step' # "reading"
    BY <1>1 DEF EventNames
<1>4. Events!Sent' = Events!Sent /\ Events!SentFrom' = Events!SentFrom
    BY <1>1, SentStays
<1>5. StandsAt(lineEnd, missing, k)'
    BY <1>1, <1>2, <1>3, <1>4, Zenon DEF StandsAt
<1> QED
    BY <1>1, <1>3, <1>5, Zenon DEF StreamInv

LEMMA StreamSteps ==
    ASSUME StreamInv, Events!Next
    PROVE  StreamInv'
<1>1. CASE \E n \in 1 .. Len(body) : Events!Read(n)
    BY <1>1, ReadKeeps, Zenon
<1>2. CASE Events!ReadEnd
    BY <1>2, ReadEndKeeps, Zenon
<1>3. CASE Events!TakeBlock
    BY <1>3, TakeBlockKeeps, Zenon
<1>4. CASE Events!NoBlock
    BY <1>4, NoBlockKeeps, Zenon
<1>5. CASE Events!Break
    BY <1>5, BreakKeeps, Zenon
<1> QED
    BY <1>1, <1>2, <1>3, <1>4, <1>5, Zenon DEF Events!Next

LEMMA StreamRests ==
    ASSUME StreamInv, UNCHANGED eventVars
    PROVE  StreamInv'
<1>1. blocks' = blocks /\ body' = body /\ buffer' = buffer /\ step' = step /\ yielded' = yielded
    BY DEF eventVars
<1>2. Events!Sent' = Events!Sent /\ Events!SentFrom' = Events!SentFrom
    BY <1>1, SentStays
<1>3. Events!Boundaries' = Events!Boundaries
    BY <1>1 DEF Events!Boundaries, Events!Boundary
<1>4. ASSUME NEW lineEnd, NEW missing, NEW k, StandsAt(lineEnd, missing, k)
      PROVE  StandsAt(lineEnd, missing, k)'
    BY <1>1, <1>2, <1>4, Zenon DEF StandsAt
<1>5. CASE step = "done"
    BY <1>1, <1>2, <1>3, <1>5, Zenon DEF StreamInv
<1>6. CASE step # "done"
  <2>1. PICK lineEnd \in Events!LineEnds, missing \in 0 .. 2, k \in 1 .. Len(blocks) + 1 : StandsAt(lineEnd, missing, k)
    BY <1>6, Zenon DEF StreamInv
  <2>2. StandsAt(lineEnd, missing, k)' /\ k \in 1 .. Len(blocks') + 1
    BY <1>1, <1>4, <2>1, Zenon
  <2> QED
    BY <1>1, <1>3, <1>6, <2>2, Zenon DEF StreamInv
<1> QED
    BY <1>5, <1>6

\* What was yielded, and more of what was sent, is all of it or its beginning.
LEMMA StreamShows ==
    ASSUME StreamInv
    PROVE  TokensAreTheStream
<1>1. blocks \in Bodies /\ yielded \in Seq(Symbols)
    BY DEF StreamInv
<1>2. ASSUME NEW rest \in Seq(Symbols), Events!Sent = yielded \o rest
      PROVE  Events!IsPrefix(yielded, Events!Sent)
  <2> DEFINE z == Events!Sent
  <2>1. z = yielded \o rest
    BY <1>2
  <2> HIDE DEF z
  <2>2. Len(yielded) <= Len(z) /\ SubSeq(z, 1, Len(yielded)) = yielded /\ SubSeq(yielded, 1, Len(yielded)) = yielded
    BY <1>1, <2>1
  <2> QED
    BY <2>2, Zenon DEF Events!IsPrefix, z
<1>3. CASE step = "done"
  <2>1. yielded = Events!Sent
    BY <1>3, Zenon DEF StreamInv
  <2>2. Events!Sent = yielded \o <<>> /\ <<>> \in Seq(Symbols)
    BY <1>1, <2>1
  <2>3. Events!IsPrefix(yielded, Events!Sent)
    BY <1>2, <2>2, Zenon
  <2> QED
    BY <2>1, <2>3 DEF TokensAreTheStream, Events!TokensAreTheStream
<1>4. CASE step # "done"
  <2>1. PICK lineEnd \in Events!LineEnds, missing \in 0 .. 2, k \in 1 .. Len(blocks) + 1 : StandsAt(lineEnd, missing, k)
    BY <1>4, Zenon DEF StreamInv
  <2>2. Events!Sent = yielded \o Events!SentFrom[k] /\ Events!SentFrom[k] \in Seq(Symbols)
    BY <1>1, <2>1, SentFromIs, Zenon DEF StandsAt
  <2>3. Events!IsPrefix(yielded, Events!Sent)
    BY <1>2, <2>2, Zenon
  <2> QED
    BY <1>4, <2>3, Zenon DEF TokensAreTheStream, Events!TokensAreTheStream
<1> QED
    BY <1>3, <1>4

\* A stream stands before one of the blocks that were sent (flowise.provider.ts:70-141).
THEOREM StreamStands == Spec => []StreamInv
<1>1. Init => StreamInv
    BY StreamStart DEF Init
<1>2. StreamInv /\ [Next]_vars => StreamInv'
  <2> SUFFICES ASSUME StreamInv, [Next]_vars PROVE StreamInv'
    OBVIOUS
  <2>1. CASE Stream
    BY <2>1, StreamSteps, Zenon DEF Stream
  <2>2. CASE Walk
    BY <2>2, StreamRests, Zenon DEF Walk
  <2>3. CASE SaveAnswer \/ SaveFailure
    BY <2>3, StreamRests, Zenon DEF SaveAnswer, SaveFailure
  <2>4. CASE DeleteConversation
    BY <2>4, StreamRests, Zenon DEF DeleteConversation
  <2>5. CASE Ask
    BY <2>5, StreamRests, Zenon DEF Ask
  <2>6. CASE FindMessage
    BY <2>6, StreamRests, Zenon DEF FindMessage
  <2>7. CASE FindConversation
    BY <2>7, StreamRests, Zenon DEF FindConversation
  <2>8. CASE UNCHANGED vars
    BY <2>8, StreamRests DEF vars
  <2> QED
    BY <2>1, <2>2, <2>3, <2>4, <2>5, <2>6, <2>7, <2>8, Zenon DEF Next
<1> QED
    BY <1>1, <1>2, PTL DEF Spec

\* However the network cuts the body, whichever line ends the model writes and whether or not
\* its last block is ended: the tokens yielded are the first ones it sent, in order, and all
\* of them once the stream is through (flowise.provider.ts:70-141).
THEOREM StreamIsRead == Spec => []TokensAreTheStream
<1>1. StreamInv => TokensAreTheStream
    BY StreamShows
<1> QED
    BY <1>1, StreamStands, PTL

-----------------------------------------------------------------------------
(* The document of an answer.                                              *)

\* The words of a text from each place on.
Filters(f, s) ==
    /\ f[Len(s) + 1] = <<>>
    /\ \A k \in 1 .. Len(s) : f[k] = IF s[k] \in Marks THEN f[k + 1] ELSE <<s[k]>> \o f[k + 1]

LEMMA OneMore == ASSUME NEW S, NEW x \in S, NEW s \in Seq(S) PROVE <<x>> \o s \in Seq(S)
BY ConcatProperties

LEMMA WordsFrom ==
    ASSUME NEW S, NEW s \in Seq(S)
    PROVE  \E f \in [1 .. Len(s) + 1 -> Seq(S)] : Filters(f, s) /\ Words(s) = f[1]
<1> DEFINE n == Len(s)
           Put(k, rest) == IF s[k] \in Marks THEN rest ELSE <<s[k]>> \o rest
           G == [k \in 1 .. n |-> [rest \in Seq(S) |-> Put(k, rest)]]
           J == [k \in 1 .. n |-> k + 1]
<1>1. n \in Nat /\ \A k \in 1 .. n : s[k] \in S
    OBVIOUS
<1>2. ASSUME NEW k \in 1 .. n, NEW rest \in Seq(S) PROVE Put(k, rest) \in Seq(S)
    BY <1>1, OneMore
<1> HIDE DEF n, Put
<1>3. G \in [1 .. n -> [Seq(S) -> Seq(S)]]
    BY <1>2
<1>4. PICK f \in [1 .. n + 1 -> Seq(S)] : f[n + 1] = <<>> /\ \A k \in 1 .. n : f[k] = G[k][f[J[k]]]
  <2>1. <<>> \in Seq(S) /\ \A k \in 1 .. n : J[k] \in k + 1 .. n + 1
    BY <1>1
  <2> HIDE DEF G, J
  <2>2. Leaps(n, Seq(S), <<>>, J, G)
    BY <1>1, <1>3, <2>1, LeapFrom
  <2> QED
    BY <2>2, Zenon DEF Leaps
<1>5. ASSUME NEW k \in 1 .. n PROVE f[k] = Put(k, f[k + 1])
  <2>1. k + 1 \in 1 .. n + 1 /\ f[k + 1] \in Seq(S) /\ J[k] = k + 1
    BY <1>1, <1>4
  <2> QED
    BY <1>4, <2>1
<1> DEFINE Def(g) == [k \in 1 .. n + 1 |-> IF k > n THEN <<>>
                                           ELSE IF s[k] \in Marks THEN g[k + 1] ELSE <<s[k]>> \o g[k + 1]]
           from == CHOOSE g : g = Def(g)
<1>6. f = Def(f)
  <2>1. ASSUME NEW k \in 1 .. n + 1
        PROVE  f[k] = IF k > n THEN <<>> ELSE IF s[k] \in Marks THEN f[k + 1] ELSE <<s[k]>> \o f[k + 1]
    <3>1. CASE k > n
      <4>1. k = n + 1
        BY <1>1, <3>1
      <4> QED
        BY <1>4, <3>1, <4>1
    <3>2. CASE ~(k > n)
      <4>1. k \in 1 .. n
        BY <1>1, <3>2
      <4> QED
        BY <1>5, <3>2, <4>1, Zenon DEF Put
    <3> QED
      BY <3>1, <3>2
  <2> QED
    BY <1>4, <2>1
<1>7. Words(s) = from[1] /\ from = Def(from)
  <2>1. Words(s) = from[1]
    BY Zenon DEF Words, n
  <2> HIDE DEF Def
  <2>2. from = Def(from)
    BY <1>6
  <2> QED
    BY <2>1, <2>2
<1> HIDE DEF from
<1>8. /\ DOMAIN from = 1 .. n + 1 /\ from[n + 1] = <<>>
      /\ \A k \in 1 .. n : from[k] = Put(k, from[k + 1])
  <2>1. \A k \in 1 .. n + 1 :
            from[k] = IF k > n THEN <<>> ELSE IF s[k] \in Marks THEN from[k + 1] ELSE <<s[k]>> \o from[k + 1]
    BY <1>7, Zenon
  <2>2. n + 1 \in 1 .. n + 1 /\ n + 1 > n /\ \A k \in 1 .. n : k \in 1 .. n + 1 /\ ~(k > n)
    BY <1>1
  <2>3. DOMAIN from = 1 .. n + 1
    BY <1>7
  <2> QED
    BY <2>1, <2>2, <2>3, Zenon DEF Put
<1>9. ASSUME NEW k \in 1 .. n + 1 PROVE from[k] \in Seq(S)
  <2> DEFINE T == {m \in 1 .. n + 1 : from[m] \in Seq(S)}
  <2>1. ASSUME NEW m \in 1 .. n + 1, (m + 1 .. n + 1) \subseteq T PROVE m \in T
    <3>1. CASE m = n + 1
      <4>1. from[m] = <<>>
        BY <1>8, <3>1, Zenon
      <4>2. <<>> \in Seq(S)
        OBVIOUS
      <4> QED
        BY <4>1, <4>2
    <3>2. CASE m # n + 1
      <4>1. m \in 1 .. n /\ m + 1 \in T
        BY <1>1, <2>1, <3>2
      <4> QED
        BY <1>2, <1>8, <4>1
    <3> QED
      BY <3>1, <3>2
  <2> HIDE DEF T
  <2>2. 1 .. n + 1 \subseteq T
    BY <1>1, <2>1, Downward
  <2> QED
    BY <2>2 DEF T
<1>10. from \in [1 .. n + 1 -> Seq(S)]
  <2>1. from = [k \in 1 .. n + 1 |-> from[k]]
    BY <1>7
  <2> QED
    BY <1>9, <2>1
<1>11. Filters(from, s)
    BY <1>8, Zenon DEF Filters, n, Put
<1> QED
    BY <1>7, <1>10, <1>11 DEF n

LEMMA Glued ==
    ASSUME NEW S, NEW x \in S, NEW s \in Seq(S), NEW t \in Seq(S)
    PROVE  <<x>> \o (s \o t) = (<<x>> \o s) \o t
<1> DEFINE one == <<x>>
<1>1. one \in Seq(S)
    OBVIOUS
<1> HIDE DEF one
<1>2. (one \o s) \o t = one \o (s \o t)
    BY <1>1, ConcatAssociative
<1> QED
    BY <1>2 DEF one

LEMMA OneByOne ==
    ASSUME NEW S, NEW x \in S, NEW y \in S, NEW s \in Seq(S)
    PROVE  <<x, y>> \o s = <<x>> \o (<<y>> \o s)
<1> DEFINE one == <<x>>
           next == <<y>>
           both == <<x, y>>
           z == one \o next
<1>1. /\ one \in Seq(S) /\ Len(one) = 1 /\ one[1] = x
      /\ next \in Seq(S) /\ Len(next) = 1 /\ next[1] = y
      /\ both \in Seq(S) /\ Len(both) = 2 /\ both[1] = x /\ both[2] = y
    OBVIOUS
<1> HIDE DEF one, next, both
<1>2. z \in Seq(S) /\ Joins(z, one, next)
    BY <1>1, Joined, Zenon
<1> HIDE DEF z
<1>3. Len(z) = 2 /\ z[1] = x /\ z[2] = y
  <2>1. Len(z) = 2 /\ z[1] = x /\ z[1 + 1] = y
    BY <1>1, <1>2 DEF Joins
  <2> QED
    BY <2>1
<1>4. z = both
  <2>1. Len(z) = Len(both) /\ \A i \in 1 .. Len(z) : z[i] = both[i]
    BY <1>1, <1>3
  <2> QED
    BY <1>1, <1>2, <2>1, SeqEqual, Zenon
<1>5. (one \o next) \o s = one \o (next \o s)
    BY <1>1, ConcatAssociative
<1> QED
    BY <1>4, <1>5, Zenon DEF one, next, both, z

\* The words of a text are those of its first part and those of the rest.
LEMMA WordsOfBoth ==
    ASSUME NEW S, NEW s \in Seq(S), NEW t \in Seq(S)
    PROVE  /\ Words(s) \in Seq(S) /\ Words(t) \in Seq(S)
           /\ Words(s \o t) = Words(s) \o Words(t)
<1> DEFINE z == s \o t
           m == Len(s)
           n == Len(t)
<1>1. z \in Seq(S) /\ m \in Nat /\ n \in Nat /\ Len(z) = m + n
    OBVIOUS
<1>2. /\ \A k \in 1 .. m : z[k] = s[k] /\ s[k] \in S
      /\ \A k \in 1 .. n : z[m + k] = t[k] /\ t[k] \in S
    OBVIOUS
<1> HIDE DEF z
<1>3. PICK f \in [1 .. Len(z) + 1 -> Seq(S)] : Filters(f, z) /\ Words(z) = f[1]
    BY <1>1, WordsFrom
<1>4. PICK g \in [1 .. Len(s) + 1 -> Seq(S)] : Filters(g, s) /\ Words(s) = g[1]
    BY WordsFrom
<1>5. PICK h \in [1 .. Len(t) + 1 -> Seq(S)] : Filters(h, t) /\ Words(t) = h[1]
    BY WordsFrom
<1> HIDE DEF m, n
<1>6. /\ f[m + n + 1] = <<>>
      /\ \A k \in 1 .. m + n : f[k] = IF z[k] \in Marks THEN f[k + 1] ELSE <<z[k]>> \o f[k + 1]
    BY <1>1, <1>3, Zenon DEF Filters
<1>7. /\ g[m + 1] = <<>> /\ \A k \in 1 .. m + 1 : g[k] \in Seq(S)
      /\ \A k \in 1 .. m : g[k] = IF s[k] \in Marks THEN g[k + 1] ELSE <<s[k]>> \o g[k + 1]
    BY <1>4 DEF Filters, m
<1>8. /\ h[n + 1] = <<>>
      /\ \A k \in 1 .. n : h[k] = IF t[k] \in Marks THEN h[k + 1] ELSE <<t[k]>> \o h[k + 1]
    BY <1>5 DEF Filters, n
<1>9. f[m + 1] = h[1]
  <2> DEFINE T == {k \in 1 .. n + 1 : f[m + k] = h[k]}
  <2>1. ASSUME NEW k \in 1 .. n + 1, (k + 1 .. n + 1) \subseteq T PROVE k \in T
    <3>1. CASE k = n + 1
      <4>1. m + k = m + n + 1
        BY <1>1, <3>1
      <4> QED
        BY <1>6, <1>8, <3>1, <4>1
    <3>2. CASE k # n + 1
      <4>1. /\ k \in 1 .. n /\ k + 1 \in k + 1 .. n + 1
            /\ m + k \in 1 .. m + n /\ m + k + 1 = m + (k + 1)
        BY <1>1, <3>2
      <4>2. z[m + k] = t[k] /\ f[m + k + 1] = h[k + 1]
        BY <1>2, <2>1, <4>1
      <4>3. f[m + k] = h[k]
        BY <1>6, <1>8, <4>1, <4>2, Zenon
      <4> QED
        BY <4>3
    <3> QED
      BY <3>1, <3>2
  <2> HIDE DEF T
  <2>2. 1 .. n + 1 \subseteq T
    BY <1>1, <2>1, Downward
  <2>3. 1 \in T
    BY <1>1, <2>2
  <2> QED
    BY <2>3 DEF T
<1> DEFINE w == h[1]
<1>10. w \in Seq(S)
    BY <1>1, <1>5
<1> HIDE DEF w
<1>11. f[1] = g[1] \o w
  <2> DEFINE T == {k \in 1 .. m + 1 : f[k] = g[k] \o w}
  <2>1. ASSUME NEW k \in 1 .. m + 1, (k + 1 .. m + 1) \subseteq T PROVE k \in T
    <3>1. CASE k = m + 1
      <4>1. f[k] = w /\ g[k] = <<>>
        BY <1>7, <1>9, <3>1 DEF w
      <4>2. <<>> \o w = w
        BY <1>10
      <4> QED
        BY <4>1, <4>2
    <3>2. CASE k # m + 1
      <4>1. k \in 1 .. m /\ k + 1 \in k + 1 .. m + 1 /\ k \in 1 .. m + n /\ k + 1 \in 1 .. m + 1
        BY <1>1, <3>2
      <4> DEFINE x == z[k]
                 rest == g[k + 1]
      <4>5. f[k + 1] = rest \o w
        <5>1. k + 1 \in T
          BY <2>1, <4>1, Zenon
        <5> QED
          BY <5>1
      <4>2. /\ x \in S /\ rest \in Seq(S) /\ f[k + 1] = rest \o w
            /\ f[k] = IF x \in Marks THEN f[k + 1] ELSE <<x>> \o f[k + 1]
            /\ g[k] = IF x \in Marks THEN rest ELSE <<x>> \o rest
        BY <1>2, <1>6, <1>7, <4>1, <4>5
      <4> HIDE DEF x, rest
      <4>3. <<x>> \o (rest \o w) = (<<x>> \o rest) \o w
        BY <1>10, <4>2, Glued
      <4>4. f[k] = g[k] \o w
        BY <4>2, <4>3, Zenon
      <4> QED
        BY <4>1, <4>4
    <3> QED
      BY <3>1, <3>2
  <2> HIDE DEF T
  <2>2. 1 .. m + 1 \subseteq T
    BY <1>1, <2>1, Downward
  <2>3. 1 \in T
    BY <1>1, <2>2
  <2> QED
    BY <2>3 DEF T
<1>12. g[1] \in Seq(S)
    BY <1>1, <1>7
<1> QED
    BY <1>3, <1>4, <1>5, <1>10, <1>11, <1>12 DEF w, z

LEMMA WordsOfOne ==
    ASSUME NEW S, NEW x \in S
    PROVE  /\ Words(<<x>>) = IF x \in Marks THEN <<>> ELSE <<x>>
           /\ Words(<<>>) = <<>>
<1> DEFINE s == <<x>>
           e == <<>>
<1>1. s \in Seq(S) /\ Len(s) = 1 /\ s[1] = x /\ e \in Seq(S) /\ Len(e) = 0
    OBVIOUS
<1> HIDE DEF s, e
<1>2. PICK f \in [1 .. Len(s) + 1 -> Seq(S)] : Filters(f, s) /\ Words(s) = f[1]
    BY <1>1, WordsFrom
<1>3. f[2] = <<>> /\ f[1] = IF x \in Marks THEN f[2] ELSE <<x>> \o f[2]
    BY <1>1, <1>2 DEF Filters
<1>4. <<x>> \o <<>> = <<x>>
    OBVIOUS
<1>5. PICK g \in [1 .. Len(e) + 1 -> Seq(S)] : Filters(g, e) /\ Words(e) = g[1]
    BY <1>1, WordsFrom
<1>6. g[1] = <<>>
    BY <1>1, <1>5 DEF Filters
<1> QED
    BY <1>2, <1>3, <1>4, <1>5, <1>6 DEF s, e

\* A part of a text, cut in two.
LEMMA Apart ==
    ASSUME NEW S, NEW s \in Seq(S), NEW a \in 1 .. Len(s) + 1, NEW b \in a - 1 .. Len(s), NEW c \in b .. Len(s)
    PROVE  /\ SubSeq(s, a, c) \in Seq(S) /\ SubSeq(s, a, b) \in Seq(S) /\ SubSeq(s, b + 1, c) \in Seq(S)
           /\ Words(SubSeq(s, a, c)) = Words(SubSeq(s, a, b)) \o Words(SubSeq(s, b + 1, c))
           /\ {Words(SubSeq(s, a, c)), Words(SubSeq(s, a, b)), Words(SubSeq(s, b + 1, c))} \subseteq Seq(S)
<1> DEFINE x == SubSeq(s, a, b)
           y == SubSeq(s, b + 1, c)
           z == SubSeq(s, a, c)
<1>1. Len(s) \in Nat /\ a \in Nat /\ b \in Nat /\ c \in Nat /\ \A i \in 1 .. Len(s) : s[i] \in S
    OBVIOUS
<1>2. x \in Seq(S) /\ Len(x) = b - a + 1 /\ \A i \in 1 .. b - a + 1 : x[i] = s[a + i - 1]
    BY <1>1
<1>3. y \in Seq(S) /\ Len(y) = c - b /\ \A i \in 1 .. c - b : y[i] = s[b + i]
    BY <1>1
<1>4. z \in Seq(S) /\ Len(z) = c - a + 1 /\ \A i \in 1 .. c - a + 1 : z[i] = s[a + i - 1]
    BY <1>1
<1> HIDE DEF x, y, z
<1>5. x \o y = z
  <2> DEFINE u == x \o y
  <2>1. u \in Seq(S) /\ Joins(u, x, y)
    BY <1>2, <1>3, Joined, Zenon
  <2> HIDE DEF u
  <2>2. Len(u) = c - a + 1
    BY <1>1, <1>2, <1>3, <2>1 DEF Joins
  <2>3. ASSUME NEW i \in 1 .. c - a + 1 PROVE u[i] = z[i]
    <3>1. z[i] = s[a + i - 1]
      BY <1>4
    <3>2. CASE i <= b - a + 1
      <4>1. i \in 1 .. b - a + 1 /\ i \in 1 .. Len(x)
        BY <1>1, <1>2, <3>2
      <4> QED
        BY <1>2, <2>1, <3>1, <4>1 DEF Joins
    <3>3. CASE ~(i <= b - a + 1)
      <4> DEFINE j == i - (b - a + 1)
      <4>1. j \in 1 .. c - b /\ j \in 1 .. Len(y) /\ b + j = a + i - 1 /\ Len(x) + j = i
        BY <1>1, <1>2, <1>3, <3>3
      <4> HIDE DEF j
      <4>2. u[Len(x) + j] = y[j] /\ y[j] = s[b + j]
        BY <1>3, <2>1, <4>1 DEF Joins
      <4> QED
        BY <3>1, <4>1, <4>2
    <3> QED
      BY <3>2, <3>3
  <2>4. Len(u) = Len(z) /\ \A i \in 1 .. Len(u) : u[i] = z[i]
    BY <1>4, <2>2, <2>3
  <2>5. u = z
    BY <1>4, <2>1, <2>4, SeqEqual, Zenon
  <2> QED
    BY <2>5 DEF u
<1>6. /\ Words(x) \in Seq(S) /\ Words(y) \in Seq(S)
      /\ Words(x \o y) = Words(x) \o Words(y)
    BY <1>2, <1>3, WordsOfBoth, Zenon
<1>7. Words(x) \o Words(y) \in Seq(S)
    BY <1>6, ConcatProperties, Zenon
<1> QED
    BY <1>2, <1>3, <1>4, <1>5, <1>6, <1>7 DEF x, y, z

\* A mark at the beginning of a part has no words.
LEMMA AfterMark ==
    ASSUME NEW S, NEW s \in Seq(S), NEW a \in 1 .. Len(s), NEW c \in a .. Len(s), s[a] \in Marks
    PROVE  Words(SubSeq(s, a, c)) = Words(SubSeq(s, a + 1, c))
<1> DEFINE x == SubSeq(s, a, a)
           y == Words(SubSeq(s, a + 1, c))
<1>1. Len(s) \in Nat /\ a \in Nat /\ s[a] \in S
    OBVIOUS
<1>2. x = <<s[a]>>
  <2>1. x \in Seq(S) /\ Len(x) = 1 /\ x[1] = s[a]
    BY <1>1
  <2> HIDE DEF x
  <2> QED
    BY <1>1, <2>1
<1>3. Words(x) = <<>>
    BY <1>1, <1>2, WordsOfOne
<1>4. a \in 1 .. Len(s) + 1 /\ a \in a - 1 .. Len(s)
    BY <1>1
<1>5. y \in Seq(S) /\ Words(SubSeq(s, a, c)) = Words(x) \o y
    BY <1>4, Apart
<1> HIDE DEF x, y
<1>6. <<>> \o y = y
    BY <1>5
<1>7. Words(SubSeq(s, a, c)) = y
    BY <1>3, <1>5, <1>6
<1> QED
    BY <1>7 DEF y

\* Nor has a mark at the end of a part.
LEMMA BeforeMark ==
    ASSUME NEW S, NEW s \in Seq(S), NEW c \in 1 .. Len(s), NEW a \in 1 .. c, s[c] \in Marks
    PROVE  Words(SubSeq(s, a, c)) = Words(SubSeq(s, a, c - 1))
<1> DEFINE x == SubSeq(s, c, c)
           y == Words(SubSeq(s, a, c - 1))
<1>1. Len(s) \in Nat /\ a \in Nat /\ c \in Nat /\ s[c] \in S /\ c - 1 + 1 = c
    OBVIOUS
<1>2. x = <<s[c]>>
  <2>1. x \in Seq(S) /\ Len(x) = 1 /\ x[1] = s[c]
    BY <1>1
  <2> HIDE DEF x
  <2> QED
    BY <1>1, <2>1
<1>3. Words(x) = <<>>
    BY <1>1, <1>2, WordsOfOne
<1>4. a \in 1 .. Len(s) + 1 /\ c - 1 \in a - 1 .. Len(s) /\ c \in c - 1 .. Len(s)
    BY <1>1
<1>5. y \in Seq(S) /\ Words(SubSeq(s, a, c)) = y \o Words(x)
  <2> DEFINE b == c - 1
  <2>1. b \in a - 1 .. Len(s) /\ c \in b .. Len(s) /\ b + 1 = c
    BY <1>1, <1>4
  <2> HIDE DEF b
  <2>2. Words(SubSeq(s, a, b)) \in Seq(S) /\ Words(SubSeq(s, a, c)) = Words(SubSeq(s, a, b)) \o Words(SubSeq(s, b + 1, c))
    BY <1>4, <2>1, Apart
  <2> QED
    BY <2>1, <2>2 DEF b
<1> HIDE DEF x, y
<1>6. y \o <<>> = y
    BY <1>5
<1>7. Words(SubSeq(s, a, c)) = y
    BY <1>3, <1>5, <1>6
<1> QED
    BY <1>7 DEF y

\* Parts of a text put together, up to each of them.
Adds(f, parts) == f[1] = parts[1] /\ \A i \in 2 .. Len(parts) : f[i] = f[i - 1] \o parts[i]

LEMMA FlattenIs ==
    ASSUME NEW S, NEW parts \in Seq(Seq(S)), parts # <<>>
    PROVE  /\ Len(parts) \in Nat \ {0} /\ FlattenSeq(parts) \in Seq(S)
           /\ \E f \in [1 .. Len(parts) -> Seq(S)] : Adds(f, parts) /\ FlattenSeq(parts) = f[Len(parts)]
<1> DEFINE n == Len(parts)
           N == n - 1
           Put(k, v) == v \o parts[n + 1 - k]
           G == [k \in 1 .. N |-> [v \in Seq(S) |-> Put(k, v)]]
           J == [k \in 1 .. N |-> k + 1]
<1>1. n \in Nat \ {0} /\ N \in Nat /\ N + 1 = n /\ \A k \in 1 .. n : parts[k] \in Seq(S)
    OBVIOUS
<1> HIDE DEF n
<1>2. ASSUME NEW k \in 1 .. N, NEW v \in Seq(S) PROVE Put(k, v) \in Seq(S)
  <2>1. parts[n + 1 - k] \in Seq(S)
    BY <1>1
  <2> QED
    BY <2>1, ConcatProperties, Zenon
<1> HIDE DEF Put
<1>3. G \in [1 .. N -> [Seq(S) -> Seq(S)]]
    BY <1>2
<1>4. PICK g \in [1 .. N + 1 -> Seq(S)] : g[N + 1] = parts[1] /\ \A k \in 1 .. N : g[k] = G[k][g[J[k]]]
  <2>1. parts[1] \in Seq(S) /\ \A k \in 1 .. N : J[k] \in k + 1 .. N + 1
    BY <1>1
  <2> HIDE DEF G, J, N
  <2>2. Leaps(N, Seq(S), parts[1], J, G)
    BY <1>1, <1>3, <2>1, LeapFrom
  <2> QED
    BY <2>2, Zenon DEF Leaps
<1>5. ASSUME NEW k \in 1 .. N PROVE g[k] = Put(k, g[k + 1])
  <2>1. k + 1 \in 1 .. N + 1 /\ g[k + 1] \in Seq(S) /\ J[k] = k + 1
    BY <1>1, <1>4
  <2> QED
    BY <1>4, <2>1
<1> DEFINE f == [i \in 1 .. n |-> g[n + 1 - i]]
           Def(h) == [i \in 1 .. n |-> IF i = 1 THEN parts[i] ELSE h[i - 1] \o parts[i]]
           flatten == CHOOSE h : h = Def(h)
<1>6. f = Def(f)
  <2>1. ASSUME NEW i \in 1 .. n PROVE f[i] = IF i = 1 THEN parts[i] ELSE f[i - 1] \o parts[i]
    <3>1. CASE i = 1
      BY <1>1, <1>4, <3>1
    <3>2. CASE i # 1
      <4> DEFINE k == n + 1 - i
      <4>1. k \in 1 .. N /\ n + 1 - k = i /\ i - 1 \in 1 .. n /\ n + 1 - (i - 1) = k + 1
        BY <1>1, <3>2
      <4>2. f[i] = g[k] /\ f[i - 1] = g[k + 1]
        BY <4>1
      <4> HIDE DEF k, f
      <4> QED
        BY <1>5, <3>2, <4>1, <4>2 DEF Put
    <3> QED
      BY <3>1, <3>2
  <2> QED
    BY <2>1
<1>7. FlattenSeq(parts) = flatten[n] /\ flatten = Def(flatten)
  <2>1. Len(parts) # 0
    BY <1>1 DEF n
  <2>2. FlattenSeq(parts) = flatten[n]
    BY <2>1, Zenon DEF FlattenSeq, n
  <2> HIDE DEF Def, f
  <2>3. flatten = Def(flatten)
    BY <1>6
  <2> QED
    BY <2>2, <2>3
<1> HIDE DEF flatten, f
<1>8. DOMAIN flatten = 1 .. n /\ Adds(flatten, parts)
  <2>1. \A i \in 1 .. n : flatten[i] = IF i = 1 THEN parts[i] ELSE flatten[i - 1] \o parts[i]
    BY <1>7, Zenon
  <2>2. 1 \in 1 .. n /\ \A i \in 2 .. n : i \in 1 .. n /\ i # 1
    BY <1>1
  <2>3. flatten[1] = parts[1] /\ \A i \in 2 .. n : flatten[i] = flatten[i - 1] \o parts[i]
    BY <2>1, <2>2, Zenon
  <2>4. DOMAIN flatten = 1 .. n
    BY <1>7
  <2> QED
    BY <2>3, <2>4 DEF Adds, n
<1>9. 1 .. n \subseteq {i \in 1 .. n : flatten[i] \in Seq(S)}
  <2> DEFINE T == {i \in 1 .. n : flatten[i] \in Seq(S)}
  <2>1. 1 \in T
    BY <1>1, <1>8 DEF Adds
  <2>2. ASSUME NEW i \in 2 .. n, i - 1 \in T PROVE i \in T
    <3>1. flatten[i] = flatten[i - 1] \o parts[i]
      BY <1>8, Zenon DEF Adds, n
    <3>2. i \in 1 .. n
      BY <1>1
    <3>3. flatten[i - 1] \in Seq(S) /\ parts[i] \in Seq(S)
      BY <1>1, <2>2, <3>2
    <3>4. flatten[i] \in Seq(S)
      BY <3>1, <3>3, ConcatProperties, Zenon
    <3> QED
      BY <3>2, <3>4
  <2> HIDE DEF T
  <2>3. 1 .. n \subseteq T
    BY <1>1, <2>1, <2>2, Upward
  <2> QED
    BY <2>3 DEF T
<1>10. flatten \in [1 .. n -> Seq(S)]
  <2>1. flatten = [i \in 1 .. n |-> flatten[i]]
    BY <1>7
  <2> QED
    BY <1>9, <2>1
<1>11. flatten[n] \in Seq(S)
    BY <1>1, <1>10
<1> QED
    BY <1>1, <1>7, <1>8, <1>10, <1>11 DEF n

LEMMA FlattenNone == FlattenSeq(<<>>) = <<>>
BY DEF FlattenSeq

LEMMA FlattenOne ==
    ASSUME NEW S, NEW s \in Seq(S)
    PROVE  FlattenSeq(<<s>>) = s
<1> DEFINE parts == <<s>>
<1>1. parts \in Seq(Seq(S)) /\ Len(parts) = 1 /\ parts[1] = s /\ parts # <<>>
    OBVIOUS
<1> HIDE DEF parts
<1>2. PICK f \in [1 .. Len(parts) -> Seq(S)] : Adds(f, parts) /\ FlattenSeq(parts) = f[Len(parts)]
    BY <1>1, FlattenIs, Zenon
<1>3. FlattenSeq(parts) = s
    BY <1>1, <1>2 DEF Adds
<1> QED
    BY <1>3 DEF parts

\* A part before others comes before all of them.
LEMMA FlattenMore ==
    ASSUME NEW S, NEW s \in Seq(S), NEW rest \in Seq(Seq(S))
    PROVE  /\ FlattenSeq(rest) \in Seq(S) /\ <<s>> \o rest \in Seq(Seq(S))
           /\ FlattenSeq(<<s>> \o rest) = s \o FlattenSeq(rest)
<1> DEFINE one == <<s>>
           parts == one \o rest
           n == Len(rest)
<1>1. one \in Seq(Seq(S)) /\ Len(one) = 1 /\ one[1] = s /\ n \in Nat
    OBVIOUS
<1> HIDE DEF one
<1>2. parts \in Seq(Seq(S)) /\ Joins(parts, one, rest)
    BY <1>1, Joined, Zenon
<1> HIDE DEF parts
<1>3. Len(parts) = n + 1 /\ parts[1] = s /\ parts # <<>> /\ \A i \in 1 .. n : parts[i + 1] = rest[i]
  <2>1. Len(parts) = n + 1 /\ parts[1] = s /\ \A i \in 1 .. n : parts[1 + i] = rest[i]
    BY <1>1, <1>2 DEF Joins
  <2> QED
    BY <1>1, <2>1
<1>4. PICK f \in [1 .. Len(parts) -> Seq(S)] : Adds(f, parts) /\ FlattenSeq(parts) = f[Len(parts)]
    BY <1>2, <1>3, FlattenIs, Zenon
<1>5. CASE rest = <<>>
  <2>1. n = 0 /\ FlattenSeq(rest) = <<>> /\ <<>> \in Seq(S)
    BY <1>5, FlattenNone
  <2>2. FlattenSeq(parts) = s /\ s \o <<>> = s
    BY <1>3, <1>4, <2>1 DEF Adds
  <2> QED
    BY <1>2, <2>1, <2>2 DEF parts, one
<1>6. CASE rest # <<>>
  <2>1. /\ n \in Nat \ {0} /\ FlattenSeq(rest) \in Seq(S)
        /\ \E g \in [1 .. n -> Seq(S)] : Adds(g, rest) /\ FlattenSeq(rest) = g[n]
    BY <1>6, FlattenIs, Zenon
  <2>2. PICK g \in [1 .. n -> Seq(S)] : Adds(g, rest) /\ FlattenSeq(rest) = g[n]
    BY <2>1
  <2> HIDE DEF n
  <2> DEFINE T == {i \in 1 .. n : f[i + 1] = s \o g[i]}
  <2>3. \A i \in 2 .. n + 1 : f[i] = f[i - 1] \o parts[i]
    BY <1>3, <1>4, Zenon DEF Adds
  <2>4. f[1] = s /\ g[1] = rest[1] /\ \A i \in 2 .. n : g[i] = g[i - 1] \o rest[i]
    BY <1>3, <1>4, <2>2 DEF Adds, n
  <2>5. 1 \in T
    <3>1. 2 \in 2 .. n + 1 /\ 1 \in 1 .. n /\ 2 - 1 = 1 /\ 1 + 1 = 2
      BY <2>1
    <3>2. f[2] = f[1] \o parts[2] /\ parts[2] = rest[1]
      BY <1>3, <2>3, <3>1
    <3> QED
      BY <2>4, <3>1, <3>2
  <2>6. ASSUME NEW i \in 2 .. n, i - 1 \in T PROVE i \in T
    <3>1. i + 1 \in 2 .. n + 1 /\ i \in 1 .. n /\ i - 1 \in 1 .. n /\ i + 1 - 1 = i /\ i - 1 + 1 = i
      BY <2>1
    <3> DEFINE x == g[i - 1]
               y == rest[i]
    <3>2. x \in Seq(S) /\ y \in Seq(S)
      <4>1. \A j \in 1 .. n : rest[j] \in Seq(S)
        BY DEF n
      <4> QED
        BY <2>2, <3>1, <4>1
    <3>3. f[i] = s \o x
      BY <2>6, <3>1
    <3>4. f[i + 1] = f[i] \o y /\ g[i] = x \o y
      <4> DEFINE l == i + 1
      <4>1. l \in 2 .. n + 1 /\ l - 1 = i /\ parts[l] = y
        BY <1>3, <3>1
      <4> HIDE DEF l, y
      <4>2. f[l] = f[l - 1] \o parts[l]
        BY <2>3, <4>1, Zenon
      <4>3. g[i] = x \o y
        BY <2>4, Zenon DEF y
      <4> QED
        BY <4>1, <4>2, <4>3, Zenon DEF l
    <3> HIDE DEF x, y
    <3>5. (s \o x) \o y = s \o (x \o y)
      BY <3>2, ConcatAssociative
    <3> QED
      BY <3>1, <3>3, <3>4, <3>5
  <2> HIDE DEF T
  <2>7. 1 .. n \subseteq T
    BY <2>1, <2>5, <2>6, Upward
  <2>8. n \in T
    BY <2>1, <2>7
  <2>9. f[n + 1] = s \o g[n]
    BY <2>8 DEF T
  <2> QED
    BY <1>2, <1>3, <1>4, <2>1, <2>2, <2>9 DEF parts, one
<1> QED
    BY <1>5, <1>6

LEMMA MinOf ==
    ASSUME NEW T \in SUBSET Nat, T # {}
    PROVE  Min(T) \in T /\ \A x \in T : Min(T) <= x
<1>1. PICK x \in T : \A y \in T : x <= y
    BY LeastNatural
<1> QED
    BY <1>1 DEF Min

\* Parts that have the same words each have the same words put together.
LEMMA SameWords ==
    ASSUME NEW S, NEW p \in Seq(Seq(S)), NEW q \in Seq(Seq(S)), Len(p) = Len(q),
           \A i \in 1 .. Len(p) : Words(p[i]) = Words(q[i])
    PROVE  Words(FlattenSeq(p)) = Words(FlattenSeq(q))
<1> DEFINE n == Len(p)
<1>1. n \in Nat /\ n = Len(q) /\ \A i \in 1 .. n : p[i] \in Seq(S) /\ q[i] \in Seq(S)
    OBVIOUS
<1>2. CASE p = <<>>
  <2>1. q = <<>>
    BY <1>1, <1>2
  <2> QED
    BY <1>2, <2>1
<1>3. CASE p # <<>>
  <2>1. q # <<>> /\ n # 0
    BY <1>1, <1>3
  <2>2. PICK f \in [1 .. Len(p) -> Seq(S)] : Adds(f, p) /\ FlattenSeq(p) = f[Len(p)]
    BY <1>3, FlattenIs, Zenon
  <2>3. PICK g \in [1 .. Len(q) -> Seq(S)] : Adds(g, q) /\ FlattenSeq(q) = g[Len(q)]
    BY <2>1, FlattenIs, Zenon
  <2> DEFINE T == {i \in 1 .. n : Words(f[i]) = Words(g[i])}
  <2>4. 1 \in T
    BY <1>1, <2>1, <2>2, <2>3 DEF Adds
  <2>5. ASSUME NEW i \in 2 .. n, i - 1 \in T PROVE i \in T
    <3> DEFINE x == f[i - 1]
               y == g[i - 1]
               u == p[i]
               v == q[i]
    <3>1. i \in 1 .. n /\ i - 1 \in 1 .. n /\ i \in 2 .. Len(q)
      BY <1>1
    <3>2. x \in Seq(S) /\ y \in Seq(S) /\ u \in Seq(S) /\ v \in Seq(S) /\ Words(x) = Words(y) /\ Words(u) = Words(v)
      BY <1>1, <2>2, <2>3, <2>5, <3>1
    <3>3. f[i] = x \o u /\ g[i] = y \o v
      BY <2>2, <2>3, <3>1, Zenon DEF Adds
    <3> HIDE DEF x, y, u, v
    <3>4. Words(x \o u) = Words(x) \o Words(u) /\ Words(y \o v) = Words(y) \o Words(v)
      BY <3>2, WordsOfBoth, Zenon
    <3>5. Words(f[i]) = Words(g[i])
      BY <3>2, <3>3, <3>4, Zenon
    <3> QED
      BY <3>1, <3>5
  <2> HIDE DEF T
  <2>6. 1 .. n \subseteq T
    BY <1>1, <2>4, <2>5, Upward
  <2>7. n \in T
    BY <1>1, <2>1, <2>6
  <2> QED
    BY <1>1, <2>2, <2>3, <2>7 DEF T
<1> QED
    BY <1>2, <1>3

\* The lines of a text have its words.
LEMMA LinesKeep ==
    ASSUME NEW S, NEW text \in Seq(S)
    PROVE  Lines(text) \in Seq(Seq(S)) /\ Words(FlattenSeq(Lines(text))) = Words(text)
<1> DEFINE n == Len(text)
           ends(k) == {i \in k .. n : text[i] = NewLine}
           next(k) == Min(ends(k))
           last(k) == <<SubSeq(text, k, n)>>
           head(k) == <<SubSeq(text, k, next(k) - 1)>>
           S2 == Seq(Seq(S))
           Put(k, v) == IF ends(k) = {} THEN last(k) ELSE head(k) \o v
           G == [k \in 1 .. n |-> [v \in S2 |-> Put(k, v)]]
           J == [k \in 1 .. n |-> IF ends(k) = {} THEN n + 1 ELSE next(k) + 1]
<1>1. n \in Nat /\ \A k \in 1 .. n : text[k] \in S
    OBVIOUS
<1>2. ASSUME NEW k \in 1 .. n + 1 PROVE last(k) \in S2
  <2>1. SubSeq(text, k, n) \in Seq(S)
    BY <1>1
  <2> QED
    BY <2>1
<1>3. ASSUME NEW k \in 1 .. n + 1, ends(k) # {} PROVE next(k) \in k .. n /\ text[next(k)] = NewLine /\ head(k) \in S2
  <2>1. ends(k) \in SUBSET Nat
    BY <1>1
  <2>2. next(k) \in ends(k)
    <3> HIDE DEF ends
    <3> QED
      BY <1>3, <2>1, MinOf
  <2>3. next(k) \in k .. n /\ text[next(k)] = NewLine
    BY <2>2
  <2> HIDE DEF next
  <2>4. SubSeq(text, k, next(k) - 1) \in Seq(S)
    BY <1>1, <2>3
  <2> QED
    BY <2>3, <2>4
<1>4. S2 # {} /\ \A u, v \in S2 : u \o v \in S2
  <2>1. <<>> \in S2
    OBVIOUS
  <2> QED
    BY <2>1, ConcatProperties, Zenon
<1> HIDE DEF ends, next, last, head, S2
<1>5. ASSUME NEW k \in 1 .. n, NEW v \in S2 PROVE Put(k, v) \in S2
    BY <1>1, <1>2, <1>3, <1>4
<1> HIDE DEF n, Put
<1>6. G \in [1 .. n -> [S2 -> S2]]
    BY <1>5
<1>7. \A k \in 1 .. n : J[k] \in k + 1 .. n + 1
    BY <1>1, <1>3
<1>8. PICK f \in [1 .. n + 1 -> S2] : f[n + 1] = last(n + 1) /\ \A k \in 1 .. n : f[k] = G[k][f[J[k]]]
  <2>1. last(n + 1) \in S2
    BY <1>1, <1>2
  <2> HIDE DEF G, J
  <2>2. Leaps(n, S2, last(n + 1), J, G)
    BY <1>1, <1>6, <1>7, <2>1, LeapFrom
  <2> QED
    BY <2>2, Zenon DEF Leaps
<1> DEFINE Def(g) == [k \in 1 .. n + 1 |-> IF ends(k) = {} THEN last(k) ELSE head(k) \o g[next(k) + 1]]
           from == CHOOSE g : g = Def(g)
<1>9. f = Def(f)
  <2>1. ASSUME NEW k \in 1 .. n + 1
        PROVE  f[k] = IF ends(k) = {} THEN last(k) ELSE head(k) \o f[next(k) + 1]
    <3>1. CASE k = n + 1
      <4>1. ends(k) = {}
        BY <1>1, <1>3, <3>1
      <4> QED
        BY <1>8, <3>1, <4>1
    <3>2. CASE k # n + 1
      <4>1. k \in 1 .. n /\ J[k] \in 1 .. n + 1 /\ J[k] = IF ends(k) = {} THEN n + 1 ELSE next(k) + 1
        BY <1>1, <1>7, <3>2
      <4>2. f[k] = Put(k, f[J[k]])
        <5>1. f[J[k]] \in S2
          BY <4>1
        <5> HIDE DEF J
        <5> QED
          BY <1>8, <4>1, <5>1
      <4> HIDE DEF J
      <4> QED
        BY <4>1, <4>2, Zenon DEF Put
    <3> QED
      BY <3>1, <3>2
  <2> QED
    BY <1>8, <2>1
<1>10. Lines(text) = from[1] /\ from = Def(from)
  <2>1. Lines(text) = from[1]
    BY Zenon DEF Lines, n, ends, next, last, head
  <2> HIDE DEF Def
  <2>2. from = Def(from)
    BY <1>9
  <2> QED
    BY <2>1, <2>2
<1> HIDE DEF from
<1>11. \A k \in 1 .. n + 1 : from[k] = IF ends(k) = {} THEN last(k) ELSE head(k) \o from[next(k) + 1]
    BY <1>10, Zenon
<1> DEFINE Good(k) == from[k] \in S2 /\ Words(FlattenSeq(from[k])) = Words(SubSeq(text, k, n))
           T == {k \in 1 .. n + 1 : Good(k)}
<1>12. ASSUME NEW k \in 1 .. n + 1, (k + 1 .. n + 1) \subseteq T PROVE k \in T
  <2>1. CASE ends(k) = {}
    <3> DEFINE x == SubSeq(text, k, n)
    <3>1. from[k] = <<x>>
      BY <1>11, <2>1 DEF last
    <3>2. x \in Seq(S)
      BY <1>1 DEF n
    <3> HIDE DEF x
    <3>3. FlattenSeq(from[k]) = x /\ from[k] \in S2
      BY <3>1, <3>2, FlattenOne DEF S2
    <3> QED
      BY <3>3 DEF x
  <2>2. CASE ends(k) # {}
    <3> DEFINE i == next(k)
               rest == from[i + 1]
               x == SubSeq(text, k, i - 1)
               y == SubSeq(text, i + 1, n)
    <3>1. i \in k .. n /\ text[i] = NewLine /\ i \in 1 .. n /\ i + 1 \in k + 1 .. n + 1
      BY <1>1, <1>3, <2>2
    <3>2. from[k] = <<x>> \o rest
      BY <1>11, <2>2, Zenon DEF head
    <3> HIDE DEF i
    <3>3. i + 1 \in T
      BY <1>12, <3>1
    <3>4. rest \in Seq(Seq(S)) /\ Words(FlattenSeq(rest)) = Words(y)
      BY <3>3 DEF S2
    <3>5. /\ x \in Seq(S) /\ Words(SubSeq(text, k, n)) = Words(x) \o Words(SubSeq(text, i, n))
      <4> DEFINE b == i - 1
      <4>1. k \in 1 .. Len(text) + 1 /\ b \in k - 1 .. Len(text) /\ n \in b .. Len(text) /\ b + 1 = i
        BY <1>1, <3>1 DEF n
      <4> HIDE DEF b, n
      <4>2. SubSeq(text, k, b) \in Seq(S) /\ Words(SubSeq(text, k, n)) = Words(SubSeq(text, k, b)) \o Words(SubSeq(text, b + 1, n))
        BY <4>1, Apart, Zenon
      <4> QED
        BY <4>1, <4>2 DEF b
    <3>6. Words(SubSeq(text, i, n)) = Words(y)
      <4>1. i \in 1 .. Len(text) /\ n \in i .. Len(text) /\ text[i] \in Marks
        BY <1>1, <3>1 DEF n, Marks
      <4> QED
        BY <4>1, AfterMark, Zenon
    <3> HIDE DEF x, y, rest
    <3>7. /\ FlattenSeq(rest) \in Seq(S) /\ <<x>> \o rest \in Seq(Seq(S))
          /\ FlattenSeq(<<x>> \o rest) = x \o FlattenSeq(rest)
      BY <3>4, <3>5, FlattenMore, Zenon
    <3>8. Words(x \o FlattenSeq(rest)) = Words(x) \o Words(FlattenSeq(rest))
      BY <3>5, <3>7, WordsOfBoth, Zenon
    <3>9. Good(k)
      BY <3>2, <3>4, <3>5, <3>6, <3>7, <3>8, Zenon DEF S2
    <3> QED
      BY <3>9
  <2> QED
    BY <2>1, <2>2
<1> HIDE DEF Good, T
<1>13. 1 .. n + 1 \subseteq T
    BY <1>1, <1>12, Downward
<1>14. 1 \in T
    BY <1>1, <1>13
<1>15. Good(1)
    BY <1>14 DEF T
<1>16. SubSeq(text, 1, n) = text
    BY DEF n
<1> QED
    BY <1>10, <1>15, <1>16, Zenon DEF Good, S2

\* A text between two bold marks has the words of what is between them.
LEMMA Stripped ==
    ASSUME NEW S, NEW s \in Seq(S), Len(s) > 0, s[1] = Bold, s[Len(s)] = Bold
    PROVE  /\ SubSeq(s, 2, Len(s) - 1) \in Seq(S)
           /\ Words(SubSeq(s, 2, Len(s) - 1)) = Words(s)
<1> DEFINE n == Len(s)
<1>1. n \in Nat \ {0} /\ SubSeq(s, 1, n) = s /\ SubSeq(s, 2, n - 1) \in Seq(S)
    OBVIOUS
<1>2. Bold \in Marks
    BY DEF Marks
<1>3. 1 \in 1 .. Len(s) /\ n \in 1 .. Len(s)
    BY <1>1
<1>4. Words(SubSeq(s, 1, n)) = Words(SubSeq(s, 2, n))
  <2>1. Words(SubSeq(s, 1, n)) = Words(SubSeq(s, 1 + 1, n))
    BY <1>2, <1>3, AfterMark
  <2>2. 1 + 1 = 2
    OBVIOUS
  <2> QED
    BY <2>1, <2>2, Zenon
<1>5. CASE n = 1
  <2>1. SubSeq(s, 2, n - 1) = <<>> /\ SubSeq(s, 2, n) = <<>>
    BY <1>1, <1>5
  <2> QED
    BY <1>1, <1>4, <2>1
<1>6. CASE n # 1
  <2>1. 2 \in 1 .. n
    BY <1>1, <1>6
  <2>2. Words(SubSeq(s, 2, n)) = Words(SubSeq(s, 2, n - 1))
    BY <1>2, <1>3, <2>1, BeforeMark
  <2> QED
    BY <1>1, <1>4, <2>2
<1> QED
    BY <1>5, <1>6

\* What runs of text are, and their texts.
RunsOf(S) == [text : Seq(S), bold : BOOLEAN]
Texts(runs) == [k \in DOMAIN runs |-> runs[k].text]

LEMMA TextsOne ==
    ASSUME NEW S, NEW run \in RunsOf(S)
    PROVE  <<run>> \in Seq(RunsOf(S)) /\ Texts(<<run>>) = <<run.text>> /\ run.text \in Seq(S)
BY DEF Texts, RunsOf

LEMMA TextsMore ==
    ASSUME NEW S, NEW run \in RunsOf(S), NEW rest \in Seq(RunsOf(S))
    PROVE  /\ <<run>> \o rest \in Seq(RunsOf(S)) /\ Texts(rest) \in Seq(Seq(S))
           /\ Texts(<<run>> \o rest) = <<run.text>> \o Texts(rest)
<1> DEFINE R == RunsOf(S)
           one == <<run>>
           x == <<run.text>>
           y == Texts(rest)
           n == Len(rest)
<1>1. one \in Seq(R) /\ Len(one) = 1 /\ one[1] = run
    OBVIOUS
<1>2. x \in Seq(Seq(S)) /\ Len(x) = 1 /\ x[1] = run.text
    BY DEF RunsOf
<1>3. n \in Nat /\ \A i \in 1 .. n : rest[i] \in R /\ rest[i].text \in Seq(S)
  <2>1. \A r \in R : r.text \in Seq(S)
    BY DEF RunsOf
  <2>2. n \in Nat /\ \A i \in 1 .. n : rest[i] \in R
    OBVIOUS
  <2> HIDE DEF R, n
  <2> QED
    BY <2>1, <2>2
<1>4. y \in Seq(Seq(S)) /\ Len(y) = n /\ \A i \in 1 .. n : y[i] = rest[i].text
    BY <1>3 DEF Texts
<1> HIDE DEF R, one, x, y
<1> DEFINE u == one \o rest
           v == x \o y
<1>5. u \in Seq(R) /\ Joins(u, one, rest)
    BY <1>1, Joined, Zenon DEF R
<1>6. v \in Seq(Seq(S)) /\ Joins(v, x, y)
    BY <1>2, <1>4, Joined, Zenon
<1> HIDE DEF u, v
<1>7. Len(u) = n + 1 /\ DOMAIN u = 1 .. n + 1 /\ u[1] = run /\ \A i \in 1 .. n : u[1 + i] = rest[i]
    BY <1>1, <1>3, <1>5 DEF Joins
<1>8. Len(v) = n + 1 /\ v[1] = run.text /\ \A i \in 1 .. n : v[1 + i] = rest[i].text
    BY <1>2, <1>4, <1>6 DEF Joins
<1>9. Texts(u) = v
  <2>1. ASSUME NEW i \in 1 .. n + 1 PROVE u[i].text = v[i]
    <3>1. CASE i = 1
      BY <1>7, <1>8, <3>1
    <3>2. CASE i # 1
      <4> DEFINE j == i - 1
      <4>1. j \in 1 .. n /\ 1 + j = i
        BY <1>3, <3>2
      <4> HIDE DEF j
      <4>2. u[1 + j] = rest[j] /\ v[1 + j] = rest[j].text
        BY <1>7, <1>8, <4>1, Zenon
      <4> QED
        BY <4>1, <4>2
    <3> QED
      BY <3>1, <3>2
  <2>2. Texts(u) = [i \in 1 .. n + 1 |-> u[i].text]
    BY <1>7, Zenon DEF Texts
  <2>3. v = [i \in 1 .. n + 1 |-> v[i]]
    BY <1>6, <1>8
  <2> QED
    BY <2>1, <2>2, <2>3
<1> QED
    BY <1>4, <1>5, <1>9 DEF R, one, u, v, x, y

LEMMA PlainKeeps ==
    ASSUME NEW S, NEW part \in Seq(S)
    PROVE  Plain(part) \in RunsOf(S) /\ Words(Plain(part).text) = Words(part)
<1>1. CASE part # <<>> /\ Head(part) = Bold /\ Last(part) = Bold
  <2>1. Len(part) > 0 /\ part[1] = Bold /\ part[Len(part)] = Bold
    BY <1>1 DEF Last
  <2> DEFINE x == SubSeq(part, 2, Len(part) - 1)
  <2>2. x \in Seq(S) /\ Words(x) = Words(part)
    BY <2>1, Stripped
  <2>3. Plain(part) = Run(x, TRUE)
    BY <1>1, Zenon DEF Plain
  <2> HIDE DEF x
  <2> QED
    BY <2>2, <2>3 DEF Run, RunsOf
<1>2. CASE ~(part # <<>> /\ Head(part) = Bold /\ Last(part) = Bold)
  <2>1. Plain(part) = Run(part, FALSE)
    BY <1>2, Zenon DEF Plain
  <2> QED
    BY <2>1 DEF Run, RunsOf
<1> QED
    BY <1>1, <1>2

\* A bold part has a mark, some text and another mark.
LEMMA BoldPart ==
    ASSUME NEW S, NEW line \in Seq(S), NEW i \in 1 .. Len(line), BoldEnd(line, i) > 0
    PROVE  /\ line[i] = Bold /\ BoldEnd(line, i) \in i + 2 .. Len(line)
           /\ line[BoldEnd(line, i)] = Bold
<1> DEFINE T == {j \in (i + 1) .. Len(line) : line[j] = Bold}
<1>1. BoldEnd(line, i) = IF line[i] # Bold \/ T = {} \/ i + 1 \in T THEN 0 ELSE Min(T)
    BY Zenon DEF BoldEnd
<1>2. T \in SUBSET Nat /\ Len(line) \in Nat
    OBVIOUS
<1>3. line[i] = Bold /\ T # {} /\ i + 1 \notin T /\ BoldEnd(line, i) = Min(T)
  <2> HIDE DEF T
  <2> QED
    BY <1>1
<1>4. Min(T) \in T
  <2> HIDE DEF T
  <2> QED
    BY <1>2, <1>3, MinOf
<1>5. Min(T) \in i + 1 .. Len(line) /\ line[Min(T)] = Bold /\ Min(T) # i + 1
    BY <1>3, <1>4
<1> HIDE DEF T
<1> QED
    BY <1>2, <1>3, <1>5

LEMMA PartBetween ==
    ASSUME NEW S, NEW s \in Seq(S), NEW a \in 1 .. Len(s) + 1, NEW b \in 0 .. Len(s)
    PROVE  SubSeq(s, a, b) \in Seq(S)
OBVIOUS

\* The runs of a line have its words.
LEMMA RunsKeep ==
    ASSUME NEW S, NEW line \in Seq(S)
    PROVE  Runs(line) \in Seq(RunsOf(S)) /\ Words(FlattenSeq(Texts(Runs(line)))) = Words(line)
<1> DEFINE n == Len(line)
           bold(k) == {i \in k .. n : BoldEnd(line, i) > 0}
           first(k) == Min(bold(k))
           end(k) == BoldEnd(line, first(k))
           front(k) == Plain(SubSeq(line, k, first(k) - 1))
           part(k) == Run(SubSeq(line, first(k) + 1, end(k) - 1), TRUE)
           last(k) == <<Plain(SubSeq(line, k, n))>>
           two(k) == <<front(k), part(k)>>
           S2 == Seq(RunsOf(S))
           Put(k, v) == IF bold(k) = {} THEN last(k) ELSE two(k) \o v
           G == [k \in 1 .. n |-> [v \in S2 |-> Put(k, v)]]
           J == [k \in 1 .. n |-> IF bold(k) = {} THEN n + 1 ELSE end(k) + 1]
<1>1. n \in Nat /\ \A k \in 1 .. n : line[k] \in S
    OBVIOUS
<1>2. ASSUME NEW k \in 1 .. n + 1 PROVE last(k) \in S2
  <2>1. SubSeq(line, k, n) \in Seq(S)
    BY <1>1
  <2>2. Plain(SubSeq(line, k, n)) \in RunsOf(S)
    BY <2>1, PlainKeeps, Zenon
  <2> QED
    BY <2>2
<1>3. ASSUME NEW k \in 1 .. n + 1, bold(k) # {}
      PROVE  /\ first(k) \in k .. n /\ end(k) \in first(k) + 2 .. n
             /\ line[first(k)] = Bold /\ line[end(k)] = Bold
  <2>1. bold(k) \in SUBSET Nat
    BY <1>1
  <2>2. first(k) \in bold(k)
    <3> HIDE DEF bold
    <3> QED
      BY <1>3, <2>1, MinOf
  <2>3. first(k) \in k .. n /\ BoldEnd(line, first(k)) > 0
    BY <2>2
  <2> HIDE DEF first
  <2>4. first(k) \in 1 .. Len(line)
    BY <1>1, <2>3
  <2> QED
    BY <2>3, <2>4, BoldPart
<1>4. ASSUME NEW k \in 1 .. n + 1, bold(k) # {}
      PROVE  front(k) \in RunsOf(S) /\ part(k) \in RunsOf(S)
  <2> HIDE DEF bold, first, end
  <2>3. first(k) \in k .. n /\ end(k) \in first(k) + 2 .. n
    BY <1>3, <1>4
  <2>1. SubSeq(line, k, first(k) - 1) \in Seq(S) /\ SubSeq(line, first(k) + 1, end(k) - 1) \in Seq(S)
    <3> DEFINE b == first(k) - 1
               c == first(k) + 1
               d == end(k) - 1
    <3>1. k \in 1 .. n + 1 /\ b \in 0 .. n /\ c \in 1 .. n + 1 /\ d \in 0 .. n
      BY <1>1, <2>3
    <3> HIDE DEF b, c, d
    <3>2. SubSeq(line, k, b) \in Seq(S) /\ SubSeq(line, c, d) \in Seq(S)
      BY <1>1, <3>1, PartBetween
    <3> QED
      BY <3>2 DEF b, c, d
  <2>2. front(k) \in RunsOf(S)
    BY <2>1, PlainKeeps, Zenon
  <2> QED
    BY <2>1, <2>2 DEF Run, RunsOf
<1> HIDE DEF bold, first, end, front, part, last
<1>5. ASSUME NEW k \in 1 .. n, NEW v \in S2 PROVE Put(k, v) \in S2
  <2>1. CASE bold(k) = {}
    BY <1>1, <1>2, <2>1
  <2>2. CASE bold(k) # {}
    <3>1. two(k) \in S2
      BY <1>1, <1>4, <2>2
    <3> HIDE DEF S2, two
    <3>2. two(k) \o v \in S2
      BY <3>1, ConcatProperties, Zenon DEF S2
    <3> QED
      BY <2>2, <3>2
  <2> QED
    BY <2>1, <2>2
<1> HIDE DEF n, Put, S2, two
<1>6. G \in [1 .. n -> [S2 -> S2]]
    BY <1>5
<1>7. \A k \in 1 .. n : J[k] \in k + 1 .. n + 1
    BY <1>1, <1>3
<1>8. PICK f \in [1 .. n + 1 -> S2] : f[n + 1] = last(n + 1) /\ \A k \in 1 .. n : f[k] = G[k][f[J[k]]]
  <2>1. last(n + 1) \in S2
    BY <1>1, <1>2
  <2> HIDE DEF G, J
  <2>2. Leaps(n, S2, last(n + 1), J, G)
    BY <1>1, <1>6, <1>7, <2>1, LeapFrom
  <2> QED
    BY <2>2, Zenon DEF Leaps
<1> DEFINE Def(g) == [k \in 1 .. n + 1 |-> IF bold(k) = {} THEN last(k) ELSE two(k) \o g[end(k) + 1]]
           from == CHOOSE g : g = Def(g)
<1>9. f = Def(f)
  <2>1. ASSUME NEW k \in 1 .. n + 1
        PROVE  f[k] = IF bold(k) = {} THEN last(k) ELSE two(k) \o f[end(k) + 1]
    <3>1. CASE k = n + 1
      <4>1. bold(k) = {}
        BY <1>1, <1>3, <3>1
      <4> QED
        BY <1>8, <3>1, <4>1
    <3>2. CASE k # n + 1
      <4>1. k \in 1 .. n /\ J[k] \in 1 .. n + 1 /\ J[k] = IF bold(k) = {} THEN n + 1 ELSE end(k) + 1
        BY <1>1, <1>7, <3>2
      <4>2. f[k] = Put(k, f[J[k]])
        <5>1. f[J[k]] \in S2
          BY <4>1
        <5> HIDE DEF J
        <5> QED
          BY <1>8, <4>1, <5>1
      <4> HIDE DEF J
      <4> QED
        BY <4>1, <4>2, Zenon DEF Put
    <3> QED
      BY <3>1, <3>2
  <2> QED
    BY <1>8, <2>1
<1>10. Runs(line) = from[1] /\ from = Def(from)
  <2>1. Runs(line) = from[1]
    BY Zenon DEF Runs, n, bold, first, end, front, part, last, two
  <2> HIDE DEF Def
  <2>2. from = Def(from)
    BY <1>9
  <2> QED
    BY <2>1, <2>2
<1> HIDE DEF from
<1>11. \A k \in 1 .. n + 1 : from[k] = IF bold(k) = {} THEN last(k) ELSE two(k) \o from[end(k) + 1]
    BY <1>10, Zenon
<1> DEFINE Good(k) == from[k] \in S2 /\ Words(FlattenSeq(Texts(from[k]))) = Words(SubSeq(line, k, n))
           T == {k \in 1 .. n + 1 : Good(k)}
<1>12. ASSUME NEW k \in 1 .. n + 1, (k + 1 .. n + 1) \subseteq T PROVE k \in T
  <2>1. CASE bold(k) = {}
    <3> DEFINE x == SubSeq(line, k, n)
               r == Plain(x)
    <3>1. from[k] = <<r>>
      BY <1>11, <2>1 DEF last
    <3>2. x \in Seq(S)
      BY <1>1 DEF n
    <3>3. r \in RunsOf(S) /\ Words(r.text) = Words(x)
      BY <3>2, PlainKeeps, Zenon
    <3> HIDE DEF x, r
    <3>4. from[k] \in S2 /\ Texts(from[k]) = <<r.text>> /\ r.text \in Seq(S)
      BY <3>1, <3>3, TextsOne DEF S2
    <3>5. FlattenSeq(Texts(from[k])) = r.text
      BY <3>4, FlattenOne, Zenon
    <3> QED
      BY <3>3, <3>4, <3>5 DEF x
  <2>2. CASE bold(k) # {}
    <3> DEFINE i == first(k)
               e == end(k)
               a == front(k)
               b == part(k)
               rest == from[e + 1]
               x == SubSeq(line, k, i - 1)
               y == SubSeq(line, i + 1, e - 1)
               z == SubSeq(line, e + 1, n)
    <3>1. i \in k .. n /\ e \in i + 2 .. n /\ line[i] = Bold /\ line[e] = Bold /\ e + 1 \in k + 1 .. n + 1
      BY <1>1, <1>3, <2>2
    <3>2. from[k] = <<a, b>> \o rest
      BY <1>11, <2>2, Zenon DEF two
    <3>3. a = Plain(x) /\ b = Run(y, TRUE)
      BY DEF front, part
    <3>4. a \in RunsOf(S) /\ b \in RunsOf(S)
      BY <1>4, <2>2
    <3> HIDE DEF i, e, a, b
    <3>5. rest \in S2 /\ Words(FlattenSeq(Texts(rest))) = Words(z)
      <4>1. e + 1 \in T
        BY <1>12, <3>1
      <4> QED
        BY <4>1
    <3>6. /\ x \in Seq(S) /\ Words(SubSeq(line, k, n)) = Words(x) \o Words(SubSeq(line, i, n))
      <4> DEFINE c == i - 1
      <4>1. k \in 1 .. Len(line) + 1 /\ c \in k - 1 .. Len(line) /\ n \in c .. Len(line) /\ c + 1 = i
        BY <1>1, <3>1 DEF n
      <4> HIDE DEF c, n
      <4>2. SubSeq(line, k, c) \in Seq(S) /\ Words(SubSeq(line, k, n)) = Words(SubSeq(line, k, c)) \o Words(SubSeq(line, c + 1, n))
        BY <4>1, Apart, Zenon
      <4> QED
        BY <4>1, <4>2 DEF c
    <3>7. Bold \in Marks
      BY DEF Marks
    <3>8. Words(SubSeq(line, i, n)) = Words(SubSeq(line, i + 1, n))
      <4>1. i \in 1 .. Len(line) /\ n \in i .. Len(line) /\ line[i] \in Marks
        BY <1>1, <3>1, <3>7 DEF n
      <4> QED
        BY <4>1, AfterMark, Zenon
    <3>9. y \in Seq(S) /\ Words(SubSeq(line, i + 1, n)) = Words(y) \o Words(SubSeq(line, e, n))
      <4> DEFINE c == e - 1
                 d == i + 1
      <4>1. d \in 1 .. Len(line) + 1 /\ c \in d - 1 .. Len(line) /\ n \in c .. Len(line) /\ c + 1 = e
        BY <1>1, <3>1 DEF n
      <4> HIDE DEF c, d, n
      <4>2. SubSeq(line, d, c) \in Seq(S) /\ Words(SubSeq(line, d, n)) = Words(SubSeq(line, d, c)) \o Words(SubSeq(line, c + 1, n))
        BY <4>1, Apart, Zenon
      <4> QED
        BY <4>1, <4>2 DEF c, d
    <3>10. Words(SubSeq(line, e, n)) = Words(z)
      <4>1. e \in 1 .. Len(line) /\ n \in e .. Len(line) /\ line[e] \in Marks
        BY <1>1, <3>1, <3>7 DEF n
      <4> QED
        BY <4>1, AfterMark, Zenon
    <3>11. Words(a.text) = Words(x) /\ b.text = y /\ a.text \in Seq(S)
      BY <3>3, <3>4, <3>6, PlainKeeps DEF Run, RunsOf
    <3> HIDE DEF x, y, z, rest
    <3> DEFINE more == <<b>> \o rest
               u == Texts(rest)
               v == Texts(more)
    <3>12. from[k] = <<a>> \o more
      <4>1. rest \in Seq(RunsOf(S))
        BY <3>5 DEF S2
      <4>2. <<a, b>> \o rest = <<a>> \o (<<b>> \o rest)
        BY <3>4, <4>1, OneByOne
      <4> QED
        BY <3>2, <4>2, Zenon
    <3>13. more \in Seq(RunsOf(S)) /\ u \in Seq(Seq(S)) /\ v = <<b.text>> \o u
      BY <3>4, <3>5, TextsMore, Zenon DEF S2
    <3> HIDE DEF more
    <3>14. from[k] \in S2 /\ v \in Seq(Seq(S)) /\ Texts(from[k]) = <<a.text>> \o v
      BY <3>4, <3>12, <3>13, TextsMore, Zenon DEF S2
    <3> HIDE DEF u, v
    <3>15. /\ FlattenSeq(u) \in Seq(S) /\ FlattenSeq(v) \in Seq(S)
           /\ FlattenSeq(v) = y \o FlattenSeq(u)
      <4>1. y \in Seq(S) /\ v = <<y>> \o u /\ u \in Seq(Seq(S))
        BY <3>9, <3>11, <3>13
      <4>2. FlattenSeq(u) \in Seq(S) /\ FlattenSeq(<<y>> \o u) = y \o FlattenSeq(u)
        BY <4>1, FlattenMore, Zenon
      <4>3. FlattenSeq(v) \in Seq(S)
        BY <3>11, <3>14, FlattenMore, Zenon
      <4> QED
        BY <4>1, <4>2, <4>3, Zenon
    <3>16. FlattenSeq(Texts(from[k])) = a.text \o FlattenSeq(v)
      BY <3>11, <3>14, FlattenMore, Zenon
    <3>17. /\ Words(a.text \o FlattenSeq(v)) = Words(a.text) \o Words(FlattenSeq(v))
           /\ Words(y \o FlattenSeq(u)) = Words(y) \o Words(FlattenSeq(u))
      <4>1. a.text \in Seq(S) /\ FlattenSeq(v) \in Seq(S)
        BY <3>11, <3>15
      <4>2. Words(a.text \o FlattenSeq(v)) = Words(a.text) \o Words(FlattenSeq(v))
        BY <4>1, WordsOfBoth, Zenon
      <4>3. y \in Seq(S) /\ FlattenSeq(u) \in Seq(S)
        BY <3>9, <3>15
      <4>4. Words(y \o FlattenSeq(u)) = Words(y) \o Words(FlattenSeq(u))
        BY <4>3, WordsOfBoth, Zenon
      <4> QED
        BY <4>2, <4>4
    <3>18. Words(FlattenSeq(u)) = Words(z)
      BY <3>5 DEF u
    <3>19. Words(FlattenSeq(Texts(from[k]))) = Words(SubSeq(line, k, n))
      BY <3>6, <3>8, <3>9, <3>10, <3>11, <3>15, <3>16, <3>17, <3>18, Zenon
    <3> QED
      BY <3>14, <3>19
  <2> QED
    BY <2>1, <2>2
<1> HIDE DEF Good, T
<1>13. 1 .. n + 1 \subseteq T
    BY <1>1, <1>12, Downward
<1>14. 1 \in T
    BY <1>1, <1>13
<1>15. Good(1)
    BY <1>14 DEF T
<1>16. SubSeq(line, 1, n) = line
    BY DEF n
<1> QED
    BY <1>10, <1>15, <1>16, Zenon DEF Good, S2

\* The paragraph of a line has its words.
LEMMA ParagraphKeeps ==
    ASSUME NEW S, NEW line \in Seq(S)
    PROVE  /\ Paragraph(line).runs \in Seq(RunsOf(S))
           /\ Words(FlattenSeq(Texts(Paragraph(line).runs))) = Words(line)
<1> DEFINE Keeps(runs) == runs \in Seq(RunsOf(S)) /\ Words(FlattenSeq(Texts(runs))) = Words(line)
<1>1. ASSUME NEW text \in Seq(S), NEW bold \in BOOLEAN, Words(text) = Words(line)
      PROVE  Keeps(<<Run(text, bold)>>)
  <2> DEFINE run == Run(text, bold)
  <2>1. run \in RunsOf(S) /\ run.text = text
    BY DEF Run, RunsOf
  <2> HIDE DEF run
  <2>2. <<run>> \in Seq(RunsOf(S)) /\ Texts(<<run>>) = <<text>>
    BY <2>1, TextsOne
  <2>3. FlattenSeq(<<text>>) = text
    BY FlattenOne, Zenon
  <2>4. Keeps(<<run>>)
    BY <1>1, <2>2, <2>3, Zenon
  <2> QED
    BY <2>4 DEF run
<1>2. CASE line = <<>>
  <2>1. Paragraph(line).runs = <<>>
    BY <1>2 DEF Paragraph
  <2>2. Texts(<<>>) = <<>>
    BY DEF Texts
  <2>3. <<>> \in Seq(RunsOf(S))
    OBVIOUS
  <2>4. Words(FlattenSeq(Texts(<<>>))) = Words(line)
    BY <1>2, <2>2, FlattenNone, Zenon
  <2> QED
    BY <2>1, <2>3, <2>4, Zenon
<1>3. CASE line # <<>> /\ IsHeading(line)
  <2> DEFINE x == SubSeq(line, 2, Len(line) - 1)
  <2>1. Len(line) > 0 /\ line[1] = Bold /\ line[Len(line)] = Bold
    BY <1>3 DEF IsHeading, Last
  <2>2. x \in Seq(S) /\ Words(x) = Words(line)
    BY <2>1, Stripped
  <2>3. Paragraph(line).runs = <<Run(x, TRUE)>>
    BY <1>3 DEF Paragraph
  <2> HIDE DEF x, Keeps
  <2>4. Keeps(<<Run(x, TRUE)>>)
    BY <1>1, <2>2
  <2> QED
    BY <2>3, <2>4, Zenon DEF Keeps
<1>4. CASE line # <<>> /\ ~IsHeading(line) /\ IsBullet(line)
  <2> DEFINE x == Tail(line)
  <2>1. Len(line) \in Nat \ {0} /\ line[1] = Bullet /\ x \in Seq(S) /\ x = SubSeq(line, 2, Len(line))
    BY <1>4 DEF IsBullet
  <2>2. Words(SubSeq(line, 1, Len(line))) = Words(SubSeq(line, 1 + 1, Len(line)))
    <3>1. 1 \in 1 .. Len(line) /\ Len(line) \in 1 .. Len(line) /\ line[1] \in Marks
      BY <2>1 DEF Marks
    <3> QED
      BY <3>1, AfterMark
  <2>3. SubSeq(line, 1, Len(line)) = line /\ 1 + 1 = 2
    OBVIOUS
  <2>4. Words(x) = Words(line)
    BY <2>1, <2>2, <2>3, Zenon
  <2>5. Paragraph(line).runs = <<Run(x, FALSE)>>
    BY <1>4 DEF Paragraph
  <2> HIDE DEF x, Keeps
  <2>6. Keeps(<<Run(x, FALSE)>>)
    BY <1>1, <2>1, <2>4
  <2> QED
    BY <2>5, <2>6, Zenon DEF Keeps
<1>5. CASE line # <<>> /\ ~IsHeading(line) /\ ~IsBullet(line)
  <2>1. Paragraph(line).runs = Runs(line)
    BY <1>5 DEF Paragraph
  <2> QED
    BY <2>1, RunsKeep, Zenon
<1> QED
    BY <1>2, <1>3, <1>4, <1>5

\* The document of a text reads its words, all of them, in their order.
LEMMA DocumentKeeps ==
    ASSUME NEW S, NEW text \in Seq(S)
    PROVE  Words(Content(Document(text))) = Words(text)
<1> DEFINE lines == Lines(text)
           n == Len(lines)
           read(k) == FlattenSeq(Texts(Paragraph(lines[k]).runs))
           p == [k \in 1 .. n |-> read(k)]
<1>1. /\ lines \in Seq(Seq(S)) /\ Words(FlattenSeq(lines)) = Words(text)
      /\ n \in Nat /\ DOMAIN lines = 1 .. n /\ \A k \in 1 .. n : lines[k] \in Seq(S)
  <2>1. lines \in Seq(Seq(S)) /\ Words(FlattenSeq(lines)) = Words(text)
    BY LinesKeep, Zenon
  <2> HIDE DEF lines
  <2> QED
    BY <2>1
<1> HIDE DEF lines, n
<1>2. ASSUME NEW k \in 1 .. n PROVE read(k) \in Seq(S) /\ Words(read(k)) = Words(lines[k])
  <2> DEFINE line == lines[k]
             runs == Paragraph(line).runs
             texts == Texts(runs)
  <2>1. line \in Seq(S)
    BY <1>1
  <2> HIDE DEF line
  <2>2. runs \in Seq(RunsOf(S)) /\ Words(FlattenSeq(texts)) = Words(line)
    BY <2>1, ParagraphKeeps, Zenon
  <2> HIDE DEF runs
  <2>3. texts \in Seq(Seq(S))
    <3>1. \A r \in RunsOf(S) : r.text \in Seq(S)
      BY DEF RunsOf
    <3>2. Len(runs) \in Nat /\ DOMAIN runs = 1 .. Len(runs) /\ \A i \in 1 .. Len(runs) : runs[i] \in RunsOf(S)
      BY <2>2
    <3>3. texts = [i \in 1 .. Len(runs) |-> runs[i].text]
      BY <3>2 DEF Texts
    <3> HIDE DEF texts
    <3> QED
      BY <3>1, <3>2, <3>3
  <2> HIDE DEF texts
  <2>4. FlattenSeq(texts) \in Seq(S)
    <3>1. CASE texts = <<>>
      <4>1. <<>> \in Seq(S)
        OBVIOUS
      <4> QED
        BY <3>1, <4>1, FlattenNone
    <3>2. CASE texts # <<>>
      BY <2>3, <3>2, FlattenIs, Zenon
    <3> QED
      BY <3>1, <3>2
  <2> QED
    BY <2>2, <2>4 DEF texts, runs, line
<1> HIDE DEF read
<1>3. p \in Seq(Seq(S)) /\ Len(p) = n /\ \A k \in 1 .. n : p[k] = read(k)
    BY <1>1, <1>2
<1>4. Content(Document(text)) = FlattenSeq(p)
  <2> DEFINE doc == Document(text)
             texts(k) == FlattenSeq([i \in DOMAIN doc[k].runs |-> doc[k].runs[i].text])
  <2>1. doc = [k \in 1 .. n |-> Paragraph(lines[k])]
    <3>1. doc = [k \in DOMAIN lines |-> Paragraph(lines[k])]
      BY Zenon DEF Document, lines
    <3> QED
      BY <1>1, <3>1, Zenon
  <2> HIDE DEF doc
  <2>2. ASSUME NEW k \in 1 .. n PROVE texts(k) = read(k)
    <3>1. doc[k] = Paragraph(lines[k])
      BY <2>1
    <3> QED
      BY <3>1, Zenon DEF read, Texts
  <2>3. Content(doc) = FlattenSeq([k \in DOMAIN doc |-> texts(k)])
    BY Zenon DEF Content
  <2> HIDE DEF texts
  <2>4. [k \in DOMAIN doc |-> texts(k)] = p
    BY <2>1, <2>2
  <2>5. Content(doc) = FlattenSeq(p)
    BY <2>3, <2>4, Zenon
  <2> QED
    BY <2>5 DEF doc
<1>5. Words(FlattenSeq(p)) = Words(FlattenSeq(lines))
  <2> HIDE DEF p
  <2>1. Len(p) = Len(lines) /\ \A i \in 1 .. Len(p) : Words(p[i]) = Words(lines[i])
    BY <1>2, <1>3 DEF n
  <2> QED
    BY <1>1, <1>3, <2>1, SameWords, Zenon
<1> QED
    BY <1>1, <1>4, <1>5, Zenon

-----------------------------------------------------------------------------
(* The export of an answer that is being streamed, saved or deleted.       *)

\* What the tokens read, and the text of an error.
Readings == STRING \cup {"error"}

\* What an answer with the status at may read: nothing while it is pending; once its stream
\* has stopped what came, or without blanks at its ends, or the error if it is blank.
Sound(at, text) ==
    /\ at = "PENDING" => text = <<>>
    /\ at # "PENDING" => step \in {"done", "broken"}
    /\ at = "SUCCESS" => text = TextOf(yielded)
    /\ at = "FAILED" => text = FailedText

Statuses == {"PENDING", "SUCCESS", "FAILED"}

Requests == [of : {"none", "answer", "question"},
             step : {"idle", "finding", "checking", "done", "refused"},
             text : Seq(Readings), status : Statuses]

\* The answer is what its status lets it be, and what an export holds of it is what it was
\* when it was found.
ExportInv ==
    /\ yielded \in Seq(Tokens)
    /\ status \in Statuses
    /\ content \in Seq(Readings)
    /\ Sound(status, content)
    /\ export \in Requests
    /\ export.step \in {"checking", "done"} => Sound(export.status, export.text)

LEMMA WiderReadings == ASSUME NEW s \in Seq(STRING) PROVE s \in Seq(Readings)
BY DEF Readings

LEMMA TextOfTokens ==
    ASSUME NEW tokens \in Seq(Tokens)
    PROVE  TextOf(tokens) \in Seq(Readings)
<1> DEFINE n == Len(tokens)
           part(i) == Text[tokens[i]]
           parts == [i \in 1 .. n |-> part(i)]
<1>1. n \in Nat /\ DOMAIN tokens = 1 .. n /\ \A i \in 1 .. n : tokens[i] \in Tokens
    OBVIOUS
<1>2. ASSUME NEW i \in 1 .. n PROVE part(i) \in Seq(Readings)
  <2>1. part(i) \in Seq(STRING)
    BY <1>1, ReadingAssumption
  <2> QED
    BY <2>1, WiderReadings, Zenon
<1>3. TextOf(tokens) = FlattenSeq(parts)
  <2>1. TextOf(tokens) = FlattenSeq([i \in DOMAIN tokens |-> part(i)])
    BY Zenon DEF TextOf
  <2> QED
    BY <1>1, <2>1, Zenon
<1> HIDE DEF n, part
<1>4. parts \in Seq(Seq(Readings))
    BY <1>1, <1>2
<1> HIDE DEF parts
<1>5. CASE parts = <<>>
  <2>1. <<>> \in Seq(Readings)
    OBVIOUS
  <2> QED
    BY <1>3, <1>5, <2>1, FlattenNone
<1>6. CASE parts # <<>>
  <2>1. FlattenSeq(parts) \in Seq(Readings)
    BY <1>4, <1>6, FlattenIs, Zenon
  <2> QED
    BY <1>3, <2>1, Zenon
<1> QED
    BY <1>5, <1>6

\* A part that is all marks has no words.
LEMMA MarksOnly ==
    ASSUME NEW S, NEW s \in Seq(S), NEW a \in 1 .. Len(s) + 1, NEW c \in a - 1 .. Len(s),
           \A i \in a .. c : s[i] \in Marks
    PROVE  Words(SubSeq(s, a, c)) = <<>>
<1> DEFINE T == {k \in 1 .. c + 1 : k >= a => Words(SubSeq(s, k, c)) = <<>>}
<1>1. Len(s) \in Nat /\ a \in Nat /\ c \in Nat /\ a <= c + 1 /\ c <= Len(s) /\ a >= 1
    OBVIOUS
<1>2. ASSUME NEW k \in 1 .. c + 1, (k + 1 .. c + 1) \subseteq T PROVE k \in T
  <2>1. CASE k = c + 1
    <3>1. SubSeq(s, k, c) = <<>>
      BY <1>1, <2>1
    <3>2. Words(<<>>) = <<>>
      BY WordsOfOne
    <3> QED
      BY <3>1, <3>2
  <2>2. CASE k # c + 1 /\ k >= a
    <3>1. k \in 1 .. Len(s) /\ c \in k .. Len(s) /\ k \in a .. c /\ k + 1 \in k + 1 .. c + 1 /\ k + 1 >= a
      BY <1>1, <2>2
    <3>2. Words(SubSeq(s, k, c)) = Words(SubSeq(s, k + 1, c))
      BY <3>1, AfterMark
    <3>3. Words(SubSeq(s, k + 1, c)) = <<>>
      BY <1>2, <3>1
    <3> QED
      BY <3>2, <3>3
  <2> QED
    BY <2>1, <2>2
<1> HIDE DEF T
<1>3. 1 .. c + 1 \subseteq T
    BY <1>1, <1>2, Downward
<1>4. a \in T
    BY <1>1, <1>3
<1> QED
    BY <1>1, <1>4 DEF T

LEMMA MaxOf ==
    ASSUME NEW n \in Nat, NEW T \in SUBSET (1 .. n), T # {}
    PROVE  Max(T) \in T /\ \A x \in T : Max(T) >= x
<1> DEFINE R == {n - x : x \in T}
<1>1. R \in SUBSET Nat /\ R # {}
  <2>1. \A x \in T : n - x \in Nat
    OBVIOUS
  <2> QED
    BY <2>1
<1>2. PICK r \in R : \A y \in R : r <= y
    BY <1>1, LeastNatural
<1>3. PICK x \in T : r = n - x
    OBVIOUS
<1>4. ASSUME NEW y \in T PROVE x >= y
  <2>1. r <= n - y
    BY <1>2
  <2> QED
    BY <1>3, <2>1
<1> QED
    BY <1>3, <1>4 DEF Max

\* trim takes no words away.
LEMMA TrimKeeps ==
    ASSUME NEW S, NEW s \in Seq(S)
    PROVE  Trimmed(s) \in Seq(S) /\ Words(Trimmed(s)) = Words(s)
<1> DEFINE n == Len(s)
           kept == {i \in DOMAIN s : s[i] # NewLine}
           lo == Min(kept)
           hi == Max(kept)
<1>1. n \in Nat /\ kept \in SUBSET (1 .. n) /\ kept \in SUBSET Nat
    OBVIOUS
<1>2. \A i \in 1 .. n : i \notin kept => s[i] \in Marks
    BY DEF Marks
<1>3. Words(s) = Words(SubSeq(s, 1, n))
  <2>1. SubSeq(s, 1, n) = s
    OBVIOUS
  <2> QED
    BY <2>1
<1>4. Trimmed(s) = IF kept = {} THEN <<>> ELSE SubSeq(s, lo, hi)
    BY Zenon DEF Trimmed
<1> HIDE DEF n, kept
<1>5. CASE kept = {}
  <2>1. 1 \in 1 .. Len(s) + 1 /\ n \in 1 - 1 .. Len(s)
    BY <1>1 DEF n
  <2>2. \A i \in 1 .. n : s[i] \in Marks
    BY <1>2, <1>5
  <2>3. Words(SubSeq(s, 1, n)) = <<>>
    BY <2>1, <2>2, MarksOnly
  <2>4. Words(<<>>) = <<>>
    BY WordsOfOne
  <2>5. <<>> \in Seq(S)
    OBVIOUS
  <2> QED
    BY <1>3, <1>4, <1>5, <2>3, <2>4, <2>5
<1>6. CASE kept # {}
  <2>1. lo \in kept /\ \A x \in kept : lo <= x
    BY <1>1, <1>6, MinOf
  <2>2. hi \in kept /\ \A x \in kept : hi >= x
    BY <1>1, <1>6, MaxOf
  <2> HIDE DEF lo, hi
  <2>3. lo \in 1 .. n /\ hi \in lo .. n
    BY <1>1, <2>1, <2>2
  <2>4. Words(SubSeq(s, 1, lo - 1)) = <<>>
    <3>1. lo - 1 \in 1 - 1 .. Len(s) /\ 1 \in 1 .. Len(s) + 1
      BY <1>1, <2>3 DEF n
    <3>2. \A i \in 1 .. lo - 1 : s[i] \in Marks
      BY <1>1, <1>2, <2>1, <2>3
    <3> QED
      BY <3>1, <3>2, MarksOnly
  <2>5. Words(SubSeq(s, hi + 1, n)) = <<>>
    <3>1. hi + 1 \in 1 .. Len(s) + 1 /\ n \in (hi + 1) - 1 .. Len(s)
      BY <1>1, <2>3 DEF n
    <3>2. \A i \in hi + 1 .. n : s[i] \in Marks
      BY <1>1, <1>2, <2>2, <2>3
    <3> QED
      BY <3>1, <3>2, MarksOnly
  <2> DEFINE all == Words(SubSeq(s, 1, n))
             rest == Words(SubSeq(s, lo, n))
             middle == Words(SubSeq(s, lo, hi))
  <2>6. all = <<>> \o rest /\ rest \in Seq(S)
    <3> DEFINE b == lo - 1
    <3>1. 1 \in 1 .. Len(s) + 1 /\ b \in 1 - 1 .. Len(s) /\ n \in b .. Len(s) /\ b + 1 = lo
      BY <1>1, <2>3 DEF n
    <3> HIDE DEF b
    <3>2. /\ Words(SubSeq(s, 1, n)) = Words(SubSeq(s, 1, b)) \o Words(SubSeq(s, b + 1, n))
          /\ Words(SubSeq(s, b + 1, n)) \in Seq(S)
      BY <3>1, Apart
    <3> QED
      BY <2>4, <3>1, <3>2 DEF b
  <2>7. rest = middle \o <<>> /\ middle \in Seq(S) /\ SubSeq(s, lo, hi) \in Seq(S)
    <3>1. lo \in 1 .. Len(s) + 1 /\ hi \in lo - 1 .. Len(s) /\ n \in hi .. Len(s)
      BY <1>1, <2>3 DEF n
    <3>2. /\ Words(SubSeq(s, lo, n)) = Words(SubSeq(s, lo, hi)) \o Words(SubSeq(s, hi + 1, n))
          /\ Words(SubSeq(s, lo, hi)) \in Seq(S) /\ SubSeq(s, lo, hi) \in Seq(S)
      BY <3>1, Apart
    <3> QED
      BY <2>5, <3>2
  <2> HIDE DEF all, rest, middle
  <2>8. all = rest /\ rest = middle
    BY <2>6, <2>7
  <2> QED
    BY <1>3, <1>4, <1>6, <2>7, <2>8, Zenon DEF all, middle
<1> QED
    BY <1>5, <1>6

LEMMA ErrorReads == ErrorText \in Seq(Readings) /\ Words(ErrorText) = ErrorText
<1>1. "error" \in Readings /\ "error" \notin Marks
    BY DEF Readings, Marks, Bold, Bullet, NewLine
<1> DEFINE word == "error"
<1>2. Words(<<word>>) = <<word>>
    BY <1>1, WordsOfOne
<1>3. <<word>> \in Seq(Readings)
    BY <1>1
<1> QED
    BY <1>2, <1>3, Zenon DEF ErrorText

\* The text of a failed answer has the words that came, or is the error if there are none.
LEMMA FailedReads ==
    ASSUME yielded \in Seq(Tokens)
    PROVE  /\ FailedText \in Seq(Readings)
           /\ \/ Words(FailedText) = Words(TextOf(yielded))
              \/ Words(TextOf(yielded)) = <<>> /\ Words(FailedText) = ErrorText
<1> DEFINE text == TextOf(yielded)
<1>1. text \in Seq(Readings)
    BY TextOfTokens, Zenon
<1> HIDE DEF text
<1>2. Trimmed(text) \in Seq(Readings) /\ Words(Trimmed(text)) = Words(text)
    BY <1>1, TrimKeeps, Zenon
<1>3. FailedText = IF Trimmed(text) = <<>> THEN ErrorText ELSE Trimmed(text)
    BY Zenon DEF FailedText, text
<1>4. Words(<<>>) = <<>>
    BY WordsOfOne
<1>5. CASE Trimmed(text) = <<>>
    BY <1>2, <1>3, <1>4, <1>5, ErrorReads, Zenon DEF text
<1>6. CASE Trimmed(text) # <<>>
    BY <1>2, <1>3, <1>6, Zenon DEF text
<1> QED
    BY <1>5, <1>6

LEMMA ExportStart == Init => ExportInv
<1> SUFFICES ASSUME Init PROVE ExportInv
    OBVIOUS
<1>1. yielded = <<>> /\ status = "PENDING" /\ content = <<>> /\ export = NoExport
    BY DEF Init, Events!Init
<1>2. <<>> \in Seq(Tokens) /\ <<>> \in Seq(Readings)
    OBVIOUS
<1> QED
    BY <1>1, <1>2 DEF ExportInv, NoExport, Requests, Sound, Statuses

\* Nothing is yielded after the stream has stopped.
LEMMA StreamYields ==
    ASSUME ExportInv, Events!Next
    PROVE  step \notin {"done", "broken"} /\ yielded' \in Seq(Tokens)
<1>1. yielded \in Seq(Tokens)
    BY DEF ExportInv
<1>2. CASE Events!TakeBlock
  <2>1. PICK line : yielded' = IF line \in Tokens THEN Append(yielded, line) ELSE yielded
    BY <1>2 DEF Events!TakeBlock
  <2> QED
    BY <1>1, <1>2, <2>1 DEF Events!TakeBlock
<1>3. CASE \E n \in 1 .. Len(body) : Events!Read(n)
    BY <1>1, <1>3 DEF Events!Read
<1>4. CASE Events!ReadEnd
    BY <1>1, <1>4 DEF Events!ReadEnd
<1>5. CASE Events!NoBlock
    BY <1>1, <1>5 DEF Events!NoBlock
<1>6. CASE Events!Break
    BY <1>1, <1>6 DEF Events!Break
<1> QED
    BY <1>2, <1>3, <1>4, <1>5, <1>6, Zenon DEF Events!Next

LEMMA ExportStreams ==
    ASSUME ExportInv, Stream
    PROVE  ExportInv'
<1>1. status' = status /\ content' = content /\ export' = export
    BY DEF Stream, messageVars
<1>2. step \notin {"done", "broken"} /\ yielded' \in Seq(Tokens)
    BY StreamYields DEF Stream
<1>3. status = "PENDING" /\ content = <<>>
    BY <1>2, Zenon DEF ExportInv, Sound
<1>4. export.step \in {"checking", "done"} => export.status = "PENDING" /\ export.text = <<>>
    BY <1>2, Zenon DEF ExportInv, Sound
<1>5. Sound(status, content)' /\ (export.step \in {"checking", "done"} => Sound(export.status, export.text))'
    BY <1>1, <1>3, <1>4 DEF Sound
<1> QED
    BY <1>1, <1>2, <1>5 DEF ExportInv

LEMMA ExportSaves ==
    ASSUME ExportInv, SaveAnswer \/ SaveFailure
    PROVE  ExportInv'
<1>1. /\ step \in {"done", "broken"} /\ UNCHANGED eventVars /\ export' = export
      /\ \/ status' = "SUCCESS" /\ content' = TextOf(yielded)
         \/ status' = "FAILED" /\ content' = FailedText
    BY DEF SaveAnswer, SaveFailure
<1>2. yielded' = yielded /\ step' = step /\ yielded \in Seq(Tokens) /\ export \in Requests
    BY <1>1 DEF eventVars, ExportInv
<1>3. FailedText' = FailedText /\ TextOf(yielded)' = TextOf(yielded)
    BY <1>2 DEF FailedText, TextOf, Trimmed, ErrorText
<1>4. content' \in Seq(Readings) /\ status' \in Statuses
  <2>1. TextOf(yielded) \in Seq(Readings)
    BY <1>2, TextOfTokens, Zenon
  <2>2. FailedText \in Seq(Readings)
    BY <1>2, FailedReads
  <2> QED
    BY <1>1, <2>1, <2>2, Zenon DEF Statuses
<1>5. Sound(status, content)'
    BY <1>1, <1>2, <1>3 DEF Sound
<1>6. export.step \in {"checking", "done"} => Sound(export.status, export.text)'
  <2>1. export.step \in {"checking", "done"} => Sound(export.status, export.text)
    BY DEF ExportInv
  <2> QED
    BY <1>1, <1>2, <1>3, <2>1 DEF Sound
<1> QED
    BY <1>1, <1>2, <1>4, <1>5, <1>6 DEF ExportInv

\* The answer stays as it is; the request may not.
LEMMA ExportAsks ==
    ASSUME ExportInv, UNCHANGED eventVars, status' = status, content' = content, export' \in Requests,
           export'.step \in {"checking", "done"} => Sound(export'.status, export'.text)
    PROVE  ExportInv'
<1>1. yielded' = yielded /\ step' = step
    BY DEF eventVars
<1>2. FailedText' = FailedText /\ TextOf(yielded)' = TextOf(yielded)
    BY <1>1 DEF FailedText, TextOf, Trimmed, ErrorText
<1>3. yielded \in Seq(Tokens) /\ status \in Statuses /\ content \in Seq(Readings) /\ Sound(status, content)
    BY DEF ExportInv
<1>4. Sound(status, content)'
    BY <1>1, <1>2, <1>3 DEF Sound
<1>5. (export.step \in {"checking", "done"} => Sound(export.status, export.text))'
    BY <1>1, <1>2 DEF Sound
<1> QED
    BY <1>1, <1>3, <1>4, <1>5 DEF ExportInv

\* What an export holds of an answer is what the answer was when it was found: nothing, the
\* whole of it, or what a failure left (message.service.ts:287-364, message.controller.ts:262-266).
THEOREM ExportHolds == Spec => []ExportInv
<1>1. Init => ExportInv
    BY ExportStart, Zenon
<1>2. ExportInv /\ [Next]_vars => ExportInv'
  <2> SUFFICES ASSUME ExportInv, [Next]_vars PROVE ExportInv'
    OBVIOUS
  <2>1. /\ export \in Requests /\ content \in Seq(Readings) /\ status \in Statuses
        /\ Sound(status, content)
        /\ export.step \in {"checking", "done"} => Sound(export.status, export.text)
    BY DEF ExportInv
  <2>2. CASE Walk \/ DeleteConversation \/ UNCHANGED vars
    <3>1. UNCHANGED eventVars /\ status' = status /\ content' = content /\ export' = export
      BY <2>2 DEF Walk, DeleteConversation, vars, eventVars, messageVars
    <3> QED
      BY <2>1, <3>1, ExportAsks, Zenon
  <2>3. CASE Stream
    BY <2>3, ExportStreams, Zenon
  <2>4. CASE SaveAnswer \/ SaveFailure
    BY <2>4, ExportSaves, Zenon
  <2>5. CASE Ask
    <3>1. PICK of \in {"answer", "question"} : export' = [NoExport EXCEPT !.of = of, !.step = "finding"]
      BY <2>5, Zenon DEF Ask
    <3>2. <<>> \in Seq(Readings)
      OBVIOUS
    <3>3. export' \in Requests /\ export'.step = "finding"
      BY <3>1, <3>2 DEF Requests, NoExport, Statuses
    <3> QED
      BY <2>5, <3>3, ExportAsks DEF Ask
  <2>6. CASE FindMessage
    <3>1. UNCHANGED eventVars /\ status' = status /\ content' = content
      BY <2>6 DEF FindMessage
    <3>2. CASE present
      <4>1. export' = [export EXCEPT !.step = "checking", !.text = content, !.status = status]
        BY <2>6, <3>2 DEF FindMessage
      <4>2. export' \in Requests /\ export'.text = content /\ export'.status = status
        BY <2>1, <4>1 DEF Requests
      <4> QED
        BY <2>1, <3>1, <4>2, ExportAsks, Zenon
    <3>3. CASE ~present
      <4>1. export' = [export EXCEPT !.step = "refused"]
        BY <2>6, <3>3 DEF FindMessage
      <4>2. export' \in Requests /\ export'.step = "refused"
        BY <2>1, <4>1 DEF Requests
      <4> QED
        BY <3>1, <4>2, ExportAsks
    <3> QED
      BY <3>2, <3>3
  <2>7. CASE FindConversation
    <3>1. /\ UNCHANGED eventVars /\ status' = status /\ content' = content
          /\ export.step = "checking"
          /\ \E at \in {"done", "refused"} : export' = [export EXCEPT !.step = at]
      BY <2>7 DEF FindConversation
    <3>2. PICK at \in {"done", "refused"} : export' = [export EXCEPT !.step = at]
      BY <3>1
    <3>3. export' \in Requests /\ export'.text = export.text /\ export'.status = export.status
      BY <2>1, <3>2 DEF Requests
    <3> QED
      BY <2>1, <3>1, <3>3, ExportAsks, Zenon
  <2> QED
    BY <2>2, <2>3, <2>4, <2>5, <2>6, <2>7, Zenon DEF Next
<1> QED
    BY <1>1, <1>2, PTL DEF Spec

\* The document of an answer that came through reads every word that was sent, in order,
\* however the tokens cut marks and lines, and whatever is saved or deleted while it is
\* exported; that of a failed answer the words that came, or the error alone if none came,
\* also when the stream had ended and only the save was refused; and an answer that was not
\* saved yet makes an empty one (message.service.ts:248-364, message.controller.ts:120-198).
THEOREM DocumentReadsTheAnswer == Spec => []DocumentIsTheAnswer
<1>1. ASSUME ExportInv, StreamInv PROVE DocumentIsTheAnswer
  <2> DEFINE text == export.text
             read == Words(Content(Document(text)))
             came == Words(TextOf(IF step = "done" THEN Events!Sent ELSE yielded))
  <2> SUFFICES ASSUME export.step = "done"
               PROVE  \/ export.status = "PENDING" /\ read = <<>>
                      \/ export.status # "PENDING" /\ read = came
                      \/ export.status = "FAILED" /\ came = <<>> /\ read = ErrorText
    BY Zenon DEF DocumentIsTheAnswer
  <2>1. text \in Seq(Readings) /\ yielded \in Seq(Tokens) /\ export.status \in Statuses
    BY <1>1 DEF ExportInv, Requests
  <2>2. Sound(export.status, text)
    BY <1>1 DEF ExportInv
  <2> HIDE DEF text
  <2>3. read = Words(text)
    BY <2>1, DocumentKeeps, Zenon
  <2>4. came = Words(TextOf(yielded))
    <3>1. step = "done" => yielded = Events!Sent
      BY <1>1, Zenon DEF StreamInv
    <3> QED
      BY <3>1, Zenon
  <2> HIDE DEF read, came
  <2>5. CASE export.status = "PENDING"
    <3>1. Words(<<>>) = <<>>
      BY WordsOfOne
    <3> QED
      BY <2>2, <2>3, <2>5, <3>1, Zenon DEF Sound
  <2>6. CASE export.status = "SUCCESS"
    <3>1. export.status # "PENDING"
      BY <2>6
    <3> QED
      BY <2>2, <2>3, <2>4, <2>6, <3>1, Zenon DEF Sound
  <2>7. CASE export.status = "FAILED"
    <3>1. export.status # "PENDING" /\ text = FailedText
      BY <2>2, <2>7 DEF Sound
    <3> QED
      BY <2>1, <2>3, <2>4, <2>7, <3>1, FailedReads, Zenon
  <2> QED
    BY <2>1, <2>5, <2>6, <2>7, Zenon DEF Statuses
<1> QED
  <2>1. ExportInv /\ StreamInv => DocumentIsTheAnswer
    BY <1>1
  <2> QED
    BY <2>1, StreamStands, ExportHolds, PTL

=============================================================================
