------------------------------- MODULE Pages -------------------------------
(***************************************************************************)
(* A client walks through a list page by page, while rows of the list are  *)
(* created, deleted, renamed and moved.  The lists and their keys:         *)
(*                                                                         *)
(*   "conversations"  a cursor, by updatedAt, which every message moves    *)
(*   "attachments"    a cursor, by createdAt, which never changes          *)
(*   "users"          page numbers, by createdAt without a second key      *)
(*   "groups"         the same                                             *)
(*   "members"        page numbers, by the name without a second key       *)
(*                                                                         *)
(* A step is one query.  Ids are random, so a later row may have a smaller *)
(* one.  A date is taken in the process before the write that carries it,  *)
(* so that a write may come with the date of another one before it, or     *)
(* with an older one: dates are not ordered by a clock here, only the date *)
(* of a change by the one its row was born with.  Names are keys of the    *)
(* same numbers, in the opposite order.                                    *)
(***************************************************************************)
EXTENDS SequencesExt, FiniteSets, Integers

CONSTANTS
    Listings,  \* the kinds of lists that are walked through
    Ids,       \* the ids a row may have
    Limit,     \* the size of a page
    MaxTime,   \* the last date, and the last name
    MaxChanges \* how often the list changes during a walk

PagesAssumption ==
    /\ Listings \subseteq {"conversations", "attachments", "users", "groups", "members"}
    /\ Ids \subseteq Nat /\ IsFiniteSet(Ids)
    /\ Limit \in Nat \ {0}
    /\ MaxTime \in Nat
    /\ MaxChanges \in Nat

VARIABLES
    listing,     \* the kind of the list
    table,       \* its rows: id, key, the date it was born with, and whether the search of the walk matches
    walk,        \* where the client stands
    changes,     \* how often the list has changed
    shown,       \* the ids the client was shown, in order
    steady,      \* history: rows that matched when the walk began and were left alone since
    moved,       \* history: the row at the cursor has got another key
    fallen,      \* history: a row that was shown has got a smaller key
    lost,        \* history: the row at the cursor was gone when the server looked for it
    shifted      \* history: other rows are in front of the end of a page, or a tie lies across it

vars == <<listing, table, walk, changes, shown, steady, moved, fallen, lost, shifted>>

Row(i) == CHOOSE row \in table : row.id = i

Present == {row.id : row \in table}

Matching == {row \in table : row.match}

\* No row is at the cursor before the first page; NoKey is what a walk has not read.
NoCursor == -1
NoKey == -1

Numbered == {"users", "groups", "members"}

\* Dates and names.
Keys == 0..MaxTime

Init ==
    /\ listing \in Listings
    /\ table \in {t \in SUBSET [id : Ids, key : Keys, match : BOOLEAN, born : {0}] :
                     \A x, y \in t : x.id = y.id => x = y}
    /\ walk = [step |-> "asking", cursor |-> NoCursor, key |-> NoKey, page |-> 1, total |-> -1]
    /\ changes = 0
    /\ shown = <<>>
    /\ steady = {row.id : row \in Matching}
    /\ moved = FALSE
    /\ fallen = FALSE
    /\ lost = FALSE
    /\ shifted = FALSE

-----------------------------------------------------------------------------
(* Queries.                                                                *)

\* orderBy: the key, latest first, and the id, largest first.
Before(x, y) == x.key > y.key \/ (x.key = y.key /\ x.id > y.id)

BelowMutant(rows, at) == {row \in rows : ~Before(row, at)}

\* The where clause of findManyCursor, and what Prisma makes of cursor and skip.
Below(rows, at) == {row \in rows : Before(at, row)}

\* The orders a query may answer in.  Without a second key rows that share their key come
\* in any order, in another one for every query.
Answers(rows) ==
    {answer \in SetToSeqs(rows) :
        \A i, j \in DOMAIN answer :
            i < j => IF listing \in Numbered THEN answer[i].key >= answer[j].key ELSE Before(answer[i], answer[j])}

FirstOf(answer, n) == SubSeq(answer, 1, IF Len(answer) < n THEN Len(answer) ELSE n)

IdsIn(answer) == [i \in DOMAIN answer |-> answer[i].id]

\* buildCursorPaginatedResult: one row more than the page tells that there is a next one.
NextCursor(answer) == answer[Limit].id

\* The client is shown a page, and asks for the next while there is one.
ShowCursorPage(answer) ==
    /\ shown' = shown \o IdsIn(FirstOf(answer, Limit))
    /\ walk' = IF Len(answer) > Limit
               THEN [walk EXCEPT !.step = "asking", !.cursor = NextCursor(answer), !.key = NoKey]
               ELSE [walk EXCEPT !.step = "done"]

Unfound ==
    /\ walk' = [walk EXCEPT !.step = "done"]
    /\ lost' = TRUE
    /\ UNCHANGED shown

\* The first query of findManyCursor: the row at the cursor, if it still matches the search.
LookUpCursor ==
    /\ listing = "conversations"
    /\ walk.step = "asking"
    /\ walk.cursor # NoCursor
    /\ IF \E row \in Matching : row.id = walk.cursor
       THEN /\ walk' = [walk EXCEPT !.step = "reading", !.key = Row(walk.cursor).key]
            /\ UNCHANGED <<shown, lost>>
       ELSE Unfound
    /\ UNCHANGED <<listing, table, changes, steady, moved, fallen, shifted>>

\* The second query, by the key that the first one read.
ReadConversations ==
    /\ listing = "conversations"
    /\ \/ walk.step = "reading"
       \/ walk.step = "asking" /\ walk.cursor = NoCursor
    /\ \E answer \in Answers(IF walk.step = "reading"
                             THEN Below(Matching, [id |-> walk.cursor, key |-> walk.key])
                             ELSE Matching) :
          ShowCursorPage(FirstOf(answer, Limit + 1))
    /\ UNCHANGED <<listing, table, changes, steady, moved, fallen, lost, shifted>>

\* One query, in which the database finds the row at the cursor.
ReadAttachments ==
    /\ listing = "attachments"
    /\ walk.step = "asking"
    /\ IF walk.cursor # NoCursor /\ walk.cursor \notin Present
       THEN Unfound
       ELSE /\ \E answer \in Answers(IF walk.cursor # NoCursor THEN Below(Matching, Row(walk.cursor)) ELSE Matching) :
                  ShowCursorPage(FirstOf(answer, Limit + 1))
            /\ UNCHANGED lost
    /\ UNCHANGED <<listing, table, changes, steady, moved, fallen, shifted>>

SkipMutant(page) == page * Limit

\* getPaginationOptions.
Skip(page) == (page - 1) * Limit

\* The ids of the rows an answer may have among its first n: more than n if a tie lies across n.
InFront(n) == {row.id : row \in {x \in Matching : Cardinality({y \in Matching : y.key > x.key}) < n}}

\* Rows and their number are two queries of one Promise.all, the number first or last.
Count ==
    /\ walk.step \in {"asking", "counting"}
    /\ walk.total = -1
    /\ walk' = [walk EXCEPT !.total = Cardinality(Matching), !.step = IF @ = "counting" THEN "turning" ELSE @]
    /\ UNCHANGED <<listing, table, changes, shown, steady, moved, fallen, lost, shifted>>

CountUsers == listing = "users" /\ Count
CountGroups == listing = "groups" /\ Count
CountMembers == listing = "members" /\ Count

ReadPage ==
    /\ walk.step = "asking"
    /\ \E answer \in Answers(Matching) :
          shown' = shown \o IdsIn(FirstOf(SubSeq(answer, Skip(walk.page) + 1, Len(answer)), Limit))
    /\ walk' = [walk EXCEPT !.step = IF walk.total = -1 THEN "counting" ELSE "turning"]
    /\ shifted' = (shifted \/ Cardinality(InFront(Skip(walk.page + 1))) > Skip(walk.page + 1))
    /\ UNCHANGED <<listing, table, changes, steady, moved, fallen, lost>>

ReadUsers == listing = "users" /\ ReadPage
ReadGroups == listing = "groups" /\ ReadPage
ReadMembers == listing = "members" /\ ReadPage

\* buildPaginatedResult: totalPages is the total over the limit, rounded up.
TurnPage ==
    /\ walk.step = "turning"
    /\ walk' = IF walk.page * Limit < walk.total
               THEN [walk EXCEPT !.step = "asking", !.page = @ + 1, !.total = -1]
               ELSE [walk EXCEPT !.step = "done"]
    /\ UNCHANGED <<listing, table, changes, shown, steady, moved, fallen, lost, shifted>>

-----------------------------------------------------------------------------
(* What happens to the list meanwhile.                                     *)

\* The ends of pages the walk relies on: of the page before, or of the page once it was read
\* or was counted to be the last.
Ends ==
    IF walk.step # "asking" THEN {Skip(walk.page + 1)}
    ELSE {Skip(walk.page)} \cup {n \in {Skip(walk.page + 1)} : walk.total \in 0..n}

Replace(rows) ==
    /\ walk.step # "done"
    /\ changes < MaxChanges
    /\ changes' = changes + 1
    /\ table' = rows
    /\ shifted' = (shifted \/ (listing \in Numbered /\ \E n \in Ends : InFront(n)' # InFront(n)))
    /\ UNCHANGED <<listing, walk, shown, lost>>

Create(i) ==
    /\ i \notin Present
    /\ i \notin steady \cup ToSet(shown)
    /\ \E key \in Keys : Replace(table \cup {[id |-> i, key |-> key, match |-> TRUE, born |-> key]})
    /\ UNCHANGED <<steady, moved, fallen>>

Delete(i) ==
    /\ i \in Present
    /\ Replace(table \ {Row(i)})
    /\ steady' = steady \ {i}
    /\ UNCHANGED <<moved, fallen>>

\* The user clears the history, or the group is deleted; its members are then not found,
\* and the walk ends as it does on an empty page.
Clear ==
    /\ listing \in {"conversations", "members"}
    /\ Replace({})
    /\ steady' = {}
    /\ UNCHANGED <<moved, fallen>>

Change(i, row) ==
    /\ i \in Present
    /\ Replace((table \ {Row(i)}) \cup {row})
    /\ steady' = steady \ {i}
    /\ moved' = (moved \/ (i = walk.cursor /\ row.key # Row(i).key))
    /\ fallen' = (fallen \/ (i \in ToSet(shown) /\ row.key < Row(i).key))

\* The dates that writes to a row may carry: each was taken after the row was stored.
TouchDates(i) == Row(i).born..MaxTime

\* A message of the conversation, or a change that the search does not see.
Touch(i) ==
    /\ listing = "conversations"
    /\ i \in Present
    /\ \E date \in TouchDates(i) : Change(i, [Row(i) EXCEPT !.key = date])

\* Another title moves a conversation too.
Retitle(i) ==
    /\ listing = "conversations"
    /\ i \in Present
    /\ \E date \in TouchDates(i) : Change(i, [Row(i) EXCEPT !.match = ~@, !.key = date])

\* Attachments keep their names.
Rename(i) ==
    /\ listing \in Numbered
    /\ i \in Present
    /\ \E match \in BOOLEAN, key \in IF listing = "members" THEN Keys ELSE {Row(i).key} :
          Change(i, [Row(i) EXCEPT !.match = match, !.key = key])

Next ==
    \/ LookUpCursor \/ ReadConversations \/ ReadAttachments
    \/ CountUsers \/ CountGroups \/ CountMembers
    \/ ReadUsers \/ ReadGroups \/ ReadMembers \/ TurnPage
    \/ \E i \in Ids : Create(i) \/ Delete(i) \/ Touch(i) \/ Retitle(i) \/ Rename(i)
    \/ Clear

Spec == Init /\ [][Next]_vars

-----------------------------------------------------------------------------

(* A walk shows a row twice only if a conversation it had shown moved: the *)
(* one at its cursor, or any to an older date; or if it goes by page       *)
(* numbers and, at an end of a page it relied on, other rows came to be in *)
(* front or rows shared a key across it (conversation.repository.ts:97-149, *)
(* attachment.repository.ts:35-68, user.repository.ts:157-165,             *)
(* group.repository.ts:122-152, 184-192).                                  *)
RepeatsNeedAMove ==
    \/ IsInjective(shown)
    \/ listing = "conversations" /\ (moved \/ fallen)
    \/ listing \in Numbered /\ shifted

(* A walk that is through has shown every row that was there throughout    *)
(* and was left alone, unless the row at its cursor went or fell to an     *)
(* older date, or rows shifted under page numbers as above                 *)
(* (pagination.util.ts:64-96).                                             *)
SteadyRowsAreShown ==
    walk.step = "done" =>
        \/ steady \subseteq ToSet(shown)
        \/ listing \notin Numbered /\ lost
        \/ listing = "conversations" /\ fallen
        \/ listing \in Numbered /\ shifted

=============================================================================
