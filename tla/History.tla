------------------------------- MODULE History -------------------------------
(***************************************************************************)
(* Chat history of one live session: the transactions that insert messages *)
(* and a client that pages through them with ChatHistoryService.History.   *)
(*                                                                         *)
(* The cursor is the auto-increment id of a row.  MySQL allocates it when  *)
(* the row is inserted and the row becomes visible when its transaction    *)
(* commits, so rows may appear in another order than that of their ids.    *)
(***************************************************************************)
EXTENDS Integers, Sequences, FiniteSets, SequencesExt

CONSTANTS
    Writers,  \* Persistence workers with a transaction on this session
    MaxId,    \* bound: rows ever inserted
    Limit,    \* the limit parameter of the request
    NoId      \* no id, no cursor

ASSUME HistoryAssumption ==
    /\ MaxId \in Nat
    /\ Limit \in Nat \ {0}       \* 1..maxChatHistoryLimit
    /\ NoId \notin Nat

VARIABLES
    nextId,     \* AUTO_INCREMENT of chat_messages
    inserting,  \* the id a writer's open transaction inserted, or NoId
    committed,  \* ids of visible rows
    cursor,     \* the after_id of the client's next request, NoId for the latest page
    base,       \* the first page's lower end: older rows were not asked for
    page,       \* ids of the last page, in order
    hasMore,    \* has_more of the last page
    seen,       \* history: ids of all pages so far
    overtaken   \* history: ids in an open transaction when the cursor passed them

tableVars  == <<nextId, inserting, committed>>
readerVars == <<cursor, base, page, hasMore, seen, overtaken>>
historyVars == <<tableVars, readerVars>>

\* A client asks for the latest page first, or scans from after_id = 0.
HistoryInit ==
    /\ nextId = 1
    /\ inserting = [w \in Writers |-> NoId]
    /\ committed = {}
    /\ cursor \in {NoId, 0}
    /\ base = 0
    /\ page = <<>>
    /\ hasMore = FALSE
    /\ seen = {}
    /\ overtaken = {}

(***************************************************************************)
(* The writers: Persist inserts the message, then commits or rolls back.   *)
(***************************************************************************)

Insert(w) ==
    /\ inserting[w] = NoId
    /\ nextId <= MaxId
    /\ inserting' = [inserting EXCEPT ![w] = nextId]
    /\ nextId' = nextId + 1
    /\ UNCHANGED <<committed, readerVars>>

CommitRow(w) ==
    /\ inserting[w] # NoId
    /\ committed' = committed \cup {inserting[w]}
    /\ inserting' = [inserting EXCEPT ![w] = NoId]
    /\ UNCHANGED <<nextId, readerVars>>

\* A rolled back id is not used again.
RollbackRow(w) ==
    /\ inserting[w] # NoId
    /\ inserting' = [inserting EXCEPT ![w] = NoId]
    /\ UNCHANGED <<nextId, committed, readerVars>>

(***************************************************************************)
(* The reader.                                                             *)
(***************************************************************************)
Ascending(ids) ==
    CHOOSE q \in SetToSeqs(ids) : \A i, j \in DOMAIN q : i < j => q[i] < q[j]

\* Faulty variant: a range of ids instead of a number of rows.
ListAfterRange(after, n) == Ascending({id \in committed : id > after /\ id <= after + n})

\* WHERE id > after ORDER BY id ASC LIMIT n.
ListAfter(after, n) ==
    LET rows == Ascending({id \in committed : id > after})
    IN  SubSeq(rows, 1, IF Len(rows) < n THEN Len(rows) ELSE n)

\* ORDER BY id DESC LIMIT n, then turned round.
ListLatest(n) ==
    LET rows == Ascending(committed)
    IN  SubSeq(rows, IF Len(rows) < n THEN 1 ELSE Len(rows) - n + 1, Len(rows))

\* The cursor of a page: its last id, or the given one when it is empty.
NextCursor(messages, otherwise) ==
    IF messages = <<>> THEN otherwise ELSE messages[Len(messages)]

\* What the client keeps of a page.
Receive(messages, next, more) ==
    /\ page' = messages
    /\ cursor' = next
    /\ hasMore' = more
    /\ seen' = seen \cup ToSet(messages)
    /\ overtaken' = overtaken \cup
          {id \in 1..next : \E w \in Writers : inserting[w] = id}
    /\ UNCHANGED tableVars

\* History without after_id.
FirstPage ==
    /\ cursor = NoId
    /\ LET messages == ListLatest(Limit) IN
         /\ Receive(messages, NextCursor(messages, 0), FALSE)
         /\ base' = IF messages = <<>> THEN 0 ELSE messages[1] - 1

\* Faulty variant: the cursor of the probe row.
FollowUpPageOverreads ==
    /\ cursor # NoId
    /\ LET rows     == ListAfter(cursor, Limit + 1)
           messages == SubSeq(rows, 1, IF Len(rows) > Limit THEN Limit ELSE Len(rows))
       IN  Receive(messages, NextCursor(rows, cursor), Len(rows) > Limit)
    /\ UNCHANGED base

\* History with after_id: one row more than the limit tells whether there is more.
FollowUpPage ==
    /\ cursor # NoId
    /\ LET rows     == ListAfter(cursor, Limit + 1)
           messages == SubSeq(rows, 1, IF Len(rows) > Limit THEN Limit ELSE Len(rows))
       IN  Receive(messages, NextCursor(messages, cursor), Len(rows) > Limit)
    /\ UNCHANGED base

HistoryNext ==
    \/ \E w \in Writers : Insert(w) \/ CommitRow(w) \/ RollbackRow(w)
    \/ FirstPage \/ FollowUpPage

HistorySpec == HistoryInit /\ [][HistoryNext]_historyVars

\* The client repeats its forward query.
HistoryFairSpec == HistorySpec /\ WF_historyVars(FirstPage \/ FollowUpPage)

(***************************************************************************)
(* Properties.                                                             *)
(***************************************************************************)

\* A visible message behind the cursor that no page contained was still in an
\* open transaction when the cursor passed it: paging loses nothing by itself,
\* neither at a page boundary nor over the gaps that rollbacks leave.
SkippedWasInFlight ==
    cursor # NoId =>
        \A id \in committed : base < id /\ id <= cursor => id \in seen \cup overtaken

\* A follow-up page repeats no message, and has_more says exactly whether rows were
\* visible beyond the cursor when the page was read: the row read in excess of the limit
\* is counted and not passed over.
PagesAreExact ==
    [][FollowUpPage =>
          /\ ToSet(page') \cap seen = {}
          /\ hasMore' <=> \E id \in committed : id > cursor']_historyVars

\* Every message that becomes visible ahead of the cursor is read in the end,
\* while the client goes on asking.
CommittedIsRead ==
    \A id \in 1..MaxId :
        (cursor # NoId /\ id \in committed /\ id > base) ~> (id \in seen \cup overtaken)
=============================================================================
