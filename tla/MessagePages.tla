---------------------------- MODULE MessagePages ---------------------------
(***************************************************************************)
(* A reader pages through the messages of one conversation, latest first,  *)
(* while others send and delete.  The cursor is the id of a message, and   *)
(* ids are random: their order, here that of numbers, is not the order in  *)
(* which the messages were sent.  What a message says is left out, and who *)
(* may send or delete one, for which see Messages.                         *)
(***************************************************************************)
EXTENDS Integers, Sequences, SequencesExt

CONSTANTS MessageIds,   \* the ids that may be drawn: positive numbers
          Limits,       \* what a reader may ask for at a time: nothing validates it
          DefaultLimit, \* 50 in the code
          MaxSent       \* bound: messages ever sent

VARIABLES
  sent,    \* the rows: ids, latest first
  drawn,   \* history: ids ever drawn
  reader,  \* TRUE while the reader takes part in the conversation
  walk     \* the reader's way through the pages

vars == <<sent, drawn, reader, walk>>

NoCursor == 0

(* open: a page is still to come; cursors: those used so far; shown: what  *)
(* the reader saw; stayed: what was there from the first page on; negative:*)
(* a negative number was asked for.                                        *)
NoWalk == [open |-> FALSE, cursors |-> <<>>, shown |-> {}, stayed |-> {}, negative |-> FALSE]

(* Every value has its type.                                               *)
TypeOK ==
  /\ Range(sent) \subseteq drawn /\ drawn \subseteq MessageIds /\ IsInjective(sent)
  /\ reader \in BOOLEAN
  /\ DOMAIN walk = DOMAIN NoWalk /\ Range(walk.cursors) \subseteq MessageIds

-----------------------------------------------------------------------------
(* Mutant: the message of the cursor is on the next page again.            *)
UpTo(cursor) == {i \in DOMAIN sent : cursor = NoCursor \/ sent[i] <= cursor}

(* The where of the query: the rows with an id below the cursor, if there  *)
(* is one, by their places.                                                *)
Below(cursor) == {i \in DOMAIN sent : cursor = NoCursor \/ sent[i] < cursor}

(* Take: the latest of what was found, by the number asked for.            *)
latest(found, limit) == {i \in found : Cardinality({j \in found : j < i}) < limit}

(* For a negative number it takes from the other end, one less than that:  *)
(* the oldest, of which the very last is then taken for the one too many.  *)
oldest(found, limit) ==
  {i \in found : Cardinality({j \in found : j > i}) \in 1..(-limit - 2)}

(* GetMessagesQueryDto: both parts are optional; 0 counts as no limit.     *)
GetMessagesQueryDto == [limit : Limits \cup {DefaultLimit}, cursor : MessageIds \cup {NoCursor}]

(* findByConversationIdPaginated: one more is taken, to know whether there *)
(* is more; the last message that is answered is the next cursor.          *)
findByConversationIdPaginated(query) ==
  LET found == Below(query.cursor)
      hasMore == Cardinality(found) > query.limit
      page == IF query.limit > 0 THEN latest(found, query.limit)
              ELSE oldest(found, query.limit)
  IN  [messages |-> {sent[i] : i \in page}, hasMore |-> hasMore,
       nextCursor |-> IF hasMore /\ page # {} THEN sent[Max(page)] ELSE NoCursor]

(* MessagesResponseDto: the reader goes on while he is given a cursor.     *)
Shown(before, query, page) ==
  [open    |-> page.nextCursor # NoCursor,
   cursors |-> IF page.nextCursor = NoCursor THEN before.cursors
               ELSE Append(before.cursors, page.nextCursor),
   shown   |-> before.shown \cup page.messages,
   stayed  |-> IF query.cursor = NoCursor THEN Range(sent) ELSE before.stayed,
   negative |-> before.negative \/ query.limit < 0]

(* getConversationMessages: only who takes part may read.                  *)
getConversationMessages(query, before) ==
  /\ reader
  /\ walk' = Shown(before, query, findByConversationIdPaginated(query))
  /\ UNCHANGED <<sent, drawn, reader>>

(* The handler, called by a reader who follows the cursor he was given.    *)
getMessages ==
  \E query \in GetMessagesQueryDto :
    /\ walk.open /\ query.cursor = Last(walk.cursors)
    /\ getConversationMessages(query, walk)

(* getConversationWithMessages: always the first page.                     *)
getConversationWithMessages(limit) ==
  getConversationMessages([limit |-> limit, cursor |-> NoCursor], NoWalk)

getWithMessages ==
  /\ ~walk.open
  /\ \E limit \in Limits \cup {DefaultLimit} : getConversationWithMessages(limit)

(* For a page the reader is refused, the answer is an error.               *)
refused == walk.open /\ ~reader /\ walk' = NoWalk /\ UNCHANGED <<sent, drawn, reader>>

-----------------------------------------------------------------------------
(* What the others do, see Messages and Conversations.                     *)
send ==
  /\ Len(sent) < MaxSent
  /\ \E m \in MessageIds \ drawn :
       sent' = <<m>> \o sent /\ drawn' = drawn \cup {m}
  /\ UNCHANGED <<reader, walk>>

delete ==
  /\ \E m \in Range(sent) :
       /\ sent' = RemoveFirst(sent, m)
       /\ walk' = [walk EXCEPT !.stayed = @ \ {m}]
  /\ UNCHANGED <<drawn, reader>>

joinOrLeave == reader' = ~reader /\ UNCHANGED <<sent, drawn, walk>>

Init == sent = <<>> /\ drawn = {} /\ reader = TRUE /\ walk = NoWalk

Next ==
  \/ getMessages \/ getWithMessages \/ refused
  \/ send \/ delete \/ joinOrLeave

Spec == Init /\ [][Next]_vars

-----------------------------------------------------------------------------
(* The pages come to an end, whatever is sent and deleted meanwhile: every *)
(* cursor is below the one before it.  And a reader who came to the last   *)
(* page missed a message that was there all the time only if its id is not *)
(* below some cursor he was given, or if he once asked for a negative      *)
(* number: else whatever is below them all he saw.                         *)
PagesExplained ==
  /\ \A i \in 2..Len(walk.cursors) : walk.cursors[i] < walk.cursors[i - 1]
  /\ ~walk.open /\ ~walk.negative =>
       \A m \in walk.stayed \ walk.shown : \E c \in Range(walk.cursors) : c <= m
=============================================================================
