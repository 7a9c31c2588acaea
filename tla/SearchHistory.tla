--------------------------- MODULE SearchHistory ---------------------------
(***************************************************************************)
(* The users one user searched for last, latest first.  Every request      *)
(* loads the whole history, changes it, and saves it by replacing all its  *)
(* entries.  The searches of the others are rows of their own.  Left out:  *)
(* whether an entry repeated within five minutes keeps its id.             *)
(***************************************************************************)
EXTENDS Integers, Sequences, SequencesExt

CONSTANTS Searched,    \* users that may be searched for
          Self,        \* the user who searches
          Requests,
          MAX_ENTRIES

VARIABLES
  history,  \* the row: absent, or its entries
  req       \* request -> the entries it is about to save

vars == <<history, req>>

Absent == [exists |-> FALSE, entries |-> <<>>]

Idle == [pc |-> "idle"]

Entries == SeqOf(Searched, MAX_ENTRIES)

(* Every value has its type.                                               *)
TypeOK ==
  /\ history = Absent \/ (history.exists /\ history.entries \in Entries)
  /\ \A q \in Requests :
       req[q] = Idle \/ (req[q].pc = "save" /\ req[q].entries \in Entries)

-----------------------------------------------------------------------------
(* addNewEntry: the entry comes first, and the last make room for it.      *)
addNewEntry(entries, u) ==
  LET longer == <<u>> \o entries IN
    IF Len(longer) > MAX_ENTRIES THEN Front(longer) ELSE longer

(* Mutant: a repeated search is one more entry.                            *)
AddAnyway(entries, u) == addNewEntry(entries, u)

(* addEntry: whoever is in the list already moves to its front.            *)
addEntry(entries, u) == addNewEntry(RemoveFirst(entries, u), u)

(* A filter, which leaves the same of a list that has nobody twice.        *)
removeEntry(entries, u) == RemoveFirst(entries, u)

(* The use cases, up to the save.                                          *)
Load(q, entries) ==
  /\ req[q] = Idle
  /\ req' = [req EXCEPT ![q] = [pc |-> "save", entries |-> entries]]
  /\ UNCHANGED history

(* A user who searches for himself is left alone.                          *)
addToSearchHistory(q, u) == u # Self /\ Load(q, addEntry(history.entries, u))

(* To remove from a history that is absent, or clear it, is an error.      *)
removeFromSearchHistory(q, u) ==
  history.exists /\ Load(q, removeEntry(history.entries, u))

clearSearchHistory(q) == history.exists /\ Load(q, <<>>)

(* getSearchHistory: of no history an empty one is shown.                  *)
getSearchHistory == history.entries

(* save: an upsert that deletes all entries and creates those it has.      *)
save(q) ==
  /\ req[q].pc = "save"
  /\ history' = [exists |-> TRUE, entries |-> req[q].entries]
  /\ req' = [req EXCEPT ![q] = Idle]

(* The handlers answer success: false; also a crash.                       *)
fail(q) ==
  /\ req[q] # Idle
  /\ req' = [req EXCEPT ![q] = Idle]
  /\ UNCHANGED history

SearchHistoryController(q) ==
  \/ \E u \in Searched : addToSearchHistory(q, u) \/ removeFromSearchHistory(q, u)
  \/ clearSearchHistory(q)

Init == history = Absent /\ req = [q \in Requests |-> Idle]

Next == \E q \in Requests : SearchHistoryController(q) \/ save(q) \/ fail(q)

Spec == Init /\ [][Next]_vars

-----------------------------------------------------------------------------
(* However the requests overlap, nobody is listed twice, which the unique  *)
(* index would refuse for ever after, the user himself is not listed, and  *)
(* the list loads again: it has at most MAX_ENTRIES entries.               *)
ListsEachOnce ==
  /\ IsInjective(getSearchHistory)
  /\ Self \notin Range(getSearchHistory)
  /\ Len(getSearchHistory) <= MAX_ENTRIES
=============================================================================
