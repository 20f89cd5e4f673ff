----------------------------- MODULE SearchView ------------------------------
(***************************************************************************)
(* SearchViewModel (client-ios/MusicBox/ViewModels/SearchViewModel.swift): *)
(* the user types, each change cancels the Task of the one before and      *)
(* starts another, which sleeps, asks the server and shows the answer.     *)
(*                                                                         *)
(* Everything runs on the main actor except the sleep and the request, so  *)
(* a Task's steps are what lies between two awaits.  Cancelling a Task     *)
(* ends its sleep early and may or may not end its request.  A blank query *)
(* is Blank; the text asked for is the trimmed query.                      *)
(***************************************************************************)
EXTENDS Naturals, FiniteSets

CONSTANTS
    Query,       \* what may stand in the search field, trimmed, other than Blank
    Blank,       \* nothing, or only white space
    MaxEdits     \* bound: changes of the field

ASSUME SearchAssumption == Blank \notin Query /\ MaxEdits \in Nat

VARIABLES
    query,       \* the field
    results,     \* [state, of]: idle, loading, loaded or failed, and of which text
    tasks,       \* the Tasks started so far: id -> [text, at, cancelled]
    searchTask   \* the id of the last Task, or 0

searchVars == <<query, results, tasks, searchTask>>

Idle == [state |-> "idle", of |-> Blank]

SearchInit == query = Blank /\ results = Idle /\ tasks = <<>> /\ searchTask = 0

\* searchTask?.cancel(): it stays the last Task when the new query is blank.
cancelled(ts) == IF searchTask = 0 THEN ts ELSE [ts EXCEPT ![searchTask].cancelled = TRUE]

\* Mutant: a blank query leaves the results alone.
blanked_Not == results' = results

blanked == results' = Idle

\* The query changes, to the same text too: scheduleSearch().
scheduleSearch(q) ==
    /\ Cardinality(DOMAIN tasks) < MaxEdits
    /\ query' = q
    /\ \/ /\ q = Blank /\ blanked
          /\ tasks' = cancelled(tasks) /\ searchTask' = searchTask
       \/ /\ q # Blank /\ results' = results
          /\ LET id == Cardinality(DOMAIN tasks) + 1
             IN  /\ searchTask' = id
                 /\ tasks' = [i \in 1..id |-> IF i = id
                                 THEN [text |-> q, at |-> "sleep", cancelled |-> FALSE]
                                 ELSE cancelled(tasks)[i]]

Go(i, place) == tasks' = [tasks EXCEPT ![i].at = place]

\* After the sleep: a cancelled Task ends, the other starts performSearch().
performSearch(i) ==
    /\ tasks[i].at = "sleep"
    /\ \/ tasks[i].cancelled /\ Go(i, "done") /\ results' = results
       \/ /\ ~tasks[i].cancelled /\ Go(i, "request")
          /\ results' = [state |-> "loading", of |-> tasks[i].text]
    /\ UNCHANGED <<query, searchTask>>

\* Mutant: an answer is shown without asking whether it is still wanted.
shown_Always(i) == TRUE

\* guard !Task.isCancelled.
shown(i) == ~tasks[i].cancelled

\* The request ends, with results or an error.
Answer(i, state) ==
    /\ tasks[i].at = "request" /\ Go(i, "done")
    /\ results' = IF shown(i) THEN [state |-> state, of |-> tasks[i].text] ELSE results
    /\ UNCHANGED <<query, searchTask>>

SearchNext == \/ \E q \in Query \cup {Blank} : scheduleSearch(q)
        \/ \E i \in DOMAIN tasks : \/ performSearch(i)
                                   \/ \E state \in {"loaded", "failed"} : Answer(i, state)

\* Sleeps end, and a request is answered, fails or times out.
SearchFairness ==
    \A i \in 1..MaxEdits :
        /\ WF_searchVars(i \in DOMAIN tasks /\ performSearch(i))
        /\ WF_searchVars(i \in DOMAIN tasks /\ \E state \in {"loaded", "failed"} : Answer(i, state))

SearchSpec == SearchInit /\ [][SearchNext]_searchVars /\ SearchFairness

-----------------------------------------------------------------------------

\* Types; of all the Tasks only the last one may be neither cancelled nor done
\* (SearchViewModel.swift:22).
SearchTypeOK ==
    /\ query \in Query \cup {Blank} /\ searchTask \in 0..MaxEdits
    /\ results.state \in {"idle", "loading", "loaded", "failed"}
    /\ \A i \in DOMAIN tasks : i # searchTask => tasks[i].cancelled \/ tasks[i].at = "done"

\* An empty field shows nothing, also when the answer to an earlier text comes
\* afterwards (SearchViewModel.swift:24-27, 40).
BlankShowsNothing == query = Blank => results = Idle

\* The answer to an earlier text never replaces that to a later one: when no
\* Task is at work any more, what is shown is about what stands in the field
\* (SearchViewModel.swift:36-46).
ShownIsCurrent ==
    (\A i \in DOMAIN tasks : tasks[i].at = "done") /\ query # Blank =>
        results.state \in {"loaded", "failed"} /\ results.of = query

\* What the view shows belongs to what stands in its field, in whatever order
\* the answers come.
SearchSafe == SearchTypeOK /\ BlankShowsNothing /\ ShownIsCurrent

\* Nobody who stops typing waits for ever: loading ends, also if the Task that
\* began it was cancelled (SearchViewModel.swift:24-27, 37-45).
LoadingEnds == (results.state = "loading") ~> (results.state # "loading")
=============================================================================
