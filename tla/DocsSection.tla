------------------------------ MODULE DocsSection ------------------------------
(***************************************************************************)
(* The documentation page of the dashboard                                 *)
(* (frontend/src/components/DocsSection.tsx): the section on display, the  *)
(* search box over the menu, the copy buttons with their check mark, and   *)
(* the API tester.  The text of the sections is left out.                  *)
(***************************************************************************)
EXTENDS Sums

CONSTANTS
  Sections,     \* "overview" with a copy button, "redis-lua" with another,
                \* "api-tester", and sections with neither
  Queries,      \* what is typed into the search box; "" matches every section
  Matches,      \* Matches[q]: the sections whose title contains q
  Keys,         \* API keys of the tester
  FirstKey,     \* selected at first
  CopyTime,     \* 2000 ms, in ticks
  MaxTimers,    \* bound: timers of copyCode at once
  None          \* no snippet, no result

ASSUME DocsAssumption ==
  /\ {"overview", "redis-lua", "api-tester"} \subseteq Sections
  /\ "" \in Queries /\ Matches \in [Queries -> SUBSET Sections]
  /\ Matches[""] = Sections
  /\ FirstKey \in Keys
  /\ CopyTime \in Nat \ {0} /\ MaxTimers \in Nat

VARIABLES
  activeSection, searchQuery,
  copiedId,     \* the snippet whose button shows a check mark
  timers,       \* timers[a]: the timers of copyCode of age a; they fire at CopyTime
  testKey, isTesting,
  testResult,   \* the result on display
  inFlight,     \* the keys of the tester's requests that have no answer
  lastKey       \* history: the key of the last request of the tester

copying == <<copiedId, timers>>
testing == <<testKey, isTesting, testResult, inFlight, lastKey>>
docs == <<activeSection, searchQuery, copying, testing>>

Snippets == {"contract", "token_lua"}

DocsInit ==
  /\ activeSection = "overview"
  /\ searchQuery = ""
  /\ copiedId = None
  /\ timers = [a \in 0 .. CopyTime |-> 0]
  /\ testKey = FirstKey
  /\ isTesting = FALSE
  /\ testResult = None
  /\ inFlight = {}
  /\ lastKey = None

------------------------------------------------------------------------------
\* The menu lists the sections whose title contains the query, the table of
\* contents all of them.
FilteredSections == Matches[searchQuery]

Search ==
  /\ searchQuery' \in Queries
  /\ UNCHANGED <<activeSection, copying, testing>>

OpenFromMenu ==
  /\ activeSection' \in FilteredSections
  /\ UNCHANGED <<searchQuery, copying, testing>>

OpenFromContents ==
  /\ activeSection' \in Sections
  /\ UNCHANGED <<searchQuery, copying, testing>>

------------------------------------------------------------------------------
(***************************************************************************)
(* The copy buttons.                                                       *)
(***************************************************************************)

\* The mark moves to this snippet; the timers of earlier copies keep running.
copyCode(id) ==
  /\ copiedId' = id
  /\ timers' = [timers EXCEPT ![0] = @ + 1]

CopyIn(section, id) ==
  /\ activeSection = section
  /\ Sum(timers) < MaxTimers
  /\ copyCode(id)
  /\ UNCHANGED <<activeSection, searchQuery, testing>>

CopyContract == CopyIn("overview", "contract")
CopyTokenLua == CopyIn("redis-lua", "token_lua")

\* A timer takes the mark away, whichever copy it now stands for.
TimerFires ==
  /\ timers[CopyTime] > 0
  /\ timers' = [timers EXCEPT ![CopyTime] = @ - 1]
  /\ copiedId' = None
  /\ UNCHANGED <<activeSection, searchQuery, testing>>

\* Time passes; a timer may fire late.
DocsTick ==
  /\ timers' = [a \in 0 .. CopyTime |->
                  IF a = 0 THEN 0
                  ELSE timers[a - 1] + (IF a = CopyTime THEN timers[a] ELSE 0)]
  /\ UNCHANGED <<activeSection, searchQuery, copiedId, testing>>

------------------------------------------------------------------------------
(***************************************************************************)
(* The API tester.                                                         *)
(***************************************************************************)

SelectTestKey ==
  /\ activeSection = "api-tester"
  /\ testKey' \in Keys
  /\ UNCHANGED <<activeSection, searchQuery, copying, isTesting, testResult,
                 inFlight, lastKey>>

\* The button works also while a request is under way.
SendTest_NotDisabled ==
  /\ activeSection = "api-tester"
  /\ isTesting' = TRUE
  /\ inFlight' = inFlight \cup {testKey}
  /\ lastKey' = testKey
  /\ UNCHANGED <<activeSection, searchQuery, copying, testKey, testResult>>

\* handleTestAPI up to the fetch.
SendTest ==
  /\ activeSection = "api-tester"
  /\ ~isTesting
  /\ isTesting' = TRUE
  /\ inFlight' = inFlight \cup {testKey}
  /\ lastKey' = testKey
  /\ UNCHANGED <<activeSection, searchQuery, copying, testKey, testResult>>

\* The rest of handleTestAPI: a failed fetch is shown as a made up success.  The
\* reader may have selected another key or section meanwhile.
EndTest(key, status, simulated) ==
  /\ key \in inFlight
  /\ inFlight' = inFlight \ {key}
  /\ testResult' = [key |-> key, status |-> status, simulated |-> simulated]
  /\ isTesting' = FALSE
  /\ UNCHANGED <<activeSection, searchQuery, copying, testKey, lastKey>>

TestAnswered ==
  \E key \in Keys, status \in {"200", "429", "503"} : EndTest(key, status, FALSE)

TestFails == \E key \in Keys : EndTest(key, "200", TRUE)

DocsNext ==
  \/ Search
  \/ OpenFromMenu
  \/ OpenFromContents
  \/ CopyContract
  \/ CopyTokenLua
  \/ TimerFires
  \/ DocsTick
  \/ SelectTestKey
  \/ SendTest
  \/ TestAnswered
  \/ TestFails

\* The page is left or loaded again: nothing of it remains, and neither timers nor
\* answers find it.
LeaveDocs ==
  /\ activeSection' = "overview"
  /\ searchQuery' = ""
  /\ copiedId' = None
  /\ timers' = [a \in 0 .. CopyTime |-> 0]
  /\ testKey' = FirstKey
  /\ isTesting' = FALSE
  /\ testResult' = None
  /\ inFlight' = {}
  /\ lastKey' = None

------------------------------------------------------------------------------
(***************************************************************************)
(* Properties.                                                             *)
(***************************************************************************)

\* The values of the variables.
DocsTypeOK ==
  /\ activeSection \in Sections /\ searchQuery \in Queries
  /\ copiedId \in Snippets \cup {None}
  /\ timers \in [0 .. CopyTime -> 0 .. MaxTimers]
  /\ testKey \in Keys /\ isTesting \in BOOLEAN
  /\ testResult = None \/ testResult \in [key : Keys, status : {"200", "429", "503"},
                                          simulated : BOOLEAN]
  /\ inFlight \subseteq Keys
  /\ lastKey \in Keys \cup {None}

\* The tester is busy exactly while one request is unanswered, so answers cannot
\* overtake each other: what is on display when it is not busy is the answer to
\* the last request, whatever has been selected since.
TesterInStep ==
  /\ isTesting = (inFlight # {})
  /\ Cardinality(inFlight) <= 1
  /\ ~isTesting /\ testResult # None => testResult.key = lastKey

==============================================================================
