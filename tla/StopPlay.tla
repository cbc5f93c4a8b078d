------------------------------ MODULE StopPlay ------------------------------
(***************************************************************************)
(* stop_playtest (TestHandlers.ts) and the monitor of a play server that   *)
(* answers it (StopPlayMonitor.ts).  They are plugins of two processes and *)
(* share two plugin settings, one for the request and one for the result;  *)
(* a write can be lost without notice, and a read can find nothing.        *)
(*                                                                         *)
(* Time is left out but for what follows from it: a request made before    *)
(* the monitor's module was loaded is known as such, and none expires      *)
(* while its caller still waits (8 seconds against 12).  EditModeActive is *)
(* taken to be false from the start of a play to the end of its teardown.  *)
(***************************************************************************)
EXTENDS Naturals, FiniteSets

CONSTANTS
  StopRequests,     \* calls of stop_playtest in the edit session
  NoStop,           \* no request in a setting
  MaxSessions       \* bound: plays

ASSUME NoStopAssumption == NoStop \notin StopRequests

VARIABLES
  slot,             \* the setting of the request
  result,           \* ... and of the result
  pendingRequest,   \* of the edit session's plugin
  stop,             \* each call: its place, its answer, hadActivePlaytest, the play it is of
  session,          \* how many plays began
  phase,            \* of the last one
  testRunning,      \* the edit session tracks a test
  tasks,            \* plays whose ExecutePlayModeAsync did not return yet
  monitor,          \* endTestIssued, lastResult, the requests made since it was loaded
  expired,          \* requests older than their time to live
  endedBy           \* for each request, the play that its EndTest ended, or 0

stopVars == <<slot, result, pendingRequest, stop, session, phase, testRunning, tasks, monitor,
              expired, endedBy>>
playVars == <<session, phase, testRunning, tasks>>

Result(r, ok) == [id |-> r, ok |-> ok]
NoResult == Result(NoStop, FALSE)
NewMonitor == [issued |-> FALSE, last |-> NoResult, since |-> {}]

StopInit ==
  /\ slot = NoStop /\ result = NoResult /\ pendingRequest = NoStop
  /\ stop = [r \in StopRequests |-> [at |-> "none", answer |-> "none", active |-> FALSE, of |-> 0]]
  /\ session = 0 /\ phase = "edit" /\ testRunning = FALSE /\ tasks = {}
  /\ monitor = NewMonitor
  /\ expired = {}
  /\ endedBy = [r \in StopRequests |-> 0]

EditModeActive == phase = "edit"
MonitorRuns == phase \in {"up", "ending"}

\* SetSetting of one of the two settings, which may be lost.
Sets(value) == slot' \in {value, slot}
SetsResult(value) == result' \in {value, result}

-----------------------------------------------------------------------------
(***************************************************************************)
(* stopPlaytest of the edit session.                                       *)
(***************************************************************************)
Requests(r) ==
  /\ stop[r].at = "none"
  /\ stop' = [stop EXCEPT ![r] = [at |-> "waiting", answer |-> "none",
                                  active |-> testRunning \/ ~EditModeActive,
                                  of |-> IF EditModeActive THEN 0 ELSE session]]
  /\ Sets(r)
  /\ pendingRequest' = r
  /\ monitor' = [monitor EXCEPT !.since = IF MonitorRuns THEN @ \cup {r} ELSE @]
  /\ UNCHANGED <<result, playVars, expired, endedBy>>

\* The setting cannot be written.
RequestFails(r) ==
  /\ stop[r].at = "none"
  /\ stop' = [stop EXCEPT ![r].at = "answered", ![r].answer = "not_ready"]
  /\ pendingRequest' = NoStop
  /\ UNCHANGED <<slot, result, playVars, monitor, expired, endedBy>>

\* Every second, the same payload again.
Redelivers(r) ==
  /\ stop[r].at = "waiting" /\ pendingRequest = r
  /\ slot' = r
  /\ UNCHANGED <<result, pendingRequest, stop, playVars, monitor, expired, endedBy>>

\* clearPending: another request in the setting stays.
Clears(r) ==
  /\ pendingRequest' = IF pendingRequest = r THEN NoStop ELSE pendingRequest
  /\ IF slot \in {r, NoStop} THEN Sets(NoStop) ELSE UNCHANGED slot

StopAnswers(r, answer) ==
  /\ stop' = [stop EXCEPT ![r].at = "answered", ![r].answer = answer]
  /\ UNCHANGED <<result, playVars, monitor, expired, endedBy>>

StopAccepted(r) ==
  /\ stop[r].at = "waiting" /\ result = Result(r, TRUE)
  /\ Clears(r)
  /\ stop' = [stop EXCEPT ![r].at = "settling"]
  /\ UNCHANGED <<result, playVars, monitor, expired, endedBy>>

StopRefused(r) ==
  /\ stop[r].at = "waiting" /\ result = Result(r, FALSE)
  /\ Clears(r)
  /\ StopAnswers(r, IF testRunning THEN "not_acknowledged" ELSE "end_test_failed")

\* A play that was there at entry and is over counts as stopped.
StopTimesOut(r) ==
  /\ stop[r].at = "waiting"
  /\ Clears(r)
  /\ StopAnswers(r, CASE stop[r].active /\ ~testRunning /\ EditModeActive -> "stopped"
                  [] testRunning -> "not_acknowledged"
                  [] OTHER       -> "no_active_playtest")

StopSettles(r) ==
  /\ stop[r].at = "settling"
  /\ ~testRunning /\ EditModeActive
  /\ StopAnswers(r, "stopped")
  /\ UNCHANGED <<slot, pendingRequest>>

SettlingTimesOut(r) ==
  /\ stop[r].at = "settling"
  /\ testRunning \/ ~EditModeActive
  /\ StopAnswers(r, "teardown_incomplete")
  /\ UNCHANGED <<slot, pendingRequest>>

Expires(r) ==
  /\ stop[r].at \in {"settling", "answered"} /\ r \notin expired
  /\ expired' = expired \cup {r}
  /\ UNCHANGED <<slot, result, pendingRequest, stop, playVars, monitor, endedBy>>

-----------------------------------------------------------------------------
(***************************************************************************)
(* The monitor: handleStopRequest of what its poll finds.                  *)
(***************************************************************************)
Finds(r) == MonitorRuns /\ slot = r

\* Without the time the module was loaded, only age tells a request of before.
StaleByAge(r) == r \in expired

\* Requests of an earlier runtime "must never stop a newly created play session".
Stale(r) == r \notin monitor.since \/ r \in expired

Drops(r) ==
  /\ Finds(r) /\ Stale(r)
  /\ slot' = NoStop
  /\ UNCHANGED <<result, pendingRequest, stop, playVars, monitor, expired, endedBy>>

Handled(r) == monitor.last.id = r

Republishes(r) ==
  /\ Finds(r) /\ ~Stale(r) /\ Handled(r)
  /\ result' = monitor.last
  /\ UNCHANGED <<slot, pendingRequest, stop, playVars, monitor, expired, endedBy>>

\* writeResult: kept first, then published.
WritesResult(r, ok, issued) ==
  /\ monitor' = [monitor EXCEPT !.last = Result(r, ok), !.issued = issued]
  /\ SetsResult(Result(r, ok))

RefusesIssued(r) ==
  /\ Finds(r) /\ ~Stale(r) /\ ~Handled(r) /\ monitor.issued
  /\ WritesResult(r, FALSE, TRUE)
  /\ UNCHANGED <<slot, pendingRequest, stop, playVars, expired, endedBy>>

EndTestSucceeds(r) ==
  /\ Finds(r) /\ ~Stale(r) /\ ~Handled(r) /\ ~monitor.issued
  /\ phase' = "ending"
  /\ endedBy' = [endedBy EXCEPT ![r] = session]
  /\ WritesResult(r, TRUE, TRUE)
  /\ UNCHANGED <<slot, pendingRequest, stop, session, testRunning, tasks, expired>>

EndTestFails(r) ==
  /\ Finds(r) /\ ~Stale(r) /\ ~Handled(r) /\ ~monitor.issued
  /\ WritesResult(r, FALSE, FALSE)
  /\ UNCHANGED <<slot, pendingRequest, stop, playVars, expired, endedBy>>

-----------------------------------------------------------------------------
(***************************************************************************)
(* Plays, started by start_playtest or by hand.                            *)
(***************************************************************************)
\* A test still said to run while the edit session can start one is forgotten.
Starts(tracked) ==
  /\ EditModeActive /\ session < MaxSessions
  /\ session' = session + 1 /\ phase' = "starting"
  /\ IF tracked THEN testRunning' = TRUE /\ tasks' = tasks \cup {session'}
                ELSE UNCHANGED <<testRunning, tasks>>
  /\ UNCHANGED <<slot, result, pendingRequest, stop, monitor, expired, endedBy>>

Loads ==
  /\ phase = "starting" /\ phase' = "up"
  /\ monitor' = NewMonitor
  /\ UNCHANGED <<slot, result, pendingRequest, stop, session, testRunning, tasks, expired, endedBy>>

\* By EndTest, by hand, or because it could not start.
GoesDown ==
  /\ phase \in {"starting", "up", "ending"} /\ phase' = "down"
  /\ UNCHANGED <<slot, result, pendingRequest, stop, session, testRunning, tasks, monitor, expired, endedBy>>

BackToEdit ==
  /\ phase = "down" /\ phase' = "edit"
  /\ UNCHANGED <<slot, result, pendingRequest, stop, session, testRunning, tasks, monitor, expired, endedBy>>

\* ExecutePlayModeAsync returns, even when the next test runs already.
TaskEnds(n) ==
  /\ n \in tasks /\ (n = session => phase \in {"down", "edit"})
  /\ tasks' = tasks \ {n} /\ testRunning' = FALSE
  /\ UNCHANGED <<slot, result, pendingRequest, stop, session, phase, monitor, expired, endedBy>>

StopNext ==
  \/ \E r \in StopRequests : Requests(r)
  \/ \E r \in StopRequests : RequestFails(r)
  \/ \E r \in StopRequests : Redelivers(r)
  \/ \E r \in StopRequests : StopAccepted(r)
  \/ \E r \in StopRequests : StopRefused(r)
  \/ \E r \in StopRequests : StopTimesOut(r)
  \/ \E r \in StopRequests : StopSettles(r)
  \/ \E r \in StopRequests : SettlingTimesOut(r)
  \/ \E r \in StopRequests : Expires(r)
  \/ \E r \in StopRequests : Drops(r)
  \/ \E r \in StopRequests : Republishes(r)
  \/ \E r \in StopRequests : RefusesIssued(r)
  \/ \E r \in StopRequests : EndTestSucceeds(r)
  \/ \E r \in StopRequests : EndTestFails(r)
  \/ \E tracked \in BOOLEAN : Starts(tracked)
  \/ Loads
  \/ GoesDown
  \/ BackToEdit
  \/ \E n \in tasks : TaskEnds(n)

StopSpec == StopInit /\ [][StopNext]_stopVars

-----------------------------------------------------------------------------
(***************************************************************************)
(* Properties.                                                             *)
(***************************************************************************)
PlayIsOver(n) == n < session \/ phase \in {"down", "edit"}

\* A request ends the play it was made in or none, whatever is left behind in the
\* settings or delivered again, and its caller is told the truth of it: an EndTest
\* that failed did not end a play, and one that was accepted, or a play said to be
\* stopped, did (handleStopRequest, stopPlaytest).
StopIsTrue ==
  \A r \in StopRequests :
    LET c == stop[r] IN
    /\ endedBy[r] \in {0, c.of}
    /\ c.answer = "end_test_failed" => endedBy[r] = 0
    /\ c.at = "settling" => endedBy[r] = c.of /\ c.of # 0
    /\ c.answer = "stopped" => PlayIsOver(c.of)

=============================================================================
