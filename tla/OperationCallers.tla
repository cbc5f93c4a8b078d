-------------------------- MODULE OperationCallers --------------------------
(***************************************************************************)
(* Several callers of one operation id: calls that wait for the result     *)
(* (sendRequest) and calls that only start it (submitRequest), each made   *)
(* through a proxy server (postProxy of proxy-bridge-service.ts) or at the *)
(* primary itself, which admits the first and lets the others join         *)
(* (http-server.ts /proxy, admitRequest of bridge-service.ts).             *)
(*                                                                         *)
(* A proxied call is two halves that can lose each other at any moment:    *)
(* the proxy tells its caller something as soon as its request fails, and  *)
(* the primary may receive that request, or go on with it, later.  The     *)
(* primary notices a caller that left only by its connection, and then     *)
(* ends the wait that was made with that caller's signal.                  *)
(*                                                                         *)
(* Identical arguments are assumed: any other call is an id collision,     *)
(* which changes nothing.  Admissions of the id are numbered; 0 is none.   *)
(***************************************************************************)
EXTENDS Integers

CONSTANTS
  Callers,
  Proxied,          \* those that call through a proxy
  NoCaller,
  MaxAdmissions     \* bound: the id is admitted, forgotten and admitted again

ASSUME CallersAssumption ==
  /\ Proxied \subseteq Callers
  /\ NoCaller \notin Callers
  /\ MaxAdmissions \in Nat

VARIABLES
  call,             \* what each caller asked for, and what it was told
  request,          \* where its request is at the primary, and its answer
  joined,           \* the admission that answers it
  record,           \* the primary's record of the id
  handed,           \* admissions Studio was handed and has not run
  ran               \* admissions a handler was entered for

callVars == <<call, request, joined, record, handed, ran>>

Admissions == 1 .. MaxAdmissions
Verdicts == {"success", "not_executed", "unknown", "started"}

\* told: what the caller has; it waits while it is told nothing.
Call == [mode : {"none", "send", "submit"}, told : Verdicts \cup {"nothing"}]
NoCall == [mode |-> "none", told |-> "nothing"]

\* "coming": written by the caller, not yet handled; "gone": handled, or lost.
Request ==
  [at : {"none", "coming", "waiting", "answered", "gone"}, answer : Verdicts]
NoRequest == [at |-> "none", answer |-> "unknown"]

Record ==
  [state : {"none", "pending", "ended", "settled"}, dispatched : BOOLEAN,
   answer : Verdicts, signal : Callers \cup {NoCaller}, number : Admissions \cup {0}]
NoRecordYet ==
  [state |-> "none", dispatched |-> FALSE, answer |-> "unknown", signal |-> NoCaller,
   number |-> 0]

CallsInit ==
  /\ call = [c \in Callers |-> NoCall]
  /\ request = [c \in Callers |-> NoRequest]
  /\ joined = [c \in Callers |-> 0]
  /\ record = NoRecordYet
  /\ handed = {}
  /\ ran = {}

Waiting(c) == call[c].mode # "none" /\ call[c].told = "nothing"

Tell(c, verdict) == call' = [call EXCEPT ![c].told = verdict]

-----------------------------------------------------------------------------
(***************************************************************************)
(* The caller's half.                                                      *)
(***************************************************************************)
Posts(c, mode) ==
  /\ call[c].mode = "none"
  /\ call' = [call EXCEPT ![c].mode = mode]
  /\ request' = [request EXCEPT ![c].at = "coming"]
  /\ UNCHANGED <<joined, record, handed, ran>>

\* postProxy refuses before its fetch: an invalid id, an abort that came first,
\* a feature the primary lacks, a body that cannot be sent.
RefusesToPost(c, mode) ==
  /\ c \in Proxied /\ call[c].mode = "none"
  /\ call' = [call EXCEPT ![c] = [mode |-> mode, told |-> "not_executed"]]
  /\ UNCHANGED <<request, joined, record, handed, ran>>

\* The fetch failed, so nothing was executed.
LosesPrimarySaysNotExecuted(c) ==
  /\ c \in Proxied /\ Waiting(c)
  /\ Tell(c, IF request[c].at = "waiting" THEN "unknown" ELSE "not_executed")
  /\ UNCHANGED <<request, joined, record, handed, ran>>

\* The fetch is aborted by the caller or the timer, or its connection is lost.
LosesPrimary(c) ==
  /\ c \in Proxied /\ Waiting(c)
  /\ Tell(c, "unknown")
  /\ UNCHANGED <<request, joined, record, handed, ran>>

\* A request on its way may be lost with the connection.
RequestIsLost(c) ==
  /\ request[c].at = "coming" /\ ~Waiting(c)
  /\ request' = [request EXCEPT ![c].at = "gone"]
  /\ UNCHANGED <<call, joined, record, handed, ran>>

HearsAnswer(c) ==
  /\ request[c].at = "answered"
  /\ request' = [request EXCEPT ![c].at = "gone"]
  /\ IF Waiting(c) THEN Tell(c, request[c].answer) ELSE UNCHANGED call
  /\ UNCHANGED <<joined, record, handed, ran>>

-----------------------------------------------------------------------------
(***************************************************************************)
(* The primary's half.  The record ends, and everyone who awaits its       *)
(* promise is answered; record.answer is what a later call is replayed.    *)
(***************************************************************************)
Answered(c, verdict) == [request EXCEPT ![c] = [at |-> "answered", answer |-> verdict]]

AnswerAll(verdict) ==
  request' = [c \in Callers |-> IF request[c].at = "waiting"
                                  THEN [at |-> "answered", answer |-> verdict]
                                  ELSE request[c]]

\* /proxy refuses an endpoint with 403, which says so; any other refusal of the
\* route is an error without details; admission refuses with details.
Refuses(c) ==
  /\ request[c].at = "coming"
  /\ \/ request' = Answered(c, "not_executed")
     \/ c \in Proxied /\ request' = Answered(c, "unknown")
  /\ record.state = "none" \/ c \in Proxied
  /\ UNCHANGED <<call, joined, record, handed, ran>>

\* A new record is bound to the signal of a call that waits, and to none of one
\* that only starts it.
Admits(c) ==
  /\ request[c].at = "coming" /\ record.state = "none"
  /\ record.number < MaxAdmissions
  /\ record' = [NoRecordYet EXCEPT
                  !.state = "pending", !.number = record.number + 1,
                  !.signal = IF call[c].mode = "send" THEN c ELSE NoCaller]
  /\ joined' = [joined EXCEPT ![c] = record.number + 1]
  /\ request' = IF call[c].mode = "send"
                  THEN [request EXCEPT ![c].at = "waiting"]
                  ELSE Answered(c, "started")
  /\ UNCHANGED <<call, handed, ran>>

\* An identical call shares the record as it is, whoever's signal it has.
Joins(c) ==
  /\ request[c].at = "coming" /\ record.state = "pending"
  /\ joined' = [joined EXCEPT ![c] = record.number]
  /\ request' = IF call[c].mode = "send"
                  THEN [request EXCEPT ![c].at = "waiting"]
                  ELSE Answered(c, "started")
  /\ UNCHANGED <<call, record, handed, ran>>

\* A finished record is replayed, to a submission as the status it has.
Replays(c) ==
  /\ request[c].at = "coming" /\ record.state \in {"ended", "settled"}
  /\ request' = Answered(c, record.answer)
  /\ joined' = [joined EXCEPT ![c] = IF record.answer = "not_executed" THEN record.number ELSE 0]
  /\ UNCHANGED <<call, record, handed, ran>>

\* endRequestWaiter.
EndsWith(verdict) ==
  /\ record' = [record EXCEPT !.state = "ended", !.answer = verdict, !.signal = NoCaller]
  /\ AnswerAll(verdict)

EndVerdict == IF record.dispatched THEN "unknown" ELSE "not_executed"

\* The response of a call that waits is closed: its signal aborts the record if
\* the record has that signal, and nothing otherwise.
SeesCallerLeave(c) ==
  /\ c \in Proxied /\ request[c].at = "waiting" /\ ~Waiting(c)
  /\ IF record.state = "pending" /\ record.signal = c
       THEN EndsWith(EndVerdict)
       ELSE request' = [request EXCEPT ![c].at = "gone"] /\ UNCHANGED record
  /\ UNCHANGED <<call, joined, handed, ran>>

\* The timer of the record, or its peer left.
RecordTimesOut ==
  /\ record.state = "pending"
  /\ EndsWith(EndVerdict)
  /\ UNCHANGED <<call, joined, handed, ran>>

IsClaimed ==
  /\ record.state = "pending" /\ ~record.dispatched
  /\ record' = [record EXCEPT !.dispatched = TRUE]
  /\ handed' = handed \cup {record.number}
  /\ UNCHANGED <<call, request, joined, ran>>

\* Studio enters the handler, whoever still waits.
StudioRuns(n) ==
  /\ n \in handed
  /\ handed' = handed \ {n}
  /\ ran' = ran \cup {n}
  /\ UNCHANGED <<call, request, joined, record>>

\* Studio refuses it instead, and reports that.
StudioRefuses ==
  /\ record.state \in {"pending", "ended"} /\ record.number \in handed
  /\ handed' = handed \ {record.number}
  /\ record' = [record EXCEPT !.state = "settled", !.answer = "not_executed", !.signal = NoCaller]
  /\ AnswerAll("not_executed")
  /\ UNCHANGED <<call, joined, ran>>

\* The response settles the record.
RecordSettles ==
  /\ record.state \in {"pending", "ended"} /\ record.number \in ran
  /\ record' = [record EXCEPT !.state = "settled", !.answer = "success", !.signal = NoCaller]
  /\ AnswerAll("success")
  /\ UNCHANGED <<call, joined, handed, ran>>

\* Retention, or another primary, which knows nothing: a pending record goes
\* only with its server, and then those who wait for it lose their connection.
IsForgotten ==
  /\ record.state # "none"
  /\ record' = [NoRecordYet EXCEPT !.number = record.number]
  /\ request' = [c \in Callers |->
                   IF request[c].at = "waiting" THEN [request[c] EXCEPT !.at = "gone"]
                   ELSE request[c]]
  /\ UNCHANGED <<joined, handed, ran>>
  /\ call' = [c \in Callers |->
                IF request[c].at = "waiting" /\ Waiting(c)
                  THEN [call[c] EXCEPT !.told = "unknown"] ELSE call[c]]

CallsNext ==
  \/ \E c \in Callers, mode \in {"send", "submit"} : Posts(c, mode)
  \/ \E c \in Callers, mode \in {"send", "submit"} : RefusesToPost(c, mode)
  \/ \E c \in Callers : LosesPrimary(c)
  \/ \E c \in Callers : RequestIsLost(c)
  \/ \E c \in Callers : HearsAnswer(c)
  \/ \E c \in Callers : Refuses(c)
  \/ \E c \in Callers : Admits(c)
  \/ \E c \in Callers : Joins(c)
  \/ \E c \in Callers : Replays(c)
  \/ \E c \in Callers : SeesCallerLeave(c)
  \/ RecordTimesOut
  \/ IsClaimed
  \/ \E n \in Admissions : StudioRuns(n)
  \/ StudioRefuses
  \/ RecordSettles
  \/ IsForgotten

CallsSpec == CallsInit /\ [][CallsNext]_callVars

-----------------------------------------------------------------------------
(***************************************************************************)
(* Properties.                                                             *)
(***************************************************************************)
\* A caller that is told its call was not executed may make it again: what it
\* asked for never ran, is not at Studio, and is not still on its way to the
\* primary (postProxy's failures against admitRequest, endRequestWaiter and
\* the joiners of one record).
NotExecutedIsFinal ==
  \A c \in Callers :
    call[c].told = "not_executed" =>
      /\ joined[c] \notin ran \cup handed
      /\ request[c].at \in {"none", "gone"}

=============================================================================
