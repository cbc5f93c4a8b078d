-------------------------- MODULE OperationContract --------------------------
(***************************************************************************)
(* What a caller may rely on of an operation of a Studio, whatever the     *)
(* queues, sockets, acknowledgements and timers between the two do         *)
(* (docs and tool descriptions speak of executionOutcome and of recovery   *)
(* by requestId; the ledger of bridge-service.ts and the plugin's          *)
(* StudioWebSocket.ts together have to keep it).                           *)
(*                                                                         *)
(* An operation waits for its caller, ends without its caller, is settled  *)
(* by the Studio, and is forgotten.  What the caller is told of its        *)
(* execution is told once: nothing but "unknown" is ever taken back.  A    *)
(* handler is entered at most once, never after the caller was told that   *)
(* it would not be, and success is told only of a handler that finished.   *)
(*                                                                         *)
(* One step may concern several operations: a call that admits one         *)
(* forgets others.  A server that restarts forgets all of them, and what   *)
(* it had already written may still be entered; so may a request that was  *)
(* written before its operation was forgotten and the id admitted again.   *)
(* Such an id is lost until the Studio has read the request.               *)
(***************************************************************************)
CONSTANT Operations

VARIABLE ledger

Entry ==
  [status   : {"none", "waiting", "ended", "settled"},
   told     : {"unknown", "success", "error", "not_executed"},
   entered  : BOOLEAN,     \* a handler was entered since the admission
   running  : BOOLEAN,     \* a handler runs
   ran      : BOOLEAN,     \* a handler once succeeded
   declined : BOOLEAN,     \* a handler once said that it did nothing
   lost     : BOOLEAN]     \* an earlier operation of the id may still be entered

Unheard ==
  [status |-> "none", told |-> "unknown", entered |-> FALSE, running |-> FALSE,
   ran |-> FALSE, declined |-> FALSE, lost |-> FALSE]

\* The part of an entry that the ledger keeps, and the part the Studio does.
Told(o) == <<o.status, o.told>>
Done(o) == <<o.entered, o.running, o.ran, o.declined, o.lost>>

-----------------------------------------------------------------------------
(***************************************************************************)
(* How an entry o may become n.                                            *)
(***************************************************************************)

\* The caller's request is taken on; whatever the id stood for is forgotten,
\* and may still be entered if it was not.
Admitted(o, n) ==
  /\ o.status # "waiting"
  /\ n = [o EXCEPT !.status = "waiting", !.told = "unknown", !.entered = FALSE,
                   !.lost = n.lost]
  /\ o.lost => n.lost
  /\ n.lost => o.lost \/ ~o.entered

\* The Studio reported how the execution went, or that there was none.
Truthful(o, told) ==
  /\ told = "not_executed" => ~o.entered \/ o.declined
  /\ told = "success" => o.ran

Learned(o, n) ==
  /\ o.status # "none" /\ Done(n) = Done(o)
  /\ \/ o.status = "waiting" /\ n.status \in {"waiting", "ended", "settled"}
     \/ o.status = "ended" /\ n.status \in {"ended", "settled"}
     \/ o.status = "settled" /\ n.status = "settled"
  /\ n.told # o.told => /\ o.told = "unknown" /\ o.status # "settled"
                        /\ Truthful(o, n.told)

\* A finished operation is forgotten; one that is waited for never is.
Forgotten(o, n) ==
  o.status # "waiting" /\ n = [o EXCEPT !.status = "none", !.told = "unknown"]

\* A handler is entered: once, and not after it was said not to have been.
Entered(o, n) ==
  /\ Told(n) = Told(o)
  /\ ~o.running /\ n.running
  /\ \/ ~o.lost /\ ~n.lost /\ ~o.entered /\ n.entered /\ o.told # "not_executed"
     \/ o.lost /\ n.entered = o.entered
  /\ n.ran = o.ran /\ n.declined = o.declined

Finished(o, n) ==
  /\ Told(n) = Told(o)
  /\ o.running /\ ~n.running
  /\ n.entered = o.entered /\ n.lost = o.lost
  /\ o.ran => n.ran
  /\ o.declined => n.declined

\* What a server that is gone had written is read in vain, or never read.
LetGo(o, n) == o.lost /\ n = [o EXCEPT !.lost = FALSE]

Legal(o, n) ==
  \/ n = o
  \/ Admitted(o, n)
  \/ Learned(o, n)
  \/ Forgotten(o, n)
  \/ Entered(o, n)
  \/ Finished(o, n)
  \/ LetGo(o, n)

-----------------------------------------------------------------------------
Init == ledger = [x \in Operations |-> Unheard]

Step == \A x \in Operations : Legal(ledger[x], ledger'[x])

\* The server is gone, with all it knew; the Studio goes on.
Restart ==
  \A x \in Operations :
    \E lost \in {ledger[x].lost, TRUE} :
      ledger'[x] = [ledger[x] EXCEPT !.status = "none", !.told = "unknown", !.lost = lost]

Next ==
  /\ ledger' \in [Operations -> Entry]
  /\ Step \/ Restart

Spec == Init /\ [][Next]_ledger

=============================================================================
