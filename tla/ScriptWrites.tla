---------------------------- MODULE ScriptWrites ----------------------------
(***************************************************************************)
(* Writers of the scripts of one place: find_and_replace_in_scripts        *)
(* (ScriptReplace.ts), the handlers that change one script (edit, insert,  *)
(* delete, set; ScriptHandlers.ts), and a user who types.  Each write      *)
(* yields in UpdateSourceAsync, so others can run between any two of a     *)
(* run's writes and inside each (applyScriptSource, Utils.ts).             *)
(*                                                                         *)
(* The text of a script is the set of the changes that are in it: a write  *)
(* is the text that was read with the writer's own change, the user types  *)
(* on top of what is there.  Reading is taken not to fail.                 *)
(***************************************************************************)
EXTENDS Naturals, FiniteSets

CONSTANTS
  NumScripts,       \* the scripts a replacement matches, in its order
  EditCalls,        \* calls of the handlers that change one script
  Replace, Draft    \* the changes that are not a call's: the run's and the user's

ASSUME NumScriptsAssumption == NumScripts \in Nat \ {0}

Scripts == 1 .. NumScripts
Writers == EditCalls \cup {Replace}

ASSUME ChangesAssumption == Replace \notin EditCalls /\ Draft \notin Writers

VARIABLES
  text,             \* what the editor shows
  kept,             \* changes somebody made or was told to have made, not undone since
  write,            \* applyScriptSource of each writer, while it yields
  run,              \* the replacement: its phase, the script it is at, the one that failed
  planned,          \* what it read
  status,           \* what it reports of each script
  answer            \* of each call

writeVars == <<text, kept, write, run, planned, status, answer>>

\* applyScriptSource(instance, newSource, expectedSource) of script s; a write
\* that is not checked has no expectedSource.  at is "asked" before the callback
\* of UpdateSourceAsync, "called" after it.
Write(s, expected, new, checked) ==
  [at |-> "asked", script |-> s, expected |-> expected, new |-> new, checked |-> checked]
NoWrite == [at |-> "none", script |-> 0, expected |-> {}, new |-> {}, checked |-> TRUE]

WritesInit ==
  /\ text = [s \in Scripts |-> {}]
  /\ kept = [s \in Scripts |-> {}]
  /\ write = [w \in Writers |-> NoWrite]
  /\ run = [phase |-> "idle", at |-> 0, failedAt |-> 0]
  /\ planned = text
  /\ status = [s \in Scripts |-> "none"]
  /\ answer = [c \in EditCalls |-> "none"]

New(s) == planned[s] \cup {Replace}

\* What a write leaves to be kept: one that is not checked replaces the changes of
\* others, and a restoration takes the run's own back.
StillKept(w) ==
  IF w.checked THEN kept[w.script] \ (w.expected \ w.new) ELSE {}

Puts(w) ==
  /\ text' = [text EXCEPT ![w.script] = w.new]
  /\ kept' = [kept EXCEPT ![w.script] = StillKept(w)]

-----------------------------------------------------------------------------
(***************************************************************************)
(* UpdateSourceAsync: its callback sees the text as it is then and refuses *)
(* one it does not expect.  It can throw, before or after the text is set, *)
(* and can return without having set it.                                   *)
(***************************************************************************)
CallbackWrites(writer) ==
  LET w == write[writer] IN
  /\ w.at = "asked"
  /\ w.checked => text[w.script] = w.expected
  /\ Puts(w)
  /\ write' = [write EXCEPT ![writer].at = "called"]
  /\ UNCHANGED <<run, planned, status, answer>>

NothingIsWritten(writer) ==
  /\ write[writer].at = "asked"
  /\ write' = [write EXCEPT ![writer].at = "called"]
  /\ UNCHANGED <<text, kept, run, planned, status, answer>>

\* The text that is there is the one that was written, and UpdateSourceAsync did
\* not throw.
Verified(w) == w.at = "called" /\ text[w.script] = w.new

\* The direct assignment, with nothing in between its checks and itself.
MayAssign(w) == w.checked => text[w.script] = w.expected

-----------------------------------------------------------------------------
(***************************************************************************)
(* The handlers that change one script.                                    *)
(***************************************************************************)
\* Any of them but a set_script_source without a revision is checked.
EditBegins(c, s, checked) ==
  /\ answer[c] = "none" /\ write[c] = NoWrite
  /\ write' = [write EXCEPT ![c] =
                 Write(s, text[s], IF checked THEN text[s] \cup {c} ELSE {c}, checked)]
  /\ UNCHANGED <<text, kept, run, planned, status, answer>>

EditSucceeds(c) ==
  /\ answer' = [answer EXCEPT ![c] = "success"]
  /\ write' = [write EXCEPT ![c] = NoWrite]
  /\ UNCHANGED <<run, planned, status>>

EditVerified(c) ==
  LET w == write[c] IN
  /\ Verified(w) /\ EditSucceeds(c)
  /\ kept' = [kept EXCEPT ![w.script] = @ \cup {c}]
  /\ UNCHANGED text

EditAssigned(c) ==
  LET w == write[c] IN
  /\ w.at = "called" /\ MayAssign(w) /\ EditSucceeds(c)
  /\ text' = [text EXCEPT ![w.script] = w.new]
  /\ kept' = [kept EXCEPT ![w.script] = StillKept(w) \cup {c}]

EditFails(c) ==
  /\ write[c].at = "called"
  /\ answer' = [answer EXCEPT ![c] = "failure"]
  /\ write' = [write EXCEPT ![c] = NoWrite]
  /\ UNCHANGED <<text, kept, run, planned, status>>

-----------------------------------------------------------------------------
(***************************************************************************)
(* find_and_replace_in_scripts.                                            *)
(***************************************************************************)
\* Every script is read and planned at once; what differs from the reviewed
\* revisions, and what is too much, is refused before anything is written.
RunPlans ==
  /\ run.phase = "idle"
  /\ planned' = text
  /\ run' = [phase |-> "applying", at |-> 1, failedAt |-> 0]
  /\ write' = [write EXCEPT ![Replace] = Write(1, text[1], text[1] \cup {Replace}, TRUE)]
  /\ UNCHANGED <<text, kept, status, answer>>

\* The script at hand was written: on to the next.
Applied ==
  /\ status' = [status EXCEPT ![run.at] = "applied"]
  /\ IF run.at = NumScripts
       THEN run' = [run EXCEPT !.phase = "done"] /\ write' = [write EXCEPT ![Replace] = NoWrite]
       ELSE /\ run' = [run EXCEPT !.at = @ + 1]
            /\ write' = [write EXCEPT ![Replace] =
                           Write(run.at + 1, planned[run.at + 1], New(run.at + 1), TRUE)]
  /\ UNCHANGED <<planned, answer>>

AppliedVerified ==
  /\ run.phase = "applying" /\ Verified(write[Replace])
  /\ kept' = [kept EXCEPT ![run.at] = @ \cup {Replace}]
  /\ Applied
  /\ UNCHANGED text

AppliedAssigned ==
  /\ run.phase = "applying" /\ write[Replace].at = "called" /\ MayAssign(write[Replace])
  /\ text' = [text EXCEPT ![run.at] = New(run.at)]
  /\ kept' = [kept EXCEPT ![run.at] = @ \cup {Replace}]
  /\ Applied

\* The restoration goes on backwards from script s, or is over.
RestoresFrom(s, failedAt) ==
  IF s = 0
    THEN /\ run' = [phase |-> "failed", at |-> 0, failedAt |-> failedAt]
         /\ write' = [write EXCEPT ![Replace] = NoWrite]
    ELSE /\ run' = [phase |-> "restoring", at |-> s, failedAt |-> failedAt]
         /\ write' = [write EXCEPT ![Replace] = Write(s, New(s), planned[s], TRUE)]

\* The script whose write failed is left alone.
FirstToRestoreBefore == run.at - 1

\* A failed write can have landed: what holds it is restored too.
FirstToRestore == IF text[run.at] = New(run.at) THEN run.at ELSE run.at - 1

ApplyFails ==
  /\ run.phase = "applying" /\ write[Replace].at = "called"
  /\ status' = [s \in Scripts |-> CASE s < run.at -> "applied"
                                    [] s = run.at -> "failed"
                                    [] OTHER      -> "not_attempted"]
  /\ RestoresFrom(FirstToRestore, run.at)
  /\ UNCHANGED <<text, kept, planned, answer>>

Restored(outcome) ==
  /\ status' = [status EXCEPT ![run.at] = outcome]
  /\ RestoresFrom(run.at - 1, run.failedAt)
  /\ UNCHANGED <<planned, answer>>

RestoreAssigned ==
  /\ run.phase = "restoring" /\ write[Replace].at = "called" /\ MayAssign(write[Replace])
  /\ Puts(write[Replace])
  /\ Restored("restored")

\* Verified, or refused by a verification although it landed.
RestoreEnds ==
  /\ run.phase = "restoring" /\ write[Replace].at = "called"
  /\ Restored(IF text[run.at] = planned[run.at] THEN "restored" ELSE "restore_failed")
  /\ UNCHANGED <<text, kept>>

-----------------------------------------------------------------------------
(***************************************************************************)
(* The user types in one script, or undoes what the run wrote.             *)
(***************************************************************************)
UserTypes(s) ==
  /\ \A t \in Scripts : Draft \notin kept[t]
  /\ text' = [text EXCEPT ![s] = @ \cup {Draft}]
  /\ kept' = [kept EXCEPT ![s] = @ \cup {Draft}]
  /\ UNCHANGED <<write, run, planned, status, answer>>

UserUndoes(s) ==
  /\ Replace \in text[s]
  /\ text' = [text EXCEPT ![s] = @ \ {Replace}]
  /\ kept' = [kept EXCEPT ![s] = @ \ {Replace}]
  /\ UNCHANGED <<write, run, planned, status, answer>>

WritesNext ==
  \/ \E w \in Writers : CallbackWrites(w)
  \/ \E w \in Writers : NothingIsWritten(w)
  \/ \E c \in EditCalls, s \in Scripts, checked \in BOOLEAN : EditBegins(c, s, checked)
  \/ \E c \in EditCalls : EditVerified(c)
  \/ \E c \in EditCalls : EditAssigned(c)
  \/ \E c \in EditCalls : EditFails(c)
  \/ RunPlans
  \/ AppliedVerified
  \/ AppliedAssigned
  \/ ApplyFails
  \/ RestoreAssigned
  \/ RestoreEnds
  \/ \E s \in Scripts : UserTypes(s)
  \/ \E s \in Scripts : UserUndoes(s)

WritesSpec == WritesInit /\ [][WritesNext]_writeVars

-----------------------------------------------------------------------------
(***************************************************************************)
(* Properties.                                                             *)
(***************************************************************************)
\* What a user typed, and what a caller was told is written, is never lost to
\* another writer, and a replacement that failed leaves its text nowhere but
\* where it says so, or under what others wrote meanwhile (applyScriptSource's
\* comparison, the restoration of ScriptReplace.run).
WritersKeepFaith ==
  /\ \A s \in Scripts : kept[s] \subseteq text[s]
  /\ run.phase = "failed" =>
       \A s \in Scripts :
         /\ text[s] = New(s) => status[s] = "restore_failed"
         /\ Replace \in text[s] => status[s] \in {"failed", "restore_failed"}

=============================================================================
