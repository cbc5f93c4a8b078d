--------------------------- MODULE StdioTransport ---------------------------
(***************************************************************************)
(* BoundedStdioTransport (src/packages/core/src/stdio-transport.ts): the   *)
(* MCP stream on stdin and stdout.  Chunks come cut anywhere; a line that  *)
(* is too long is counted and dropped up to its end; a rejected line is    *)
(* answered, and an answer that fills stdout stops the reading in the      *)
(* middle of a chunk, whose rest waits in pendingChunk for drain.          *)
(*                                                                         *)
(* The input is a sequence of symbols: a byte of a well-formed message, a  *)
(* byte that makes a line unreadable, and the line feed.  onData runs to   *)
(* its end before any other event, so nothing else moves while it has      *)
(* work; here it takes one symbol at a time.                               *)
(***************************************************************************)
EXTENDS Naturals, Sequences

CONSTANTS
  Inputs,           \* what may be written to stdin
  LineLimit         \* limitBytes

Symbols == {"byte", "bad", "lf"}

ASSUME StdioAssumption == Inputs \subseteq Seq(Symbols) /\ LineLimit \in Nat \ {0}

VARIABLES
  input,            \* what is written to stdin
  delivered,        \* symbols the stream has emitted
  work,             \* onData's chunk, and pendingChunk: <<first, last>> positions,
  pending,          \*   empty when first > last
  line,             \* lineBytes, and whether the buffer holds a bad byte
  output,           \* outputBlocked, onEnd's wait for its rejection, and onDrain at work
  ended,            \* inputEnded; and readableEnded or destroyed, of the stream
  closed,           \* "open", "ended" or "failed"
  handled           \* not in the program: what became of each line

stdioVars == <<input, delivered, work, pending, line, output, ended, closed, handled>>

Nothing == <<1, 0>>
Some(range) == range[1] <= range[2]
EmptyLine == [bytes |-> 0, bad |-> FALSE]

StdioInit ==
  /\ input \in Inputs
  /\ delivered = 0
  /\ work = Nothing /\ pending = Nothing
  /\ line = EmptyLine
  /\ output = [blocked |-> FALSE, farewell |-> FALSE, draining |-> FALSE]
  /\ ended = [seen |-> FALSE, stream |-> FALSE]
  /\ closed = "open"
  /\ handled = <<>>

Open == closed = "open"
Idle == ~Some(work) /\ ~output.draining

-----------------------------------------------------------------------------
(***************************************************************************)
(* Lines.                                                                  *)
(***************************************************************************)

\* finishLine, and onEnd for a line without its end: what it comes to.
Verdict(l) ==
  CASE l.bytes > LineLimit            -> "too_large"
    [] l.bytes <= LineLimit /\ (l.bad \/ l.bytes = 0) -> "parse_error"
    [] OTHER                          -> "message"

Truncated(l) == IF l.bytes > LineLimit THEN "too_large" ELSE "truncated"

\* The line with one symbol more.
Longer(l, symbol) == [bytes |-> l.bytes + 1, bad |-> l.bad \/ symbol = "bad"]

\* writeMessage: stdout takes it, is full after it, or would hold too much.
Writes(farewell, draining) ==
  \/ /\ \E blocked \in {output.blocked, TRUE} :
          output' = [blocked |-> blocked, farewell |-> farewell, draining |-> draining]
     /\ UNCHANGED closed
  \/ /\ output' = [output EXCEPT !.draining = draining]
     /\ closed' = "failed"

-----------------------------------------------------------------------------
(***************************************************************************)
(* onData.                                                                 *)
(***************************************************************************)
Reads(n) ==
  /\ Open /\ Idle /\ ~output.blocked /\ ~ended.stream
  /\ delivered + n <= Len(input)
  /\ work' = <<delivered + 1, delivered + n>>
  /\ delivered' = delivered + n
  /\ UNCHANGED <<input, pending, line, output, ended, closed, handled>>

SetsAside ==
  /\ Open /\ Some(work) /\ output.blocked
  /\ pending' = work
  /\ work' = Nothing
  /\ UNCHANGED <<input, delivered, line, output, ended, closed, handled>>

TakesByte ==
  /\ Open /\ Some(work) /\ ~output.blocked
  /\ input[work[1]] # "lf"
  /\ line' = Longer(line, input[work[1]])
  /\ work' = <<work[1] + 1, work[2]>>
  /\ UNCHANGED <<input, delivered, pending, output, ended, closed, handled>>

TakesLineFeed ==
  /\ Open /\ Some(work) /\ ~output.blocked
  /\ input[work[1]] = "lf"
  /\ handled' = Append(handled, Verdict(line))
  /\ line' = EmptyLine
  /\ work' = <<work[1] + 1, work[2]>>
  /\ IF Verdict(line) = "message" THEN UNCHANGED <<output, closed>> ELSE Writes(FALSE, output.draining)
  /\ UNCHANGED <<input, delivered, pending, ended>>

-----------------------------------------------------------------------------
(***************************************************************************)
(* Output.                                                                 *)
(***************************************************************************)
Sends ==
  /\ Open /\ Idle
  /\ Writes(output.farewell, FALSE)
  /\ UNCHANGED <<input, delivered, work, pending, line, ended, handled>>

\* The end of the input, of which nothing waits any more: a line without its
\* end is rejected, and the transport closes when that is written.
Finishes ==
  IF line.bytes > 0
    THEN /\ handled' = Append(handled, Truncated(line))
         /\ line' = EmptyLine
         /\ Writes(TRUE, FALSE)
    ELSE /\ closed' = "ended"
         /\ output' = [output EXCEPT !.draining = FALSE]
         /\ UNCHANGED <<handled, line>>

\* onDrain: the chunk set aside is read on.
Drains ==
  /\ Open /\ Idle /\ output.blocked
  /\ output' = [output EXCEPT !.blocked = FALSE, !.draining = TRUE]
  /\ work' = pending
  /\ pending' = Nothing
  /\ UNCHANGED <<input, delivered, line, ended, closed, handled>>

-----------------------------------------------------------------------------
(***************************************************************************)
(* The end of the input.                                                   *)
(***************************************************************************)

\* The end of the input does not wait for the chunk that was set aside.
InputEndsAtOnce ==
  /\ Open /\ Idle /\ ~ended.stream
  /\ ended' = [seen |-> TRUE, stream |-> TRUE]
  /\ Finishes
  /\ UNCHANGED <<input, delivered, work, pending>>

\* 'end' after the last symbol, also when the stream is paused; or 'close' of a
\* stream that did not get there.
InputEnds ==
  /\ Open /\ Idle /\ ~ended.stream
  /\ ended' = [seen |-> TRUE, stream |-> TRUE]
  /\ IF Some(pending) THEN UNCHANGED <<handled, line, output, closed>> ELSE Finishes
  /\ UNCHANGED <<input, delivered, work, pending>>

\* onDrain does not ask whether the input ended.
DrainedForgetsEnd ==
  /\ Open /\ ~Some(work) /\ output.draining
  /\ output' = [output EXCEPT !.draining = FALSE]
  /\ UNCHANGED <<input, delivered, work, pending, line, ended, closed, handled>>

\* onDrain's last part: what was set aside is read, and the input had ended.
Drained ==
  /\ Open /\ ~Some(work) /\ output.draining
  /\ IF ended.seen /\ ~Some(pending)
       THEN Finishes
       ELSE /\ output' = [output EXCEPT !.draining = FALSE]
            /\ UNCHANGED <<handled, line, closed>>
  /\ UNCHANGED <<input, delivered, work, pending, ended>>

\* The rejection of the last line is written: finally close.
Farewell ==
  /\ Open /\ Idle /\ output.farewell /\ ~output.blocked
  /\ closed' = "ended"
  /\ UNCHANGED <<input, delivered, work, pending, line, output, ended, handled>>

\* Either stream reports an error, or stdout closes.
StreamFails ==
  /\ Open /\ Idle
  /\ closed' = "failed"
  /\ UNCHANGED <<input, delivered, work, pending, line, output, ended, handled>>

StdioNext ==
  \/ \E n \in 1 .. Len(input) : Reads(n)
  \/ SetsAside
  \/ TakesByte
  \/ TakesLineFeed
  \/ Sends
  \/ Drains
  \/ InputEnds
  \/ Drained
  \/ Farewell
  \/ StreamFails

StdioSpec == StdioInit /\ [][StdioNext]_stdioVars

\* onData goes on; stdout drains, for its reader is alive or gone; promises
\* resolve.  Nobody has to write, read or end.
StdioFairness ==
  /\ WF_stdioVars(SetsAside)
  /\ WF_stdioVars(TakesByte)
  /\ WF_stdioVars(TakesLineFeed)
  /\ WF_stdioVars(Drains)
  /\ WF_stdioVars(Drained)
  /\ WF_stdioVars(Farewell)

-----------------------------------------------------------------------------
(***************************************************************************)
(* Properties.                                                             *)
(***************************************************************************)

\* What the first n symbols of an input are to be handled as, and the line
\* that is left: the reference definition, which knows of no chunks.
Framed(before, symbol) ==
  IF symbol = "lf"
    THEN [lines |-> Append(before.lines,
            CASE before.rest.bytes > LineLimit -> "too_large"
              [] before.rest.bytes \in 1 .. LineLimit /\ ~before.rest.bad -> "message"
              [] OTHER -> "parse_error"),
          rest |-> EmptyLine]
    ELSE [before EXCEPT !.rest = [bytes |-> @.bytes + 1, bad |-> @.bad \/ symbol = "bad"]]

Framing(symbols) ==
  LET framing[n \in 0 .. Len(symbols)] ==
        IF n = 0 THEN [lines |-> <<>>, rest |-> EmptyLine]
        ELSE Framed(framing[n - 1], symbols[n])
  IN  framing

\* However the input is cut, wherever stdout blocks and whenever the input
\* ends: once the transport ends in good order, every line the stream emitted was
\* handled once, in order, and the line without its end was rejected ("Oversized
\* lines are discarded through LF, never reparsed as suffixes").
StreamIsFramed ==
  closed = "ended" =>
    LET reference == Framing(input)[delivered]
    IN  handled = IF reference.rest.bytes = 0 THEN reference.lines
                  ELSE Append(reference.lines, Truncated(reference.rest))

\* An input that ended closes the transport, whatever was set aside when it did
\* and however often stdout blocks meanwhile (onEnd, onDrain).
EndCloses == []<>(ended.stream => ~Open)

=============================================================================
