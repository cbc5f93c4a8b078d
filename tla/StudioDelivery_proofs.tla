------------------------ MODULE StudioDelivery_proofs ------------------------
EXTENDS StudioDelivery, BridgeLedger_proofs

(***************************************************************************)
(* What StudioDelivery keeps, for every set of operations and of peers and *)
(* every bound.                                                            *)
(*                                                                         *)
(* The two ends of the stream and everything between them are one state,   *)
(* and its inductive invariant IInv has a part for each place an operation *)
(* can be in: the stages of the server's outbox against its records, the   *)
(* request, answer and acknowledgement frames on the two links against     *)
(* both ends, and the plugin's entries against the history.  A part is     *)
(* kept by an operator of BridgeLedger, StudioTransport or StudioPlugin    *)
(* (one lemma each), so that an action is the composition of a few lemmas. *)
(* Then the properties are read off the invariant, and every step is shown *)
(* to be one of OperationContract's, or none at all, for each operation at *)
(* once.  The last parts add to it that no wakeup is lost and no           *)
(* cancellation strays, while the table of operations has room.            *)
(***************************************************************************)

-----------------------------------------------------------------------------
(***************************************************************************)
(* Frames in sequence.                                                     *)
(***************************************************************************)
LEMMA FramesType ==
  ASSUME NEW X, NEW s \in Seq(X)
  PROVE  Frames(s) \subseteq X /\ DOMAIN s = 1 .. Len(s) /\ Len(s) \in Nat
  BY DEF Frames

LEMMA AppendFrames ==
  ASSUME NEW X, NEW s \in Seq(X), NEW e \in X
  PROVE  /\ Append(s, e) \in Seq(X)
         /\ DOMAIN Append(s, e) = 1 .. Len(s) + 1
         /\ Len(Append(s, e)) = Len(s) + 1
         /\ \A i \in 1 .. Len(s) : Append(s, e)[i] = s[i]
         /\ Append(s, e)[Len(s) + 1] = e
         /\ Frames(Append(s, e)) = Frames(s) \cup {e}
  <1>1. /\ Append(s, e) \in Seq(X)
        /\ Len(Append(s, e)) = Len(s) + 1
        /\ DOMAIN Append(s, e) = 1 .. Len(s) + 1
        /\ \A i \in 1 .. Len(s) : Append(s, e)[i] = s[i]
        /\ Append(s, e)[Len(s) + 1] = e
        /\ DOMAIN s = 1 .. Len(s) /\ Len(s) \in Nat
    OBVIOUS
  <1>2. DOMAIN Append(s, e) = DOMAIN s \cup {Len(s) + 1}
    BY <1>1
  <1> QED
    BY <1>1, <1>2 DEF Frames

LEMMA TailFrames ==
  ASSUME NEW X, NEW s \in Seq(X), s # <<>>
  PROVE  /\ Tail(s) \in Seq(X)
         /\ DOMAIN Tail(s) = 1 .. Len(s) - 1
         /\ \A i \in DOMAIN Tail(s) : i + 1 \in DOMAIN s /\ Tail(s)[i] = s[i + 1]
         /\ 1 \in DOMAIN s /\ Head(s) = s[1] /\ Head(s) \in X
         /\ Frames(s) = {Head(s)} \cup Frames(Tail(s))
  <1>1. /\ Tail(s) \in Seq(X) /\ Head(s) = s[1] /\ Head(s) \in X
        /\ Len(s) \in Nat \ {0} /\ Len(Tail(s)) = Len(s) - 1
        /\ DOMAIN s = 1 .. Len(s)
        /\ \A i \in 1 .. Len(s) - 1 : Tail(s)[i] = s[i + 1]
    OBVIOUS
  <1>2. DOMAIN Tail(s) = 1 .. Len(s) - 1
    BY <1>1
  <1>3. \A i \in DOMAIN Tail(s) : i + 1 \in DOMAIN s /\ Tail(s)[i] = s[i + 1]
    BY <1>1, <1>2
  <1>4. \A i \in DOMAIN s : i = 1 \/ (i - 1 \in DOMAIN Tail(s) /\ s[i] = Tail(s)[i - 1])
    BY <1>1, <1>2
  <1>5. 1 \in DOMAIN s
    BY <1>1
  <1>6. Frames(s) \subseteq {s[1]} \cup Frames(Tail(s))
    <2> SUFFICES ASSUME NEW i \in DOMAIN s
                 PROVE  s[i] \in {s[1]} \cup Frames(Tail(s))
      BY DEF Frames
    <2>1. CASE i - 1 \in DOMAIN Tail(s) /\ s[i] = Tail(s)[i - 1]
      BY <2>1 DEF Frames
    <2> QED
      BY <1>4, <2>1
  <1>7. s[1] \in Frames(s) /\ Frames(Tail(s)) \subseteq Frames(s)
    BY <1>3, <1>5 DEF Frames
  <1> QED
    BY <1>1, <1>2, <1>3, <1>5, <1>6, <1>7

LEMMA ConcatFrames ==
  ASSUME NEW X, NEW s \in Seq(X), NEW t \in Seq(X)
  PROVE  s \o t \in Seq(X) /\ Frames(s \o t) = Frames(s) \cup Frames(t)
  <1>1. /\ s \o t \in Seq(X) /\ Len(s \o t) = Len(s) + Len(t)
        /\ Len(s) \in Nat /\ Len(t) \in Nat
        /\ DOMAIN s = 1 .. Len(s) /\ DOMAIN t = 1 .. Len(t)
        /\ DOMAIN (s \o t) = 1 .. Len(s) + Len(t)
        /\ \A i \in 1 .. Len(s) : (s \o t)[i] = s[i]
        /\ \A i \in 1 .. Len(t) : (s \o t)[Len(s) + i] = t[i]
    OBVIOUS
  <1>2. \A i \in DOMAIN (s \o t) : i \in DOMAIN s \/ i - Len(s) \in DOMAIN t
    BY <1>1
  <1>3. \A i \in DOMAIN (s \o t) : (s \o t)[i] \in Frames(s) \cup Frames(t)
    <2> SUFFICES ASSUME NEW i \in DOMAIN (s \o t)
                 PROVE  (s \o t)[i] \in Frames(s) \cup Frames(t)
      OBVIOUS
    <2>1. CASE i \in DOMAIN s
      BY <1>1, <2>1 DEF Frames
    <2>2. CASE i - Len(s) \in DOMAIN t
      <3>1. (s \o t)[Len(s) + (i - Len(s))] = t[i - Len(s)]
        BY <1>1, <2>2
      <3>2. Len(s) + (i - Len(s)) = i
        BY <1>1
      <3> QED
        BY <2>2, <3>1, <3>2 DEF Frames
    <2> QED
      BY <1>2, <2>1, <2>2
  <1>4. \A i \in DOMAIN s : s[i] \in Frames(s \o t)
    BY <1>1 DEF Frames
  <1>5. \A i \in DOMAIN t : t[i] \in Frames(s \o t)
    <2> SUFFICES ASSUME NEW i \in DOMAIN t
                 PROVE  t[i] \in Frames(s \o t)
      OBVIOUS
    <2>1. Len(s) + i \in DOMAIN (s \o t) /\ (s \o t)[Len(s) + i] = t[i]
      BY <1>1
    <2> QED
      BY <2>1 DEF Frames
  <1>6. Frames(s \o t) \subseteq Frames(s) \cup Frames(t)
    BY <1>3 DEF Frames
  <1>7. Frames(s) \subseteq Frames(s \o t) /\ Frames(t) \subseteq Frames(s \o t)
    BY <1>4, <1>5 DEF Frames
  <1> QED
    BY <1>1, <1>6, <1>7

LEMMA EmptyFrames == \A X : <<>> \in Seq(X) /\ Frames(<<>>) = {} /\ Len(<<>>) = 0 /\ DOMAIN <<>> = {}
  BY DEF Frames

-----------------------------------------------------------------------------
(***************************************************************************)
(* The inductive invariant, over a ledger b, a connection c, a plugin p    *)
(* and a history h.                                                        *)
(***************************************************************************)
History == [entered : SUBSET Ids, ran : SUBSET Ids, declined : SUBSET Ids]

\* What may be said of the execution of x.
Holds(h, x, exec) ==
  /\ exec = "not_executed" => x \notin h.entered \/ x \in h.declined
  /\ exec = "success" => x \in h.ran

IsRequest(f, x) == f.kind = "request" /\ f.id = x
IsAnswer(f, x) == f.kind \in {"returned", "response"} /\ f.id = x
SaysRecorded(f, x) == f.kind = "ack" /\ f.disposition # "unknown" /\ ~f.past /\ f.id = x

(***************************************************************************)
(* What the record o of x has to do with the rest.                         *)
(***************************************************************************)

\* How far an operation is, and what is known of it: nothing before it is
\* reported, and never anything untrue.
StagesFit(o, x, h) ==
  /\ o.state = "none" => Blank(o)
  /\ o.via = None <=> o.stage = "queued"
  /\ o.stage = "queued" /\ o.state = "pending" => o.exec = "unknown"
  /\ o.stage \in {"dispatched", "executing"} => o.exec = "unknown"
  /\ o.state # "none" => Holds(h, x, o.exec)
  /\ x \in h.entered => o.state = "none" \/ o.via # None

\* A request that is read now is of an operation that was handed out, and the
\* plugin knows of whatever it reported.
RequestsFit(o, x, c, p) ==
  \A f \in Frames(c.down) : IsRequest(f, x) =>
    /\ ~f.past => o.state = "none" \/ o.via # None
    /\ o.stage \in {"executing", "response_delivery"} => x \in Remembered(p)

\* Once the outcome is reported, no other can be.
AnswersFit(o, x, c, p) ==
  o.stage = "response_delivery" =>
    /\ x \notin p.work
    /\ p.pend[x] # "none" => o.exec = ExecOf(p.pend[x])
    /\ \A f \in Frames(c.up) : IsAnswer(f, x) => o.exec = ExecOf(f.response)

AcksFit(o, x, c) ==
  \A f \in Frames(c.acks) \cup Frames(c.down) :
    SaysRecorded(f, x) => o.state \in {"settled", "none"}

RecordFits(o, x, c, p, h) ==
  StagesFit(o, x, h) /\ RequestsFit(o, x, c, p) /\ AnswersFit(o, x, c, p) /\ AcksFit(o, x, c)

(***************************************************************************)
(* What the connection and the plugin have to do with each other.          *)
(***************************************************************************)

\* A handler is not entered twice for what one server asks: of two requests of
\* an id, all but the last are of operations that are gone.
DownFits(c, h) ==
  /\ \A f \in Frames(c.down) : f.kind = "request" => f.id \notin h.entered
  /\ \A i, j \in DOMAIN c.down :
       /\ i < j /\ c.down[i].kind = "request" /\ c.down[j].kind = "request"
       /\ c.down[i].id = c.down[j].id
       => c.down[i].past

UpFits(c, p, h) ==
  \A f \in Frames(c.up) :
    /\ f.id \in Remembered(p)
    /\ IsAnswer(f, f.id) =>
         /\ f.id \notin p.work /\ f.response # "send_failed"
         /\ p.pend[f.id] \in {"none", f.response}
         /\ Holds(h, f.id, ExecOf(f.response))
         /\ \A g \in Frames(c.up) : IsAnswer(g, f.id) => g.response = f.response

AcksBounded(c) ==
  /\ Len(c.acks) <= MaxAcks
  /\ \A i, j \in DOMAIN c.acks : c.acks[i].id = c.acks[j].id => i = j

ConnFits(c, p, h) == DownFits(c, h) /\ UpFits(c, p, h) /\ AcksBounded(c)

\* What the plugin keeps is true, and there is a tombstone for all of it.
PluginFits(p, h) ==
  /\ p.work \cap Kept(p) = {} /\ p.work \cap p.done = {} /\ Kept(p) \cap p.done = {}
  /\ p.rejected \subseteq Kept(p)
  /\ Cardinality(p.rejected) <= MaxRejections
  /\ Cardinality(Remembered(p)) <= MaxTerminal
  /\ \A x \in Kept(p) : p.pend[x] # "send_failed" /\ Holds(h, x, ExecOf(p.pend[x]))

Types(b, c, p, h) ==
  Sound(b) /\ Few(b) /\ c \in Connection /\ p \in Plugin /\ h \in History

Fits(b, c, p, h) ==
  /\ Types(b, c, p, h)
  /\ PluginFits(p, h)
  /\ ConnFits(c, p, h)
  /\ \A x \in Ids : RecordFits(b.op[x], x, c, p, h)

\* Of a server s.
Inv(s, p, h) == s \in Server /\ Fits(s.bridge, s.conn, p, h)

IInv == Inv(server, plugin, history)

-----------------------------------------------------------------------------
(***************************************************************************)
(* Records that change while nothing else does.                            *)
(***************************************************************************)

\* A record that is kept or forgotten, or ends, fits as it did.
LEMMA DropFits ==
  ASSUME NEW b, NEW d, NEW x, NEW c, NEW p, NEW h,
         RecordFits(b.op[x], x, c, p, h),
         Same(b.op[x], d.op[x]) \/ DropsAt(b, d, x) \/ EndsAt(b, d, x)
  PROVE  RecordFits(d.op[x], x, c, p, h)
  <1>1. CASE Same(b.op[x], d.op[x])
    BY <1>1 DEF Same, RecordFits, StagesFit, Blank, RequestsFit, AnswersFit, AcksFit
  <1>2. CASE Blank(d.op[x])
    BY <1>2 DEF RecordFits, StagesFit, Blank, RequestsFit, AnswersFit, AcksFit
  <1>3. CASE EndsAt(b, d, x)
    <2>1. /\ b.op[x].state = "pending" /\ d.op[x].state \in EndedStates
          /\ d.op[x].stage = b.op[x].stage /\ d.op[x].via = b.op[x].via
          /\ d.op[x].exec = IF b.op[x].stage = "queued" THEN "not_executed" ELSE b.op[x].exec
      BY <1>3 DEF EndsAt
    <2>2. d.op[x].state \notin {"none", "pending", "settled"}
      BY <2>1 DEF EndedStates
    <2>3. StagesFit(d.op[x], x, h)
      BY <2>1, <2>2 DEF RecordFits, StagesFit, Holds
    <2>4. RequestsFit(d.op[x], x, c, p)
      BY <2>1, <2>2 DEF RecordFits, RequestsFit
    <2>5. AnswersFit(d.op[x], x, c, p)
      BY <2>1 DEF RecordFits, AnswersFit
    <2>6. AcksFit(d.op[x], x, c)
      BY <2>1 DEF RecordFits, AcksFit
    <2> QED
      BY <2>3, <2>4, <2>5, <2>6 DEF RecordFits
  <1> QED
    BY <1>1, <1>2, <1>3 DEF DropsAt

LEMMA LedgerFits ==
  ASSUME NEW b, NEW d, NEW c, NEW p, NEW h, Fits(b, c, p, h), Sound(d),
         d.pending \subseteq b.pending,
         \A x \in Ids : Same(b.op[x], d.op[x]) \/ DropsAt(b, d, x) \/ EndsAt(b, d, x)
  PROVE  Fits(d, c, p, h)
  <1>1. Few(d)
    BY FewerStay DEF Fits, Types
  <1>2. \A x \in Ids : RecordFits(d.op[x], x, c, p, h)
    BY DropFits DEF Fits
  <1> QED
    BY <1>1, <1>2 DEF Fits, Types

\* An operation that a report from the connection concerns: the plugin knows of
\* it, and what it says of it stands.
LEMMA ReportFits ==
  ASSUME NEW b, NEW d, NEW x \in Ids, NEW c, NEW p, NEW h, NEW exec, NEW phase,
         RecordFits(b.op[x], x, c, p, h),
         x \in Remembered(p),
         ReportsAt(b, d, x, Transport, phase, exec),
         \/ phase = "executing"
         \/ /\ phase = "response_delivery" /\ Holds(h, x, exec) /\ x \notin p.work
            /\ p.pend[x] # "none" => ExecOf(p.pend[x]) = exec
            /\ \A f \in Frames(c.up) : IsAnswer(f, x) => ExecOf(f.response) = exec
  PROVE  RecordFits(d.op[x], x, c, p, h)
  <1>1. /\ b.op[x].state \notin {"none", "settled"} /\ b.op[x].via = Transport
        /\ b.op[x].stage # "response_delivery"
        /\ phase = "executing" => b.op[x].stage = "dispatched"
        /\ d.op[x].state = b.op[x].state /\ d.op[x].via = Transport /\ d.op[x].stage = phase
        /\ d.op[x].exec = IF phase = "executing" THEN b.op[x].exec ELSE exec
    BY DEF ReportsAt
  <1>2. Transport # None
    BY TransportAssumption, NoneAssumption
  <1>3. StagesFit(d.op[x], x, h)
    BY <1>1, <1>2 DEF RecordFits, StagesFit
  <1>4. RequestsFit(d.op[x], x, c, p)
    BY <1>1, <1>2 DEF RecordFits, RequestsFit
  <1>5. AnswersFit(d.op[x], x, c, p)
    BY <1>1 DEF RecordFits, AnswersFit
  <1>6. AcksFit(d.op[x], x, c)
    BY <1>1 DEF RecordFits, AcksFit
  <1> QED
    BY <1>3, <1>4, <1>5, <1>6 DEF RecordFits

LEMMA SettlementFits ==
  ASSUME NEW b, NEW d, NEW x \in Ids, NEW c, NEW p, NEW h, NEW r,
         RecordFits(b.op[x], x, c, p, h),
         x \in Remembered(p),
         SettlesAt(b, d, x, Transport, r),
         Holds(h, x, ExecOf(r)), x \notin p.work,
         p.pend[x] # "none" => ExecOf(p.pend[x]) = ExecOf(r),
         \A f \in Frames(c.up) : IsAnswer(f, x) => ExecOf(f.response) = ExecOf(r)
  PROVE  RecordFits(d.op[x], x, c, p, h)
  <1>1. /\ d.op[x].state = "settled" /\ d.op[x].via = Transport
        /\ d.op[x].stage = "response_delivery" /\ d.op[x].exec = ExecOf(r)
    BY DEF SettlesAt
  <1>2. Transport # None
    BY TransportAssumption, NoneAssumption
  <1>3. StagesFit(d.op[x], x, h)
    BY <1>1, <1>2 DEF StagesFit
  <1>4. RequestsFit(d.op[x], x, c, p)
    BY <1>1, <1>2 DEF RequestsFit
  <1>5. AnswersFit(d.op[x], x, c, p)
    BY <1>1 DEF AnswersFit
  <1>6. AcksFit(d.op[x], x, c)
    BY <1>1 DEF AcksFit
  <1> QED
    BY <1>3, <1>4, <1>5, <1>6 DEF RecordFits


-----------------------------------------------------------------------------
(***************************************************************************)
(* What a step of the server tells of an operation: nothing new, that it   *)
(* is forgotten, or what was not known and holds.                          *)
(***************************************************************************)
ToldAs(o, n) == n.state = o.state /\ n.exec = o.exec

Finishes(o, n) ==
  \/ o.state = "pending" /\ n.state \in {"pending", "settled"} \cup EndedStates
  \/ o.state \in EndedStates /\ n.state \in {"settled"} \cup EndedStates
  \/ o.state = "settled" /\ n.state = "settled"

TellsAt(o, n, x, h) ==
  \/ ToldAs(o, n)
  \/ o.state # "pending" /\ n.state = "none" /\ n.exec = "unknown"
  \/ /\ Finishes(o, n)
     /\ n.exec # o.exec => /\ o.exec = "unknown" /\ o.state # "settled"
                           /\ Holds(h, x, n.exec)

Tells(b, d, h) == \A x \in Ids : TellsAt(b.op[x], d.op[x], x, h)

\* The requests of x that may still be read though their operation is gone.
Past(c, x) == \E f \in Frames(c.down) : IsRequest(f, x) /\ f.past

\* From a server s to t the invariant is kept, what is told is told truly, and
\* no frame grows out of date.
Goes(s, t, p, h) ==
  /\ Inv(t, p, h)
  /\ Tells(s.bridge, t.bridge, h)
  /\ \A x \in Ids : Past(t.conn, x) <=> Past(s.conn, x)

LEMMA TellsThenSame ==
  ASSUME NEW b, NEW d, NEW e, NEW h, Tells(b, d, h),
         \A x \in Ids : ToldAs(d.op[x], e.op[x])
  PROVE  Tells(b, e, h)
  BY DEF Tells, TellsAt, ToldAs, Finishes

LEMMA DropTells ==
  ASSUME NEW b, NEW d, NEW x, NEW h, DropsAt(b, d, x)
  PROVE  TellsAt(b.op[x], d.op[x], x, h)
  BY DEF DropsAt, Same, Blank, TellsAt, ToldAs

LEMMA EndTells ==
  ASSUME NEW b, NEW d, NEW x, NEW h, StagesFit(b.op[x], x, h), EndsAt(b, d, x)
  PROVE  TellsAt(b.op[x], d.op[x], x, h)
  BY DEF EndsAt, StagesFit, TellsAt, ToldAs, Finishes, Holds

\* A ledger whose records are kept, forgotten or ended keeps the invariant and
\* tells the truth.
LEMMA LedgerGoes ==
  ASSUME NEW s, NEW d, NEW p, NEW h, Inv(s, p, h), Sound(d),
         d.pending \subseteq s.bridge.pending,
         \A x \in Ids : \/ Same(s.bridge.op[x], d.op[x])
                        \/ DropsAt(s.bridge, d, x)
                        \/ EndsAt(s.bridge, d, x)
  PROVE  Goes(s, [s EXCEPT !.bridge = d], p, h)
  <1> DEFINE t == [s EXCEPT !.bridge = d]
  <1>1. t \in Server /\ t.bridge = d /\ t.conn = s.conn
    BY DEF Inv, Server, Sound
  <1>2. Fits(d, s.conn, p, h)
    BY LedgerFits DEF Inv
  <1>3. \A x \in Ids : StagesFit(s.bridge.op[x], x, h)
    BY DEF Inv, Fits, RecordFits
  <1>4. Tells(s.bridge, d, h)
    BY <1>3, DropTells, EndTells DEF Tells, DropsAt
  <1> QED
    BY <1>1, <1>2, <1>4 DEF Goes, Inv

-----------------------------------------------------------------------------
(***************************************************************************)
(* The pump.                                                               *)
(***************************************************************************)
LEMMA WriteType ==
  ASSUME NEW c \in Connection, NEW e \in DownFrame
  PROVE  /\ Write(c, e) \in Connection
         /\ Write(c, e).down = Append(c.down, e)
         /\ Write(c, e).acks = c.acks /\ Write(c, e).up = c.up
         /\ Write(c, e).open = c.open
  <1>1. c.down \in Seq(DownFrame)
    BY DEF Connection
  <1>2. Append(c.down, e) \in Seq(DownFrame)
    BY <1>1, AppendFrames
  <1> QED
    BY <1>2 DEF Write, Connection

\* A frame that may follow those on the connection.
MayFollow(e, b, c, h) ==
  /\ e \in DownFrame
  /\ e.kind = "request" =>
       /\ ~e.past /\ e.id \notin h.entered
       /\ \A f \in Frames(c.down) : IsRequest(f, e.id) => f.past
       /\ b.op[e.id].via # None /\ b.op[e.id].stage = "dispatched"
  /\ e.kind = "ack" => e \in Frames(c.acks)

LEMMA DownGrows ==
  ASSUME NEW b, NEW c, NEW p, NEW h, Fits(b, c, p, h),
         NEW e, MayFollow(e, b, c, h),
         NEW d \in Connection, d.down = Append(c.down, e), d.up = c.up,
         Frames(d.acks) \subseteq Frames(c.acks), AcksBounded(d)
  PROVE  /\ Fits(b, d, p, h)
         /\ \A x \in Ids : Past(d, x) <=> Past(c, x)
  <1>1. c \in Connection /\ c.down \in Seq(DownFrame) /\ e \in DownFrame
    BY DEF Fits, Types, Connection, MayFollow
  <1>2. /\ DOMAIN d.down = 1 .. Len(c.down) + 1
        /\ \A i \in 1 .. Len(c.down) : d.down[i] = c.down[i]
        /\ d.down[Len(c.down) + 1] = e
        /\ Frames(d.down) = Frames(c.down) \cup {e}
        /\ DOMAIN c.down = 1 .. Len(c.down) /\ Len(c.down) \in Nat
    BY <1>1, AppendFrames, FramesType
  <1>3. DownFits(d, h)
    <2>1. DownFits(c, h)
      BY DEF Fits, ConnFits
    <2>2. \A f \in Frames(d.down) : f.kind = "request" => f.id \notin h.entered
      BY <1>2, <2>1 DEF DownFits, MayFollow
    <2>3. ASSUME NEW i \in DOMAIN d.down, NEW j \in DOMAIN d.down, i < j,
                 d.down[i].kind = "request", d.down[j].kind = "request",
                 d.down[i].id = d.down[j].id
          PROVE  d.down[i].past
      <3>1. i \in DOMAIN c.down /\ d.down[i] = c.down[i]
        BY <1>2, <2>3
      <3>2. CASE j \in DOMAIN c.down
        BY <1>2, <2>1, <2>3, <3>1, <3>2 DEF DownFits
      <3>3. CASE j = Len(c.down) + 1
        <4>1. c.down[i] \in Frames(c.down) /\ d.down[j] = e
          BY <1>2, <3>1, <3>3 DEF Frames
        <4> QED
          BY <2>3, <3>1, <4>1 DEF MayFollow, IsRequest
      <3> QED
        BY <1>2, <3>2, <3>3
    <2> QED
      BY <2>2, <2>3 DEF DownFits
  <1>4. ConnFits(d, p, h)
    BY <1>3 DEF Fits, ConnFits, UpFits
  <1>5. ASSUME NEW x \in Ids
        PROVE  RecordFits(b.op[x], x, d, p, h)
    <2>1. RecordFits(b.op[x], x, c, p, h)
      BY DEF Fits
    <2>2. RequestsFit(b.op[x], x, d, p)
      BY <1>2, <2>1 DEF RecordFits, RequestsFit, MayFollow, IsRequest
    <2>3. AcksFit(b.op[x], x, d)
      <3>1. \A f \in Frames(d.acks) \cup Frames(d.down) :
              f.kind = "ack" => f \in Frames(c.acks) \cup Frames(c.down)
        BY <1>2 DEF MayFollow
      <3> QED
        BY <2>1, <3>1 DEF RecordFits, AcksFit, SaysRecorded
    <2>4. AnswersFit(b.op[x], x, d, p)
      BY <2>1 DEF RecordFits, AnswersFit
    <2> QED
      BY <2>1, <2>2, <2>3, <2>4 DEF RecordFits
  <1>6. \A x \in Ids : Past(d, x) <=> Past(c, x)
    BY <1>2 DEF Past, IsRequest, MayFollow
  <1> QED
    BY <1>4, <1>5, <1>6 DEF Fits, Types

\* A request that waits, and is handed out, is not yet entered, and every request of
\* its id on the connection is of an operation that is gone.
LEMMA ClaimFits ==
  ASSUME NEW b, NEW c, NEW p, NEW h, Fits(b, c, p, h),
         NEW x \in b.pending, b.op[x].via = None
  PROVE  LET d == Claim(b, x, Transport, Owner)
             e == [kind |-> "request", id |-> x, past |-> FALSE]
         IN  Fits(d, c, p, h) /\ MayFollow(e, d, c, h)
             /\ \A y \in Ids : ToldAs(b.op[y], d.op[y])
  <1> DEFINE d == Claim(b, x, Transport, Owner)
             e == [kind |-> "request", id |-> x, past |-> FALSE]
  <1>0. Sound(b) /\ x \in Ids /\ Transport \in Transports /\ Transport # None
    BY TransportAssumption, NoneAssumption DEF Fits, Types, Sound, Bridge
  <1>1. Sound(d) /\ d.pending = b.pending
    BY <1>0, ClaimSound
  <1>2. /\ d.op[x].state = b.op[x].state /\ d.op[x].exec = b.op[x].exec
        /\ d.op[x].via = Transport /\ d.op[x].stage = "dispatched"
        /\ \A y \in Ids : y # x => d.op[y] = b.op[y]
    BY <1>0, ClaimSays
  <1>3. b.op[x].state = "pending"
    BY <1>0 DEF Sound, Agree
  <1>4. RecordFits(b.op[x], x, c, p, h)
    BY <1>0 DEF Fits
  <1>5. b.op[x].exec = "unknown" /\ x \notin h.entered
        /\ \A f \in Frames(c.down) : IsRequest(f, x) => f.past
    BY <1>3, <1>4 DEF RecordFits, StagesFit, RequestsFit
  <1>6. RecordFits(d.op[x], x, c, p, h)
    <2>1. StagesFit(d.op[x], x, h)
      BY <1>0, <1>2, <1>3, <1>5 DEF StagesFit, Holds
    <2>2. RequestsFit(d.op[x], x, c, p) /\ AnswersFit(d.op[x], x, c, p)
      BY <1>0, <1>2 DEF RequestsFit, AnswersFit
    <2>3. AcksFit(d.op[x], x, c)
      BY <1>2, <1>4 DEF RecordFits, AcksFit
    <2> QED
      BY <2>1, <2>2, <2>3 DEF RecordFits
  <1>7. Fits(d, c, p, h)
    <2>1. \A y \in Ids : RecordFits(d.op[y], y, c, p, h)
      BY <1>2, <1>6 DEF Fits
    <2> QED
      BY <1>1, <2>1 DEF Fits, Types, Few
  <1>8. MayFollow(e, d, c, h)
    <2>1. e \in DownFrame
      BY <1>0 DEF DownFrame
    <2> QED
      BY <1>0, <1>2, <1>5, <2>1 DEF MayFollow
  <1>9. \A y \in Ids : ToldAs(b.op[y], d.op[y])
    BY <1>2 DEF ToldAs
  <1> QED
    BY <1>7, <1>8, <1>9

\* Whatever the pump writes, the invariant is kept and nothing new is told.
LEMMA PumpGoes ==
  ASSUME NEW s, NEW p, NEW h, Inv(s, p, h)
  PROVE  /\ Inv(Pump(s), p, h)
         /\ \A x \in Ids : ToldAs(s.bridge.op[x], Pump(s).bridge.op[x])
         /\ \A x \in Ids : Past(Pump(s).conn, x) <=> Past(s.conn, x)
         /\ Pump(s).conn.open = s.conn.open
  <1> DEFINE b == PruneCancels(s.bridge)
             c == s.conn
             cancels == NextCancel(b, Transport)
             requests == NextRequest(b, Transport)
             Goal(t) == /\ Inv(t, p, h)
                        /\ \A x \in Ids : ToldAs(s.bridge.op[x], t.bridge.op[x])
                        /\ \A x \in Ids : Past(t.conn, x) <=> Past(c, x)
                        /\ t.conn.open = c.open
  <1>1. Sound(b) /\ SameRecords(s.bridge, b)
    BY PruneCancelsSound DEF Inv, Fits, Types
  <1>2. Fits(b, c, p, h) /\ b.op = s.bridge.op /\ s \in Server
    BY <1>1, LedgerFits DEF Inv, SameRecords, Same
  <1>3. c \in Connection /\ AcksBounded(c) /\ c.acks \in Seq(Ack)
    BY <1>2 DEF Fits, Types, ConnFits, Connection
  <1>4. ASSUME NEW d, Fits(d, c, p, h), \A x \in Ids : ToldAs(b.op[x], d.op[x]),
               NEW e, MayFollow(e, d, c, h),
               NEW k \in Connection, k.down = Append(c.down, e), k.up = c.up, k.open = c.open,
               Frames(k.acks) \subseteq Frames(c.acks), AcksBounded(k)
        PROVE  Goal([bridge |-> d, conn |-> k])
    <2>1. Fits(d, k, p, h) /\ \A x \in Ids : Past(k, x) <=> Past(c, x)
      BY <1>4, DownGrows
    <2>2. [bridge |-> d, conn |-> k] \in Server
      BY <2>1 DEF Server, Fits, Types, Sound
    <2> QED
      BY <1>2, <1>4, <2>1, <2>2 DEF Inv
  <1>5. ASSUME NEW d, Fits(d, c, p, h), \A x \in Ids : ToldAs(b.op[x], d.op[x]),
                NEW e \in DownFrame, MayFollow(e, d, c, h)
         PROVE  Goal([bridge |-> d, conn |-> Write(c, e)])
    <2> DEFINE w == Write(c, e)
    <2>1. /\ w \in Connection /\ w.down = Append(c.down, e) /\ w.acks = c.acks
          /\ w.up = c.up /\ w.open = c.open
      BY <1>3, <1>5, WriteType
    <2> HIDE DEF w, Goal
    <2>2. AcksBounded(w) /\ Frames(w.acks) \subseteq Frames(c.acks)
      BY <1>3, <2>1 DEF AcksBounded
    <2>3. Goal([bridge |-> d, conn |-> w])
      BY <1>4, <1>5, <2>1, <2>2
    <2> QED
      BY <2>3 DEF w
  <1>6. CASE ~c.open \/ c.sending
    <2>1. Pump(s) = s
      BY <1>6 DEF Pump
    <2> QED
      BY <2>1 DEF ToldAs
  <1> DEFINE idle == c.open /\ ~c.sending
  <1>7. CASE idle /\ c.acks # <<>>
    <2> DEFINE e == Head(c.acks)
               w == Write(c, e)
               k == [w EXCEPT !.acks = Tail(c.acks)]
    <2>1. /\ Tail(c.acks) \in Seq(Ack) /\ e \in Ack
          /\ Frames(Tail(c.acks)) \subseteq Frames(c.acks) /\ e \in Frames(c.acks)
          /\ DOMAIN Tail(c.acks) = 1 .. Len(c.acks) - 1
          /\ \A i \in DOMAIN Tail(c.acks) : /\ i + 1 \in DOMAIN c.acks
                                            /\ Tail(c.acks)[i] = c.acks[i + 1]
      BY <1>3, <1>7, TailFrames, ZenonT(60)
    <2>2. e \in DownFrame /\ MayFollow(e, s.bridge, c, h)
      BY <2>1 DEF DownFrame, MayFollow, Ack
    <2>3. /\ w \in Connection /\ w.down = Append(c.down, e) /\ w.acks = c.acks
          /\ w.up = c.up /\ w.open = c.open
      BY <1>3, <2>2, WriteType, ZenonT(60)
    <2>4. /\ k \in Connection /\ k.down = Append(c.down, e) /\ k.up = c.up
          /\ k.acks = Tail(c.acks) /\ k.open = c.open
      BY <2>1, <2>3 DEF Connection
    <2>5. AcksBounded(k)
      <3>1. Len(Tail(c.acks)) <= MaxAcks
        BY <1>3, <1>7, AcksAssumption DEF AcksBounded
      <3>2. ASSUME NEW i \in DOMAIN Tail(c.acks), NEW j \in DOMAIN Tail(c.acks),
                   Tail(c.acks)[i].id = Tail(c.acks)[j].id
            PROVE  i = j
        <4>1. i + 1 = j + 1
          BY <1>3, <2>1, <3>2 DEF AcksBounded
        <4> QED
          BY <2>1, <4>1
      <3> QED
        BY <2>4, <3>1, <3>2 DEF AcksBounded
    <2>6. Pump(s) = [s EXCEPT !.conn = k]
      BY <1>7 DEF Pump
    <2>7. Pump(s) = [bridge |-> s.bridge, conn |-> k]
      BY <1>2, <2>6 DEF Server
    <2>8. Fits(s.bridge, c, p, h) /\ \A x \in Ids : ToldAs(b.op[x], s.bridge.op[x])
      BY <1>2 DEF Inv, ToldAs
    <2> HIDE DEF e, k, w, Goal
    <2>9. Goal([bridge |-> s.bridge, conn |-> k])
      BY <1>4, <2>1, <2>2, <2>4, <2>5, <2>8
    <2> QED
      BY <2>7, <2>9 DEF Goal
  <1>8. CASE idle /\ c.acks = <<>> /\ cancels # {}
    <2> DEFINE x == CHOOSE x \in cancels : TRUE
               d == ClaimCancel(b, x, Owner)
               e == [kind |-> "cancel", id |-> x]
    <2>1. x \in cancels
      BY <1>8
    <2>2. Pump(s) = [bridge |-> d, conn |-> Write(c, e)]
      BY <1>8 DEF Pump
    <2> HIDE DEF x, Goal
    <2>3. x \in Ids
      BY <2>1 DEF NextCancel, First
    <2>4. Sound(d) /\ SameRecords(b, d)
      BY <1>1, <2>3, ClaimCancelSound, TransportAssumption
    <2>5. Fits(d, c, p, h) /\ \A y \in Ids : ToldAs(b.op[y], d.op[y])
      BY <1>2, <2>4, LedgerFits DEF SameRecords, Same, ToldAs
    <2>6. e \in DownFrame /\ MayFollow(e, d, c, h)
      BY <2>3 DEF DownFrame, MayFollow
    <2> HIDE DEF e, d
    <2> QED
      BY <2>2, <2>5, <2>6, <1>5 DEF Goal
  <1>9. CASE idle /\ c.acks = <<>> /\ cancels = {} /\ requests # {}
    <2> DEFINE x == CHOOSE x \in requests : TRUE
               d == Claim(b, x, Transport, Owner)
               e == [kind |-> "request", id |-> x, past |-> FALSE]
    <2>1. x \in requests
      BY <1>9
    <2>2. Pump(s) = [bridge |-> d, conn |-> Write(c, e)]
      BY <1>9 DEF Pump
    <2> HIDE DEF x, Goal
    <2>3. x \in Claimable(b, Transport)
      BY <2>1 DEF NextRequest, First
    <2>4. x \in b.pending /\ b.op[x].via = None
      BY <2>3 DEF Claimable
    <2>5. /\ Fits(d, c, p, h) /\ MayFollow(e, d, c, h)
          /\ \A y \in Ids : ToldAs(b.op[y], d.op[y])
      BY <1>2, <2>4, ClaimFits
    <2> HIDE DEF e, d
    <2>6. e \in DownFrame
      BY <2>5 DEF MayFollow
    <2> QED
      BY <2>2, <2>5, <2>6, <1>5 DEF Goal
  <1>10. CASE idle /\ c.acks = <<>> /\ cancels = {} /\ requests = {} /\ c.beat
    <2> DEFINE e == [kind |-> "heartbeat"]
               k == [Write(c, e) EXCEPT !.beat = FALSE]
    <2>1. e \in DownFrame /\ MayFollow(e, b, c, h)
      BY DEF DownFrame, MayFollow
    <2>2. /\ k \in Connection /\ k.down = Append(c.down, e) /\ k.up = c.up
          /\ k.acks = c.acks /\ k.open = c.open
      BY <1>3, <2>1, WriteType DEF Connection
    <2>3. Pump(s) = [bridge |-> b, conn |-> k]
      BY <1>10 DEF Pump
    <2> HIDE DEF e, k, Goal
    <2>4. AcksBounded(k) /\ Frames(k.acks) \subseteq Frames(c.acks)
      BY <1>3, <2>2 DEF AcksBounded
    <2>5. Fits(b, c, p, h) /\ \A x \in Ids : ToldAs(b.op[x], b.op[x])
      BY <1>2 DEF ToldAs
    <2>6. Goal([bridge |-> b, conn |-> k])
      BY <1>4, <2>1, <2>2, <2>4, <2>5
    <2> QED
      BY <2>3, <2>6 DEF Goal
  <1>11. CASE idle /\ c.acks = <<>> /\ cancels = {} /\ requests = {} /\ ~c.beat
    <2>1. Pump(s) = [s EXCEPT !.bridge = b]
      BY <1>11 DEF Pump
    <2>2. Pump(s) \in Server /\ Pump(s).bridge = b /\ Pump(s).conn = c
      BY <1>1, <1>2, <2>1 DEF Server, Sound
    <2> QED
      BY <1>2, <2>2 DEF Inv, ToldAs
  <1> QED
    BY <1>6, <1>7, <1>8, <1>9, <1>10, <1>11

-----------------------------------------------------------------------------
(***************************************************************************)
(* The handlers of the server.                                             *)
(***************************************************************************)
LEMMA FewerFrames ==
  ASSUME NEW b, NEW c, NEW p, NEW h, Fits(b, c, p, h),
         NEW d \in Connection, DownFits(d, h), AcksBounded(d),
         Frames(d.down) \subseteq Frames(c.down), Frames(d.up) \subseteq Frames(c.up),
         Frames(d.acks) \subseteq Frames(c.acks)
  PROVE  Fits(b, d, p, h)
  <1>1. ConnFits(d, p, h)
    BY DEF Fits, ConnFits, UpFits
  <1>2. ASSUME NEW x \in Ids
        PROVE  RecordFits(b.op[x], x, d, p, h)
    <2>1. RecordFits(b.op[x], x, c, p, h)
      BY DEF Fits
    <2>2. RequestsFit(b.op[x], x, d, p) /\ AcksFit(b.op[x], x, d)
      BY <2>1 DEF RecordFits, RequestsFit, AcksFit
    <2>3. AnswersFit(b.op[x], x, d, p)
      BY <2>1 DEF RecordFits, AnswersFit
    <2> QED
      BY <2>1, <2>2, <2>3 DEF RecordFits
  <1> QED
    BY <1>1, <1>2 DEF Fits, Types

LEMMA ConnOf == \A s \in Server : \A d : [s EXCEPT !.conn = d] = [bridge |-> s.bridge, conn |-> d]
  BY DEF Server

LEMMA GoesNowhere ==
  ASSUME NEW s, NEW p, NEW h, Inv(s, p, h)
  PROVE  Goes(s, s, p, h)
  BY DEF Goes, Tells, TellsAt, ToldAs

\* The rest of a connection changes: no frame comes, and none is read.
LEMMA ConnGoes ==
  ASSUME NEW s, NEW t, NEW p, NEW h, Goes(s, t, p, h),
         NEW d \in Connection, AcksBounded(d), d.down = t.conn.down,
         Frames(d.up) \subseteq Frames(t.conn.up),
         Frames(d.acks) \subseteq Frames(t.conn.acks)
  PROVE  Goes(s, [bridge |-> t.bridge, conn |-> d], p, h)
  <1>1. Fits(t.bridge, t.conn, p, h) /\ t \in Server /\ DownFits(t.conn, h)
    BY DEF Goes, Inv, Fits, ConnFits
  <1>2. DownFits(d, h)
    BY <1>1 DEF DownFits
  <1>3. Fits(t.bridge, d, p, h)
    BY <1>1, <1>2, FewerFrames
  <1>4. [bridge |-> t.bridge, conn |-> d] \in Server
    BY <1>1 DEF Server
  <1>5. \A x \in Ids : Past(d, x) <=> Past(t.conn, x)
    BY DEF Past
  <1> QED
    BY <1>3, <1>4, <1>5 DEF Goes, Inv

LEMMA ThenPump ==
  ASSUME NEW s, NEW t, NEW p, NEW h, Goes(s, t, p, h)
  PROVE  Goes(s, Pump(t), p, h)
  <1>1. Inv(t, p, h) /\ Tells(s.bridge, t.bridge, h)
    BY DEF Goes
  <1>2. /\ Inv(Pump(t), p, h)
        /\ \A x \in Ids : ToldAs(t.bridge.op[x], Pump(t).bridge.op[x])
        /\ \A x \in Ids : Past(Pump(t).conn, x) <=> Past(t.conn, x)
    BY <1>1, PumpGoes
  <1>3. Tells(s.bridge, Pump(t).bridge, h)
    BY <1>1, <1>2, TellsThenSame
  <1> QED
    BY <1>2, <1>3 DEF Goes

LEMMA WriteCompletesGoes ==
  ASSUME NEW s, NEW p, NEW h, Inv(s, p, h)
  PROVE  Goes(s, WriteCompletes(s), p, h)
  <1> DEFINE d == [s.conn EXCEPT !.sending = FALSE]
  <1>1. s \in Server /\ s.conn \in Connection /\ AcksBounded(s.conn)
    BY DEF Inv, Server, Fits, ConnFits
  <1>2. /\ d \in Connection /\ d.down = s.conn.down /\ d.up = s.conn.up
        /\ d.acks = s.conn.acks
    BY <1>1 DEF Connection
  <1>3. AcksBounded(d)
    BY <1>1, <1>2 DEF AcksBounded
  <1>4. [s EXCEPT !.conn.sending = FALSE] = [bridge |-> s.bridge, conn |-> d]
    <2>1. [s EXCEPT !.conn.sending = FALSE] = [s EXCEPT !.conn = d]
      BY <1>1 DEF Server
    <2>2. [s EXCEPT !.conn = d] = [bridge |-> s.bridge, conn |-> d]
      BY <1>1, ConnOf
    <2> QED
      BY <2>1, <2>2
  <1> HIDE DEF d
  <1>5. Goes(s, [bridge |-> s.bridge, conn |-> d], p, h)
    BY <1>2, <1>3, GoesNowhere, ConnGoes
  <1> QED
    BY <1>4, <1>5, ThenPump DEF WriteCompletes

LEMMA HeartbeatGoes ==
  ASSUME NEW s, NEW p, NEW h, Inv(s, p, h)
  PROVE  Goes(s, Heartbeat(s), p, h)
  <1> DEFINE d == [s.conn EXCEPT !.beat = TRUE]
  <1>1. s \in Server /\ s.conn \in Connection /\ AcksBounded(s.conn)
    BY DEF Inv, Server, Fits, ConnFits
  <1>2. /\ d \in Connection /\ d.down = s.conn.down /\ d.up = s.conn.up
        /\ d.acks = s.conn.acks
    BY <1>1 DEF Connection
  <1>3. AcksBounded(d)
    BY <1>1, <1>2 DEF AcksBounded
  <1>4. [s EXCEPT !.conn.beat = TRUE] = [bridge |-> s.bridge, conn |-> d]
    <2>1. [s EXCEPT !.conn.beat = TRUE] = [s EXCEPT !.conn = d]
      BY <1>1 DEF Server
    <2>2. [s EXCEPT !.conn = d] = [bridge |-> s.bridge, conn |-> d]
      BY <1>1, ConnOf
    <2> QED
      BY <2>1, <2>2
  <1> HIDE DEF d
  <1>5. Goes(s, [bridge |-> s.bridge, conn |-> d], p, h)
    BY <1>2, <1>3, GoesNowhere, ConnGoes
  <1> QED
    BY <1>4, <1>5, ThenPump DEF Heartbeat

LEMMA CloseGoes ==
  ASSUME NEW s, NEW p, NEW h, Inv(s, p, h)
  PROVE  /\ Goes(s, CloseSocket(s), p, h)
         /\ CloseSocket(s).bridge.op = s.bridge.op
         /\ CloseSocket(s).bridge.pending = s.bridge.pending
         /\ CloseSocket(s).conn.down = s.conn.down
         /\ ~CloseSocket(s).conn.open
  <1>1. CASE ~s.conn.open
    BY <1>1, GoesNowhere DEF CloseSocket
  <1>2. CASE s.conn.open
    <2> DEFINE b == Release(s.bridge, Owner)
               t == [s EXCEPT !.bridge = b]
               d == [NoConnection EXCEPT !.down = s.conn.down]
    <2>1. Sound(b) /\ SameRecords(s.bridge, b)
      BY ReleaseSound DEF Inv, Fits, Types
    <2>2. Goes(s, t, p, h)
      BY <2>1, LedgerGoes DEF SameRecords, Same
    <2>3. s \in Server /\ t.bridge = b /\ t.conn = s.conn /\ s.conn.down \in Seq(DownFrame)
      BY <2>1 DEF Inv, Server, Sound, Connection
    <2>4. /\ d \in Connection /\ d.down = s.conn.down /\ d.up = <<>> /\ d.acks = <<>>
          /\ d.open = FALSE
      BY <2>3, EmptyFrames DEF NoConnection, Connection
    <2>5. AcksBounded(d) /\ Frames(d.up) = {} /\ Frames(d.acks) = {}
      BY <2>4, EmptyFrames, AcksAssumption DEF AcksBounded
    <2>6. CloseSocket(s) = [bridge |-> b, conn |-> d]
      BY <1>2 DEF CloseSocket
    <2> HIDE DEF b, d, t
    <2>7. Goes(s, [bridge |-> b, conn |-> d], p, h)
      BY <2>2, <2>3, <2>4, <2>5, ConnGoes
    <2> QED
      BY <2>1, <2>4, <2>6, <2>7 DEF SameRecords
  <1> QED
    BY <1>1, <1>2

LEMMA EndWaitGoes ==
  ASSUME NEW s, NEW p, NEW h, Inv(s, p, h), NEW x \in s.bridge.pending,
         NEW state \in EndedStates
  PROVE  Goes(s, EndWait(s, x, state), p, h)
  <1> DEFINE b == EndWaiter(s.bridge, x, state)
             t == [s EXCEPT !.bridge = b]
  <1>1. Sound(s.bridge)
    BY DEF Inv, Fits, Types
  <1>2. Sound(b) /\ Ends(s.bridge, b)
    BY <1>1, WaiterEnds, EndWaiterEnds
  <1>3. Goes(s, t, p, h)
    BY <1>2, LedgerGoes DEF Ends
  <1>4. EndWait(s, x, state) \in {t, Pump(t)}
    BY DEF EndWait
  <1> QED
    BY <1>3, <1>4, ThenPump

LEMMA ArriveGoes ==
  ASSUME NEW s, NEW p, NEW h, Inv(s, p, h), NEW q \in Peers
  PROVE  Goes(s, Arrive(s, q), p, h)
  <1> DEFINE b == Register(s.bridge, q)
             t == [s EXCEPT !.bridge = b]
  <1>1. Sound(b) /\ SameRecords(s.bridge, b)
    BY RegisterSound DEF Inv, Fits, Types
  <1>2. Goes(s, t, p, h)
    BY <1>1, LedgerGoes DEF SameRecords, Same
  <1>3. Arrive(s, q) \in {t, Pump(t)}
    BY DEF Arrive
  <1> QED
    BY <1>2, <1>3, ThenPump

LEMMA LeaveGoes ==
  ASSUME NEW s, NEW p, NEW h, Inv(s, p, h), NEW q \in Peers
  PROVE  Goes(s, Leave(s, q), p, h)
  <1> DEFINE c == IF q = Transport THEN CloseSocket(s) ELSE s
             b == Unregister(c.bridge, q)
             t == [c EXCEPT !.bridge = b]
  <1>1. Goes(s, c, p, h) /\ c.bridge.op = s.bridge.op
    BY CloseGoes, GoesNowhere
  <1> HIDE DEF c
  <1>2. Inv(c, p, h) /\ Sound(c.bridge)
    BY <1>1 DEF Goes, Inv, Fits, Types
  <1>3. Sound(b) /\ Ends(c.bridge, b)
    BY <1>2, UnregisterSound, UnregisterEnds
  <1>4. Goes(c, t, p, h) /\ t.bridge = b
    BY <1>2, <1>3, LedgerGoes DEF Ends, Inv, Server
  <1>5. Goes(s, t, p, h)
    BY <1>1, <1>4 DEF Goes, Tells
  <1>6. Leave(s, q) = Pump(t)
    BY DEF Leave, c
  <1> QED
    BY <1>5, <1>6, ThenPump

-----------------------------------------------------------------------------
(***************************************************************************)
(* What the server receives.                                               *)
(***************************************************************************)
LEMMA ExecOfType == \A r \in Responses : ExecOf(r) \in Outcomes
  BY DEF ExecOf, Responses, Outcomes

\* The records change as they may, and nothing else does.
LEMMA RecordsGo ==
  ASSUME NEW s, NEW p, NEW h, Inv(s, p, h),
         NEW d, Sound(d), d.pending \subseteq s.bridge.pending,
         \A y \in Ids : RecordFits(d.op[y], y, s.conn, p, h),
         \A y \in Ids : TellsAt(s.bridge.op[y], d.op[y], y, h)
  PROVE  Goes(s, [s EXCEPT !.bridge = d], p, h)
  <1> DEFINE t == [s EXCEPT !.bridge = d]
  <1>1. t \in Server /\ t.bridge = d /\ t.conn = s.conn
    BY DEF Inv, Server, Sound
  <1>2. Few(d)
    BY FewerStay DEF Inv, Fits, Types
  <1>3. Fits(d, s.conn, p, h)
    BY <1>2 DEF Inv, Fits, Types
  <1> QED
    BY <1>1, <1>3 DEF Goes, Inv, Tells

\* What a transport may say of an operation that it was handed.
LEMMA OpenStages ==
  ASSUME NEW b, Sound(b), NEW x \in Ids, NEW h, StagesFit(b.op[x], x, h),
         b.op[x].state \notin {"none", "settled"}, b.op[x].via # None
  PROVE  /\ b.op[x].state \in {"pending"} \cup EndedStates
         /\ b.op[x].stage # "response_delivery" => b.op[x].exec = "unknown"
  <1>1. b.op[x] \in Operation
    BY DEF Sound, Bridge
  <1>2. b.op[x].stage # "queued"
    BY DEF StagesFit
  <1> QED
    BY <1>1, <1>2 DEF Operation, Stages, StagesFit

LEMMA ProgressPends ==
  ASSUME NEW b, Sound(b), NEW t, NEW x, NEW phase \in Stages, NEW exec \in Outcomes
  PROVE  Progress(b, t, x, phase, exec).pending = b.pending
  BY ProgressReports

LEMMA ProgressGoes ==
  ASSUME NEW s, NEW p, NEW h, Inv(s, p, h),
         NEW x \in Ids, x \in Remembered(p),
         NEW phase \in Stages, NEW exec \in Outcomes,
         \/ phase = "executing"
         \/ /\ phase = "response_delivery" /\ Holds(h, x, exec) /\ x \notin p.work
            /\ p.pend[x] # "none" => ExecOf(p.pend[x]) = exec
            /\ \A f \in Frames(s.conn.up) : IsAnswer(f, x) => ExecOf(f.response) = exec
  PROVE  Goes(s, [s EXCEPT !.bridge = Progress(s.bridge, Transport, x, phase, exec)], p, h)
  <1> DEFINE b == s.bridge
             d == Progress(b, Transport, x, phase, exec)
  <1>1. Sound(b) /\ Few(b) /\ \A y \in Ids : RecordFits(b.op[y], y, s.conn, p, h)
    BY DEF Inv, Fits, Types
  <1>2. /\ Sound(d) /\ d.pending = b.pending
        /\ \/ Drops(b, d)
           \/ /\ ReportsAt(b, d, x, Transport, phase, exec)
              /\ \A y \in Ids \ {x} : DropsAt(b, d, y)
    <2>1. Sound(d)
      BY <1>1, ProgressSound
    <2>2. d.pending = b.pending
      BY <1>1, ProgressPends
    <2>3. \/ Drops(b, d)
          \/ /\ ReportsAt(b, d, x, Transport, phase, exec)
             /\ \A y \in Ids \ {x} : DropsAt(b, d, y)
      BY <1>1, ProgressReports
    <2> QED
      BY <2>1, <2>2, <2>3
  <1>3. CASE Drops(b, d)
    BY <1>2, <1>3, LedgerGoes DEF Drops
  <1>4. CASE /\ ReportsAt(b, d, x, Transport, phase, exec)
             /\ \A y \in Ids \ {x} : DropsAt(b, d, y)
    <2>1. RecordFits(d.op[x], x, s.conn, p, h)
      BY <1>1, <1>4, ReportFits
    <2>2. \A y \in Ids \ {x} : RecordFits(d.op[y], y, s.conn, p, h)
      BY <1>1, <1>4, DropFits
    <2>3. \A y \in Ids \ {x} : TellsAt(b.op[y], d.op[y], y, h)
      BY <1>4, DropTells
    <2>4. TellsAt(b.op[x], d.op[x], x, h)
      <3>1. /\ b.op[x].state \notin {"none", "settled"} /\ b.op[x].via # None
            /\ b.op[x].stage # "response_delivery" /\ d.op[x].state = b.op[x].state
            /\ d.op[x].exec = IF phase = "executing" THEN b.op[x].exec ELSE exec
        BY <1>4, TransportAssumption, NoneAssumption DEF ReportsAt
      <3>2. b.op[x].state \in {"pending"} \cup EndedStates /\ b.op[x].exec = "unknown"
        BY <1>1, <3>1, OpenStages DEF RecordFits
      <3> QED
        BY <3>1, <3>2 DEF TellsAt, Finishes, EndedStates, ToldAs
    <2> QED
      BY <1>2, <2>1, <2>2, <2>3, <2>4, RecordsGo
  <1> QED
    BY <1>2, <1>3, <1>4

LEMMA SettleGoes ==
  ASSUME NEW s, NEW p, NEW h, Inv(s, p, h),
         NEW x \in Ids, x \in Remembered(p), NEW r \in Responses, r # "send_failed",
         Holds(h, x, ExecOf(r)), x \notin p.work,
         p.pend[x] # "none" => ExecOf(p.pend[x]) = ExecOf(r),
         \A f \in Frames(s.conn.up) : IsAnswer(f, x) => ExecOf(f.response) = ExecOf(r),
         s.bridge.op[x].stage = "response_delivery" => s.bridge.op[x].exec = ExecOf(r)
  PROVE  LET t == [s EXCEPT !.bridge = Settle(s.bridge, Transport, x, r)]
         IN  /\ Goes(s, t, p, h)
             /\ t.conn = s.conn
             /\ Disposition(s.bridge, Transport, x) # "unknown" =>
                  t.bridge.op[x].state \in {"settled", "none"}
  <1> DEFINE b == s.bridge
             d == Settle(b, Transport, x, r)
             t == [s EXCEPT !.bridge = d]
  <1>1. /\ Sound(b) /\ Few(b) /\ \A y \in Ids : RecordFits(b.op[y], y, s.conn, p, h)
        /\ t.bridge = d /\ t.conn = s.conn
    BY DEF Inv, Fits, Types, Server
  <1>2. Sound(d) /\ d.pending \subseteq b.pending
    BY <1>1, SettleSound
  <1>3. ASSUME Drops(b, d)
        PROVE  Goes(s, t, p, h)
    BY <1>2, <1>3, LedgerGoes DEF Drops
  <1>4. ASSUME SettlesAt(b, d, x, Transport, r),
               \A y \in Ids \ {x} : DropsAt(b, d, y)
        PROVE  Goes(s, t, p, h)
    <2>1. RecordFits(d.op[x], x, s.conn, p, h)
      BY <1>1, <1>4, SettlementFits
    <2>2. \A y \in Ids \ {x} : RecordFits(d.op[y], y, s.conn, p, h)
      BY <1>1, <1>4, DropFits
    <2>3. \A y \in Ids \ {x} : TellsAt(b.op[y], d.op[y], y, h)
      BY <1>4, DropTells
    <2>4. TellsAt(b.op[x], d.op[x], x, h)
      <3>1. /\ b.op[x].state \notin {"none", "settled"} /\ b.op[x].via # None
            /\ d.op[x].state = "settled" /\ d.op[x].exec = ExecOf(r)
        BY <1>4, TransportAssumption, NoneAssumption DEF SettlesAt
      <3>2. /\ b.op[x].state \in {"pending"} \cup EndedStates
            /\ b.op[x].stage # "response_delivery" => b.op[x].exec = "unknown"
        BY <1>1, <3>1, OpenStages DEF RecordFits
      <3> QED
        BY <3>1, <3>2 DEF TellsAt, Finishes, EndedStates, ToldAs
    <2> QED
      BY <1>2, <2>1, <2>2, <2>3, <2>4, RecordsGo
  <1>5. \/ Drops(b, d)
        \/ /\ SettlesAt(b, d, x, Transport, r)
           /\ \A y \in Ids \ {x} : DropsAt(b, d, y)
    BY <1>1, SettleSettles DEF Drops, DropsAt
  <1>6. Disposition(b, Transport, x) # "unknown" => d.op[x].state \in {"settled", "none"}
    BY <1>1, SettleSettles DEF SettlesAt, Blank
  <1> QED
    BY <1>1, <1>3, <1>4, <1>5, <1>6

\* An acknowledgement comes to wait, for an operation that is done with or unknown.
LEMMA AckFits ==
  ASSUME NEW b, NEW c, NEW p, NEW h, Fits(b, c, p, h),
         NEW e \in Ack, ~e.past,
         e.disposition # "unknown" => b.op[e.id].state \in {"settled", "none"},
         NEW d \in Connection, d.down = c.down, d.up = c.up,
         Frames(d.acks) \subseteq Frames(c.acks) \cup {e}, AcksBounded(d)
  PROVE  Fits(b, d, p, h)
  <1>1. ConnFits(d, p, h)
    BY DEF Fits, ConnFits, DownFits, UpFits
  <1>2. ASSUME NEW x \in Ids
        PROVE  RecordFits(b.op[x], x, d, p, h)
    <2>1. RecordFits(b.op[x], x, c, p, h)
      BY DEF Fits
    <2>2. RequestsFit(b.op[x], x, d, p) /\ AnswersFit(b.op[x], x, d, p)
      BY <2>1 DEF RecordFits, RequestsFit, AnswersFit
    <2>3. AcksFit(b.op[x], x, d)
      BY <2>1 DEF RecordFits, AcksFit, SaysRecorded
    <2> QED
      BY <2>1, <2>2, <2>3 DEF RecordFits
  <1> QED
    BY <1>1, <1>2 DEF Fits, Types

\* Whether it takes the place of one that waits for the same operation, or follows.
LEMMA Replaced ==
  ASSUME NEW c \in Connection, AcksBounded(c), NEW e \in Ack,
         NEW acks \in Seq(Ack), Len(acks) = Len(c.acks), DOMAIN acks = DOMAIN c.acks,
         \A i \in DOMAIN acks : /\ (acks[i] = c.acks[i] \/ acks[i] = e)
                                /\ acks[i].id = c.acks[i].id
  PROVE  LET d == [c EXCEPT !.acks = acks]
         IN  /\ d \in Connection /\ d.down = c.down /\ d.up = c.up
             /\ Frames(d.acks) \subseteq Frames(c.acks) \cup {e} /\ AcksBounded(d)
  <1> DEFINE d == [c EXCEPT !.acks = acks]
  <1>1. /\ d \in Connection /\ d.down = c.down /\ d.up = c.up /\ d.acks = acks
    BY DEF Connection
  <1>2. Frames(acks) \subseteq Frames(c.acks) \cup {e}
    BY DEF Frames
  <1> HIDE DEF d
  <1>3. AcksBounded(d)
    BY <1>1 DEF AcksBounded
  <1> QED
    BY <1>1, <1>2, <1>3 DEF d

LEMMA Appended ==
  ASSUME NEW c \in Connection, AcksBounded(c), NEW e \in Ack,
         \A i \in DOMAIN c.acks : c.acks[i].id # e.id, Len(c.acks) < MaxAcks
  PROVE  LET d == [c EXCEPT !.acks = Append(c.acks, e)]
         IN  /\ d \in Connection /\ d.down = c.down /\ d.up = c.up
             /\ Frames(d.acks) \subseteq Frames(c.acks) \cup {e} /\ AcksBounded(d)
  <1> DEFINE acks == Append(c.acks, e)
             d == [c EXCEPT !.acks = acks]
  <1>1. c.acks \in Seq(Ack) /\ DOMAIN c.acks = 1 .. Len(c.acks) /\ Len(c.acks) \in Nat
    BY FramesType DEF Connection
  <1>2. /\ acks \in Seq(Ack) /\ DOMAIN acks = 1 .. Len(c.acks) + 1
        /\ Len(acks) = Len(c.acks) + 1 /\ acks[Len(c.acks) + 1] = e
        /\ \A i \in 1 .. Len(c.acks) : acks[i] = c.acks[i]
        /\ Frames(acks) = Frames(c.acks) \cup {e}
    BY <1>1, AppendFrames
  <1> HIDE DEF acks
  <1>3. /\ d \in Connection /\ d.down = c.down /\ d.up = c.up /\ d.acks = acks
    BY <1>2 DEF Connection
  <1>4. Len(acks) <= MaxAcks
    BY <1>1, <1>2, AcksAssumption
  <1>5. ASSUME NEW i \in DOMAIN acks, NEW j \in DOMAIN acks, acks[i].id = acks[j].id
        PROVE  i = j
    <2>1. i \in DOMAIN c.acks \/ i = Len(c.acks) + 1
      BY <1>1, <1>2
    <2>2. j \in DOMAIN c.acks \/ j = Len(c.acks) + 1
      BY <1>1, <1>2
    <2> QED
      BY <1>1, <1>2, <1>5, <2>1, <2>2 DEF AcksBounded
  <1> HIDE DEF d
  <1>6. AcksBounded(d)
    BY <1>3, <1>4, <1>5 DEF AcksBounded
  <1> QED
    BY <1>2, <1>3, <1>6 DEF acks, d

\* Two steps of which one leaves the records alone.
LEMMA GoesOn ==
  ASSUME NEW s, NEW t, NEW u, NEW p, NEW h, Goes(s, t, p, h), Goes(t, u, p, h),
         t.bridge.op = s.bridge.op \/ u.bridge.op = t.bridge.op
  PROVE  Goes(s, u, p, h)
  BY DEF Goes, Tells

LEMMA AckGoes ==
  ASSUME NEW s, NEW t, NEW p, NEW h, Goes(s, t, p, h), NEW e \in Ack, ~e.past,
         e.disposition # "unknown" => t.bridge.op[e.id].state \in {"settled", "none"},
         NEW d \in Connection, d.down = t.conn.down, d.up = t.conn.up,
         Frames(d.acks) \subseteq Frames(t.conn.acks) \cup {e}, AcksBounded(d)
  PROVE  Goes(s, Pump([bridge |-> t.bridge, conn |-> d]), p, h)
  <1> DEFINE u == [bridge |-> t.bridge, conn |-> d]
  <1>1. Fits(t.bridge, t.conn, p, h) /\ t \in Server
    BY DEF Goes, Inv
  <1>2. Fits(t.bridge, d, p, h)
    BY <1>1, AckFits
  <1>3. u \in Server
    BY <1>1 DEF Server
  <1>4. \A x \in Ids : Past(d, x) <=> Past(t.conn, x)
    BY DEF Past
  <1>5. Goes(s, u, p, h)
    BY <1>2, <1>3, <1>4 DEF Goes, Inv
  <1> QED
    BY <1>5, ThenPump

LEMMA AcknowledgeGoes ==
  ASSUME NEW s, NEW p, NEW h, Inv(s, p, h),
         NEW x \in Ids, x \in Remembered(p), NEW r \in Responses, r # "send_failed",
         Holds(h, x, ExecOf(r)), x \notin p.work,
         p.pend[x] # "none" => ExecOf(p.pend[x]) = ExecOf(r),
         \A f \in Frames(s.conn.up) : IsAnswer(f, x) => ExecOf(f.response) = ExecOf(r),
         s.bridge.op[x].stage = "response_delivery" => s.bridge.op[x].exec = ExecOf(r)
  PROVE  Goes(s, Acknowledge(s, x, r), p, h)
  <1> DEFINE e == [kind |-> "ack", id |-> x, past |-> FALSE,
                   disposition |-> Disposition(s.bridge, Transport, x)]
             t == [s EXCEPT !.bridge = Settle(@, Transport, x, r)]
             c == t.conn
             known == {i \in DOMAIN c.acks : c.acks[i].id = x}
  <1>1. /\ Goes(s, t, p, h)
        /\ Disposition(s.bridge, Transport, x) # "unknown" =>
             t.bridge.op[x].state \in {"settled", "none"}
    BY SettleGoes
  <1>2. Disposition(s.bridge, Transport, x) \in Dispositions
    BY DEF Disposition, Dispositions
  <1>3. /\ e \in Ack /\ ~e.past /\ e.id = x
        /\ e.disposition # "unknown" => t.bridge.op[x].state \in {"settled", "none"}
    BY <1>1, <1>2 DEF Ack
  <1>4. Acknowledge(s, x, r) =
          CASE known # {} ->
                 Pump([t EXCEPT !.conn.acks = [i \in DOMAIN @ |-> IF i \in known THEN e ELSE @[i]]])
            [] known = {} /\ Len(t.conn.acks) >= MaxAcks -> CloseSocket(t)
            [] known = {} /\ Len(t.conn.acks) < MaxAcks ->
                 Pump([t EXCEPT !.conn.acks = Append(@, e)])
    BY DEF Acknowledge
  <1> HIDE DEF e, t
  <1>5. t \in Server /\ c \in Connection /\ AcksBounded(c) /\ Inv(t, p, h) /\ c = t.conn
    BY <1>1 DEF Goes, Inv, Fits, ConnFits, Server
  <1>51. known = {i \in DOMAIN c.acks : c.acks[i].id = e.id}
    BY <1>3
  <1> HIDE DEF c, known
  <1>6. Len(c.acks) \in Nat
    BY <1>5 DEF Connection
  <1>7. CASE known # {}
    <2> DEFINE acks == [i \in DOMAIN c.acks |-> IF i \in known THEN e ELSE c.acks[i]]
               d == [c EXCEPT !.acks = acks]
    <2>1. Acknowledge(s, x, r) = Pump([t EXCEPT !.conn.acks = acks])
      BY <1>4, <1>5, <1>7
    <2> HIDE DEF acks
    <2>2. [t EXCEPT !.conn.acks = acks] = [t EXCEPT !.conn = d]
      BY <1>5 DEF Server
    <2>3. /\ acks \in Seq(Ack) /\ Len(acks) = Len(c.acks) /\ DOMAIN acks = DOMAIN c.acks
          /\ \A i \in DOMAIN acks : /\ (acks[i] = c.acks[i] \/ acks[i] = e)
                                     /\ acks[i].id = c.acks[i].id
      <3>1. c.acks \in Seq(Ack) /\ DOMAIN c.acks = 1 .. Len(c.acks) /\ Len(c.acks) \in Nat
        BY <1>5, FramesType DEF Connection
      <3>2. acks \in [1 .. Len(c.acks) -> Ack]
        BY <1>3, <3>1 DEF acks
      <3>3. \A i \in DOMAIN c.acks : acks[i] = IF i \in known THEN e ELSE c.acks[i]
        BY DEF acks
      <3>4. acks \in Seq(Ack) /\ Len(acks) = Len(c.acks) /\ DOMAIN acks = DOMAIN c.acks
        BY <3>1, <3>2
      <3> QED
        BY <1>51, <3>3, <3>4
    <2>6. /\ d \in Connection /\ d.down = c.down /\ d.up = c.up
          /\ Frames(d.acks) \subseteq Frames(c.acks) \cup {e} /\ AcksBounded(d)
      <3>1. e \in Ack /\ c \in Connection /\ AcksBounded(c)
        BY <1>3, <1>5
      <3> QED
        BY <2>3, <3>1, Replaced
    <2> HIDE DEF d
    <2>4. [t EXCEPT !.conn = d] = [bridge |-> t.bridge, conn |-> d]
      BY <1>5, ConnOf
    <2>5. Goes(s, Pump([bridge |-> t.bridge, conn |-> d]), p, h)
      BY <1>1, <1>3, <1>5, <2>6, AckGoes
    <2> QED
      BY <2>1, <2>2, <2>4, <2>5
  <1>8. CASE known = {} /\ Len(c.acks) >= MaxAcks
    <2>1. Acknowledge(s, x, r) = CloseSocket(t)
      BY <1>4, <1>5, <1>6, <1>8, AcksAssumption
    <2> QED
      BY <1>1, <1>5, <2>1, CloseGoes, GoesOn
  <1>9. CASE known = {} /\ Len(c.acks) < MaxAcks
    <2> DEFINE acks == Append(c.acks, e)
               d == [c EXCEPT !.acks = acks]
    <2>1. Acknowledge(s, x, r) = Pump([t EXCEPT !.conn.acks = acks])
      BY <1>4, <1>5, <1>6, <1>9, AcksAssumption
    <2> HIDE DEF acks
    <2>2. [t EXCEPT !.conn.acks = acks] = [t EXCEPT !.conn = d]
      BY <1>5 DEF Server
    <2>3. \A i \in DOMAIN c.acks : c.acks[i].id # e.id
      BY <1>9, <1>51
    <2>6. /\ d \in Connection /\ d.down = c.down /\ d.up = c.up
          /\ Frames(d.acks) \subseteq Frames(c.acks) \cup {e} /\ AcksBounded(d)
      BY <1>3, <1>5, <1>9, <2>3, Appended DEF acks
    <2> HIDE DEF d
    <2>4. [t EXCEPT !.conn = d] = [bridge |-> t.bridge, conn |-> d]
      BY <1>5, ConnOf
    <2>5. Goes(s, Pump([bridge |-> t.bridge, conn |-> d]), p, h)
      BY <1>1, <1>3, <1>5, <2>6, AckGoes
    <2> QED
      BY <2>1, <2>2, <2>4, <2>5
  <1> QED
    BY <1>6, <1>7, <1>8, <1>9, AcksAssumption

LEMMA ReceiveGoes ==
  ASSUME NEW s, NEW p, NEW h, Inv(s, p, h), s.conn.up # <<>>
  PROVE  Goes(s, Receive(s), p, h)
  <1> DEFINE f == Head(s.conn.up)
             d == [s.conn EXCEPT !.up = Tail(s.conn.up)]
             t == [s EXCEPT !.conn.up = Tail(@)]
             x == f.id
  <1>1. s \in Server /\ s.conn \in Connection /\ AcksBounded(s.conn)
        /\ UpFits(s.conn, p, h) /\ \A y \in Ids : RecordFits(s.bridge.op[y], y, s.conn, p, h)
    BY DEF Inv, Server, Fits, ConnFits
  <1>2. /\ Tail(s.conn.up) \in Seq(UpFrame) /\ f \in UpFrame
        /\ Frames(s.conn.up) = {f} \cup Frames(Tail(s.conn.up))
    <2>1. s.conn.up \in Seq(UpFrame)
      BY <1>1 DEF Connection
    <2> QED
      BY <2>1, TailFrames
  <1>3. /\ d \in Connection /\ d.down = s.conn.down /\ d.up = Tail(s.conn.up)
        /\ d.acks = s.conn.acks /\ AcksBounded(d)
    BY <1>1, <1>2 DEF Connection, AcksBounded
  <1>4. t = [s EXCEPT !.conn = d]
    BY <1>1 DEF Server
  <1>5. Receive(s) =
          CASE f.kind = "executing" ->
                 [t EXCEPT !.bridge = Progress(@, Transport, x, "executing", "unknown")]
            [] f.kind = "returned" ->
                 [t EXCEPT !.bridge = Progress(@, Transport, x, "response_delivery",
                                               ExecOf(f.response))]
            [] f.kind = "response" -> Acknowledge(t, x, f.response)
    BY DEF Receive
  <1> HIDE DEF f, d, t
  <1>6. t = [bridge |-> s.bridge, conn |-> d]
    BY <1>1, <1>4, ConnOf
  <1>7. Goes(s, t, p, h)
    BY <1>2, <1>3, <1>6, GoesNowhere, ConnGoes
  <1>8. /\ Inv(t, p, h) /\ t.bridge = s.bridge /\ t.conn = d
        /\ Frames(t.conn.up) \subseteq Frames(s.conn.up)
    BY <1>2, <1>3, <1>6, <1>7 DEF Goes
  <1>9. f \in Frames(s.conn.up) /\ x \in Remembered(p) /\ x \in Ids
    BY <1>1, <1>2 DEF UpFits, UpFrame
  <1>10. ASSUME f.kind = "executing"
         PROVE  Goes(s, Receive(s), p, h)
    <2>1. Receive(s) = [t EXCEPT !.bridge = Progress(t.bridge, Transport, x, "executing", "unknown")]
      BY <1>5, <1>10
    <2>2. "executing" \in Stages /\ "unknown" \in Outcomes
      BY DEF Stages, Outcomes
    <2>3. Goes(t, Receive(s), p, h)
      BY <1>8, <1>9, <2>1, <2>2, ProgressGoes
    <2> QED
      BY <1>7, <1>8, <2>3, GoesOn
  <1>11. ASSUME f.kind \in {"returned", "response"}
         PROVE  /\ f.response \in Responses /\ f.response # "send_failed"
                /\ Holds(h, x, ExecOf(f.response)) /\ x \notin p.work
                /\ p.pend[x] # "none" => ExecOf(p.pend[x]) = ExecOf(f.response)
                /\ \A g \in Frames(t.conn.up) :
                     IsAnswer(g, x) => ExecOf(g.response) = ExecOf(f.response)
                /\ s.bridge.op[x].stage = "response_delivery" =>
                     s.bridge.op[x].exec = ExecOf(f.response)
    <2>1. IsAnswer(f, x)
      BY <1>11 DEF IsAnswer
    <2>2. f.response \in Responses
      BY <1>2, <1>11 DEF UpFrame
    <2>3. /\ x \notin p.work /\ f.response # "send_failed"
          /\ p.pend[x] \in {"none", f.response}
          /\ Holds(h, x, ExecOf(f.response))
          /\ \A g \in Frames(s.conn.up) : IsAnswer(g, x) => g.response = f.response
      BY <1>1, <1>9, <2>1 DEF UpFits
    <2>4. AnswersFit(s.bridge.op[x], x, s.conn, p)
      BY <1>1, <1>9 DEF RecordFits
    <2>5. s.bridge.op[x].stage = "response_delivery" =>
            s.bridge.op[x].exec = ExecOf(f.response)
      BY <1>9, <2>1, <2>4 DEF AnswersFit
    <2> QED
      BY <1>8, <2>2, <2>3, <2>5
  <1>12. ASSUME f.kind = "returned"
         PROVE  Goes(s, Receive(s), p, h)
    <2>1. Receive(s) = [t EXCEPT !.bridge = Progress(t.bridge, Transport, x, "response_delivery",
                                                     ExecOf(f.response))]
      BY <1>5, <1>12
    <2>2. "response_delivery" \in Stages /\ ExecOf(f.response) \in Outcomes
      BY <1>11, <1>12, ExecOfType DEF Stages
    <2>3. Goes(t, Receive(s), p, h)
      BY <1>8, <1>9, <1>11, <1>12, <2>1, <2>2, ProgressGoes
    <2> QED
      BY <1>7, <1>8, <2>3, GoesOn
  <1>13. ASSUME f.kind = "response"
         PROVE  Goes(s, Receive(s), p, h)
    <2>1. Receive(s) = Acknowledge(t, x, f.response)
      BY <1>5, <1>13
    <2>2. Goes(t, Receive(s), p, h)
      BY <1>8, <1>9, <1>11, <1>13, <2>1, AcknowledgeGoes
    <2> QED
      BY <1>7, <1>8, <2>2, GoesOn
  <1> QED
    BY <1>2, <1>10, <1>12, <1>13 DEF UpFrame

\* A new socket: what the old one carried is not read any more.
LEMMA OpenKeeps ==
  ASSUME NEW s, NEW p, NEW h, Inv(s, p, h)
  PROVE  /\ Inv(OpenSocket(s), p, h)
         /\ \A x \in Ids : ToldAs(s.bridge.op[x], OpenSocket(s).bridge.op[x])
         /\ \A x \in Ids : ~Past(OpenSocket(s).conn, x)
  <1> DEFINE t == CloseSocket(s)
             d == [NoConnection EXCEPT !.open = TRUE]
             u == [t EXCEPT !.conn = d]
  <1>1. Inv(t, p, h) /\ t.bridge.op = s.bridge.op
    BY CloseGoes DEF Goes
  <1>2. /\ d \in Connection /\ d.down = <<>> /\ d.up = <<>> /\ d.acks = <<>>
    BY EmptyFrames DEF NoConnection, Connection
  <1>3. OpenSocket(s) = Pump(u)
    BY DEF OpenSocket
  <1> HIDE DEF t, d
  <1>4. t \in Server /\ Fits(t.bridge, t.conn, p, h)
    BY <1>1 DEF Inv
  <1>5. u = [bridge |-> t.bridge, conn |-> d]
    BY <1>4, ConnOf
  <1>6. AcksBounded(d) /\ DownFits(d, h)
    BY <1>2, EmptyFrames, AcksAssumption DEF AcksBounded, DownFits
  <1>7. Fits(t.bridge, d, p, h)
    BY <1>2, <1>4, <1>6, EmptyFrames, FewerFrames
  <1>8. u \in Server /\ u.bridge = t.bridge /\ u.conn = d
    BY <1>2, <1>4, <1>5 DEF Server
  <1>9. Inv(u, p, h) /\ \A x \in Ids : ~Past(u.conn, x)
    BY <1>2, <1>7, <1>8, EmptyFrames DEF Inv, Past
  <1> HIDE DEF u
  <1>10. /\ Inv(Pump(u), p, h)
         /\ \A x \in Ids : ToldAs(u.bridge.op[x], Pump(u).bridge.op[x])
         /\ \A x \in Ids : ~Past(Pump(u).conn, x)
    BY <1>9, PumpGoes
  <1> QED
    BY <1>1, <1>3, <1>8, <1>10

-----------------------------------------------------------------------------
(***************************************************************************)
(* Frames that grow out of date: an id is admitted again, the server       *)
(* restarts.                                                               *)
(***************************************************************************)
Marks(f, g, S) ==
  /\ g.kind = f.kind
  /\ f.kind = "ack" => g.disposition = f.disposition
  /\ IF f.kind \in {"request", "ack"} /\ f.id \in S THEN g.id = f.id /\ g.past ELSE g = f

LEMMA OutdatedMarks ==
  ASSUME NEW X, X = DownFrame \/ X = Ack, NEW frames \in Seq(X), NEW S
  PROVE  /\ Outdated(frames, S) \in Seq(X)
         /\ Len(Outdated(frames, S)) = Len(frames)
         /\ DOMAIN Outdated(frames, S) = DOMAIN frames
         /\ \A i \in DOMAIN frames : Marks(frames[i], Outdated(frames, S)[i], S)
  <1> DEFINE new == Outdated(frames, S)
  <1>1. DOMAIN frames = 1 .. Len(frames) /\ Len(frames) \in Nat
        /\ \A i \in DOMAIN frames : frames[i] \in X
    OBVIOUS
  <1>2. /\ DOMAIN new = DOMAIN frames
        /\ \A i \in DOMAIN frames :
             new[i] = IF frames[i].kind \in {"request", "ack"} /\ frames[i].id \in S
                        THEN [frames[i] EXCEPT !.past = TRUE] ELSE frames[i]
    BY DEF Outdated
  <1> HIDE DEF new
  <1>3. ASSUME NEW f \in DownFrame, f.kind \in {"request", "ack"}
        PROVE  LET g == [f EXCEPT !.past = TRUE]
               IN  /\ g \in DownFrame /\ (f \in Ack => g \in Ack)
                   /\ g.kind = f.kind /\ g.id = f.id /\ g.past = TRUE
                   /\ f.kind = "ack" => g.disposition = f.disposition
    <2>1. CASE f \in [kind : {"request"}, id : Ids, past : BOOLEAN]
      BY <2>1 DEF DownFrame, Ack
    <2>2. CASE f \in Ack
      BY <2>2 DEF DownFrame, Ack
    <2> QED
      BY <1>3, <2>1, <2>2 DEF DownFrame
  <1>4. X \subseteq DownFrame
    BY DEF DownFrame
  <1>5. ASSUME NEW i \in DOMAIN frames
        PROVE  new[i] \in X /\ Marks(frames[i], new[i], S)
    <2>1. frames[i] \in X /\ frames[i] \in DownFrame
      BY <1>1, <1>4
    <2>2. CASE frames[i].kind \in {"request", "ack"} /\ frames[i].id \in S
      <3>1. new[i] = [frames[i] EXCEPT !.past = TRUE]
        BY <1>2, <2>2
      <3>2. /\ new[i] \in DownFrame /\ (frames[i] \in Ack => new[i] \in Ack)
            /\ new[i].kind = frames[i].kind /\ new[i].id = frames[i].id /\ new[i].past = TRUE
            /\ frames[i].kind = "ack" => new[i].disposition = frames[i].disposition
        BY <1>3, <2>1, <2>2, <3>1
      <3> QED
        BY <2>1, <2>2, <3>2 DEF Marks
    <2>3. CASE ~(frames[i].kind \in {"request", "ack"} /\ frames[i].id \in S)
      BY <1>2, <2>1, <2>3 DEF Marks
    <2> QED
      BY <2>2, <2>3
  <1>6. new \in [1 .. Len(frames) -> X]
    <2>1. new = [i \in DOMAIN frames |-> new[i]]
      BY DEF new, Outdated
    <2> QED
      BY <1>1, <1>5, <2>1
  <1>7. new \in Seq(X) /\ Len(new) = Len(frames)
    BY <1>1, <1>6
  <1> QED
    BY <1>2, <1>5, <1>7 DEF new

\* What holds of the frames that are left as they were, and of those that are marked.
LEMMA MarkedFits ==
  ASSUME NEW c \in Connection, NEW d \in Connection, NEW S, NEW h, NEW k,
         DownFits(c, h), k.entered \subseteq h.entered,
         DOMAIN d.down = DOMAIN c.down,
         \A i \in DOMAIN c.down : Marks(c.down[i], d.down[i], S)
  PROVE  /\ DownFits(d, k)
         /\ \A x : (x \notin S => (Past(d, x) <=> Past(c, x)))
         /\ \A x : Past(c, x) => Past(d, x)
         /\ \A x : Past(d, x) => x \notin h.entered
         /\ \A g \in Frames(d.down) : \E f \in Frames(c.down) : Marks(f, g, S)
  <1>1. \A g \in Frames(d.down) : \E f \in Frames(c.down) : Marks(f, g, S)
    BY DEF Frames
  <1>2. \A f \in Frames(c.down) : \E g \in Frames(d.down) : Marks(f, g, S)
    BY DEF Frames
  <1>3. \A i \in DOMAIN c.down :
          d.down[i].kind = "request" => /\ c.down[i].kind = "request"
                                        /\ d.down[i].id = c.down[i].id
                                        /\ c.down[i].past => d.down[i].past
    BY DEF Marks
  <1>4. DownFits(d, k)
    <2>1. \A f \in Frames(d.down) : f.kind = "request" => f.id \notin k.entered
      BY <1>3 DEF DownFits, Frames
    <2>2. \A i, j \in DOMAIN d.down :
            /\ i < j /\ d.down[i].kind = "request" /\ d.down[j].kind = "request"
            /\ d.down[i].id = d.down[j].id
            => d.down[i].past
      BY <1>3 DEF DownFits
    <2> QED
      BY <2>1, <2>2 DEF DownFits
  <1>5. \A x : x \notin S => (Past(d, x) <=> Past(c, x))
    BY <1>1, <1>2 DEF Past, IsRequest, Marks
  <1>6. \A x : Past(c, x) => Past(d, x)
    BY <1>2 DEF Past, IsRequest, Marks
  <1>7. \A x : Past(d, x) => x \notin h.entered
    BY <1>1 DEF Past, IsRequest, Marks, DownFits
  <1> QED
    BY <1>1, <1>4, <1>5, <1>6, <1>7

\* A server that restarts knows of nothing.
LEMMA RestartKeeps ==
  ASSUME NEW s, NEW p, NEW h, Inv(s, p, h)
  PROVE  LET t == [InitialServer EXCEPT !.conn.down = Outdated(s.conn.down, Ids)]
         IN  /\ Inv(t, p, h)
             /\ \A x \in Ids : t.bridge.op[x] = NoRecord
             /\ \A x \in Ids : Past(s.conn, x) => Past(t.conn, x)
  <1> DEFINE down == Outdated(s.conn.down, Ids)
             t == [InitialServer EXCEPT !.conn.down = down]
             d == [NoConnection EXCEPT !.down = down]
             b == InitialBridge
  <1>1. /\ s \in Server /\ s.conn \in Connection /\ s.conn.down \in Seq(DownFrame)
        /\ Fits(s.bridge, s.conn, p, h)
    BY DEF Inv, Server, Connection
  <1>2. /\ down \in Seq(DownFrame) /\ DOMAIN down = DOMAIN s.conn.down
        /\ \A i \in DOMAIN s.conn.down : Marks(s.conn.down[i], down[i], Ids)
    BY <1>1, OutdatedMarks
  <1> HIDE DEF down
  <1>3. t = [bridge |-> b, conn |-> d]
    BY DEF InitialServer
  <1>4. /\ d \in Connection /\ d.down = down /\ d.up = <<>> /\ d.acks = <<>>
    BY <1>2, EmptyFrames DEF NoConnection, Connection
  <1>5. /\ Sound(b) /\ Few(b) /\ \A x \in Ids : b.op[x] = NoRecord
    <2>1. b.pending = {} /\ \A x \in Ids : b.op[x] = NoRecord
      BY DEF InitialBridge
    <2> QED
      BY <2>1, InitialSound, FS_EmptySet, LimitsAssumption DEF Few
  <1> HIDE DEF b, d, t
  <1>6. /\ DownFits(d, h) /\ \A x \in Ids : Past(s.conn, x) => Past(d, x)
    BY <1>1, <1>2, <1>4, MarkedFits DEF Fits, ConnFits
  <1>7. ConnFits(d, p, h)
    BY <1>4, <1>6, EmptyFrames, AcksAssumption DEF ConnFits, UpFits, AcksBounded
  <1>8. ASSUME NEW x \in Ids
        PROVE  RecordFits(b.op[x], x, d, p, h)
    <2>1. Blank(b.op[x])
      BY <1>5 DEF Blank, NoRecord
    <2> QED
      BY <2>1 DEF Blank, RecordFits, StagesFit, RequestsFit, AnswersFit, AcksFit
  <1>9. Fits(b, d, p, h) /\ t \in Server
    BY <1>1, <1>3, <1>4, <1>5, <1>7, <1>8 DEF Fits, Types, Server, Sound
  <1>10. /\ Inv(t, p, h)
         /\ \A x \in Ids : t.bridge.op[x] = NoRecord
         /\ \A x \in Ids : Past(s.conn, x) => Past(t.conn, x)
    BY <1>3, <1>5, <1>6, <1>9 DEF Inv
  <1> QED
    BY <1>10 DEF t, down

\* An id is admitted that no one waits for: whatever is left of it is past.
LEMMA AdmissionKeeps ==
  ASSUME NEW s, NEW p, NEW h, Inv(s, p, h), NEW x \in Ids, NEW q \in Peers,
         x \in Admit(s.bridge, x, q).pending \ s.bridge.pending
  PROVE  LET u == Submit(Outdate(s, x), x, q)
             k == [h EXCEPT !.entered = @ \ {x}]
         IN  /\ Inv(u, p, k)
             /\ s.bridge.op[x].state # "pending"
             /\ u.bridge.op[x].state = "pending" /\ u.bridge.op[x].exec = "unknown"
             /\ \A y \in Ids \ {x} : /\ TellsAt(s.bridge.op[y], u.bridge.op[y], y, h)
                                     /\ Past(u.conn, y) <=> Past(s.conn, y)
             /\ Past(s.conn, x) => Past(u.conn, x)
             /\ Past(u.conn, x) => x \notin h.entered
  <1> DEFINE b == Admit(s.bridge, x, q)
             k == [h EXCEPT !.entered = @ \ {x}]
             down == Outdated(s.conn.down, {x})
             acks == Outdated(s.conn.acks, {x})
             d == [s.conn EXCEPT !.down = down, !.acks = acks]
             t == [bridge |-> b, conn |-> d]
             u == Submit(Outdate(s, x), x, q)
  <1>1. /\ s \in Server /\ s.conn \in Connection
        /\ s.conn.down \in Seq(DownFrame) /\ s.conn.acks \in Seq(Ack)
        /\ Fits(s.bridge, s.conn, p, h) /\ Types(s.bridge, s.conn, p, h)
        /\ ConnFits(s.conn, p, h) /\ PluginFits(p, h)
    BY DEF Inv, Server, Connection, Fits
  <1>2. /\ Sound(b) /\ Few(b) /\ AdmitsAt(s.bridge, b, x)
        /\ \A y \in Ids \ {x} : DropsAt(s.bridge, b, y)
    <2>1. Sound(s.bridge) /\ Few(s.bridge)
      BY <1>1 DEF Types
    <2>2. Sound(b) /\ Few(b)
      BY <2>1, AdmitAdmits
    <2>3. \A y \in Ids \ {x} : DropsAt(s.bridge, b, y)
      BY <2>1, AdmitAdmits
    <2>4. AdmitsAt(s.bridge, b, x) \/ b.pending = s.bridge.pending
      BY <2>1, AdmitAdmits
    <2> QED
      BY <2>2, <2>3, <2>4
  <1>3. /\ down \in Seq(DownFrame) /\ DOMAIN down = DOMAIN s.conn.down
        /\ \A i \in DOMAIN s.conn.down : Marks(s.conn.down[i], down[i], {x})
    BY <1>1, OutdatedMarks
  <1>4. /\ acks \in Seq(Ack) /\ DOMAIN acks = DOMAIN s.conn.acks
        /\ Len(acks) = Len(s.conn.acks)
        /\ \A i \in DOMAIN s.conn.acks : Marks(s.conn.acks[i], acks[i], {x})
    BY <1>1, OutdatedMarks
  <1>5. u \in {t, Pump(t)}
    <2>1. Outdate(s, x) = [s EXCEPT !.conn.down = down, !.conn.acks = acks]
      BY DEF Outdate
    <2> HIDE DEF down, acks
    <2>2. [s EXCEPT !.conn.down = down, !.conn.acks = acks] = [s EXCEPT !.conn = d]
      BY <1>1 DEF Server
    <2> HIDE DEF d
    <2>3. Outdate(s, x) = [bridge |-> s.bridge, conn |-> d]
      BY <1>1, <2>1, <2>2, ConnOf
    <2>4. [Outdate(s, x) EXCEPT !.bridge = Admit(@, x, q)] = t
      BY <2>3
    <2> QED
      BY <2>4 DEF Submit
  <1>6. k \in History /\ k.entered = h.entered \ {x} /\ k.ran = h.ran /\ k.declined = h.declined
    BY <1>1 DEF Types, History
  <1> HIDE DEF b, k, down, acks
  <1>7. /\ d \in Connection /\ d.down = down /\ d.acks = acks /\ d.up = s.conn.up
    BY <1>1, <1>3, <1>4 DEF Connection
  <1> HIDE DEF d
  <1>8. /\ DownFits(d, k)
        /\ \A y : (y \notin {x} => (Past(d, y) <=> Past(s.conn, y)))
        /\ \A y : Past(s.conn, y) => Past(d, y)
        /\ \A y : Past(d, y) => y \notin h.entered
        /\ \A g \in Frames(d.down) : \E f \in Frames(s.conn.down) : Marks(f, g, {x})
    BY <1>1, <1>3, <1>6, <1>7, MarkedFits DEF ConnFits
  <1>9. \A g \in Frames(d.acks) : \E f \in Frames(s.conn.acks) : Marks(f, g, {x})
    BY <1>4, <1>7 DEF Frames
  <1>10. \A y, exec : Holds(h, y, exec) => Holds(k, y, exec)
    BY <1>6 DEF Holds
  <1>11. ConnFits(d, p, k) /\ PluginFits(p, k)
    <2>1. UpFits(d, p, k)
      BY <1>1, <1>7, <1>10 DEF ConnFits, UpFits
    <2>2. AcksBounded(d)
      <3>1. \A i \in DOMAIN acks : acks[i].id = s.conn.acks[i].id
        BY <1>4 DEF Marks
      <3> QED
        BY <1>1, <1>4, <1>7, <3>1 DEF ConnFits, AcksBounded
    <2>3. PluginFits(p, k)
      BY <1>1, <1>10 DEF PluginFits
    <2> QED
      BY <1>8, <2>1, <2>2, <2>3 DEF ConnFits
  <1>12. RecordFits(b.op[x], x, d, p, k)
    <2>1. /\ b.op[x].state = "pending" /\ b.op[x].stage = "queued"
          /\ b.op[x].exec = "unknown" /\ b.op[x].via = None
      BY <1>2 DEF AdmitsAt
    <2>2. StagesFit(b.op[x], x, k)
      BY <1>6, <2>1 DEF StagesFit, Holds
    <2>3. RequestsFit(b.op[x], x, d, p)
      BY <1>8, <2>1 DEF RequestsFit, IsRequest, Marks
    <2>4. AcksFit(b.op[x], x, d)
      BY <1>8, <1>9 DEF AcksFit, SaysRecorded, Marks
    <2>5. AnswersFit(b.op[x], x, d, p)
      BY <2>1 DEF AnswersFit
    <2> QED
      BY <2>2, <2>3, <2>4, <2>5 DEF RecordFits
  <1>13. ASSUME NEW y \in Ids \ {x}
         PROVE  RecordFits(b.op[y], y, d, p, k)
    <2>1. RecordFits(b.op[y], y, s.conn, p, h)
      BY <1>1, <1>2, DropFits DEF Fits
    <2>2. StagesFit(b.op[y], y, k)
      BY <1>6, <1>10, <2>1 DEF RecordFits, StagesFit
    <2>3. RequestsFit(b.op[y], y, d, p)
      BY <1>8, <2>1 DEF RecordFits, RequestsFit, IsRequest, Marks
    <2>4. AcksFit(b.op[y], y, d)
      BY <1>8, <1>9, <2>1 DEF RecordFits, AcksFit, SaysRecorded, Marks
    <2>5. AnswersFit(b.op[y], y, d, p)
      BY <1>7, <2>1 DEF RecordFits, AnswersFit
    <2> QED
      BY <2>2, <2>3, <2>4, <2>5 DEF RecordFits
  <1>14. Inv(t, p, k)
    <2>1. Fits(b, d, p, k)
      BY <1>1, <1>2, <1>6, <1>7, <1>11, <1>12, <1>13 DEF Fits, Types
    <2>2. t \in Server
      BY <1>2, <1>7 DEF Server, Sound
    <2> QED
      BY <2>1, <2>2 DEF Inv
  <1> HIDE DEF t, u
  <1>15. /\ Inv(u, p, k)
         /\ \A y \in Ids : ToldAs(t.bridge.op[y], u.bridge.op[y])
         /\ \A y \in Ids : Past(u.conn, y) <=> Past(t.conn, y)
    <2>1. \A y \in Ids : ToldAs(t.bridge.op[y], t.bridge.op[y])
      BY DEF ToldAs
    <2> QED
      BY <1>5, <1>14, <2>1, PumpGoes
  <1>16. t.bridge = b /\ t.conn = d
    BY DEF t
  <1>17. \A y \in Ids \ {x} : /\ TellsAt(s.bridge.op[y], u.bridge.op[y], y, h)
                              /\ Past(u.conn, y) <=> Past(s.conn, y)
    <2> SUFFICES ASSUME NEW y \in Ids \ {x}
                 PROVE  /\ TellsAt(s.bridge.op[y], u.bridge.op[y], y, h)
                        /\ Past(u.conn, y) <=> Past(s.conn, y)
      OBVIOUS
    <2>1. TellsAt(s.bridge.op[y], b.op[y], y, h)
      BY <1>2, DropTells
    <2>2. ToldAs(b.op[y], u.bridge.op[y])
      BY <1>15, <1>16
    <2> QED
      BY <1>8, <1>15, <1>16, <2>1, <2>2 DEF TellsAt, ToldAs, Finishes
  <1>18. /\ s.bridge.op[x].state # "pending"
         /\ u.bridge.op[x].state = "pending" /\ u.bridge.op[x].exec = "unknown"
    BY <1>2, <1>15, <1>16 DEF AdmitsAt, ToldAs
  <1>19. /\ Past(s.conn, x) => Past(u.conn, x)
         /\ Past(u.conn, x) => x \notin h.entered
    BY <1>8, <1>15, <1>16
  <1> QED
    BY <1>15, <1>17, <1>18, <1>19 DEF u, k

LEMMA SubmitGoes ==
  ASSUME NEW s, NEW p, NEW h, Inv(s, p, h), NEW x \in Ids, NEW q \in Peers,
         x \notin Admit(s.bridge, x, q).pending \ s.bridge.pending
  PROVE  Goes(s, Submit(s, x, q), p, h)
  <1> DEFINE b == Admit(s.bridge, x, q)
             t == [s EXCEPT !.bridge = b]
  <1>1. Sound(s.bridge) /\ Few(s.bridge) /\ s \in Server
    BY DEF Inv, Fits, Types
  <1>2. Sound(b) /\ \A y \in Ids \ {x} : DropsAt(s.bridge, b, y)
    BY <1>1, AdmitAdmits
  <1>3. AdmitsAt(s.bridge, b, x) \/ (DropsAt(s.bridge, b, x) /\ b.pending = s.bridge.pending)
    BY <1>1, AdmitAdmits
  <1>4. DropsAt(s.bridge, b, x) /\ b.pending = s.bridge.pending
    BY <1>3 DEF AdmitsAt
  <1>5. Goes(s, t, p, h)
    BY <1>2, <1>4, LedgerGoes DEF DropsAt
  <1>6. t.bridge = b
    BY <1>1 DEF Server
  <1>7. Submit(s, x, q) = t
    BY <1>4, <1>6 DEF Submit
  <1> QED
    BY <1>5, <1>7

-----------------------------------------------------------------------------
(***************************************************************************)
(* The plugin.                                                             *)
(***************************************************************************)
LEMMA FiniteParts ==
  ASSUME NEW p \in Plugin
  PROVE  /\ IsFiniteSet(p.work) /\ IsFiniteSet(Kept(p)) /\ IsFiniteSet(p.rejected)
         /\ IsFiniteSet(p.done) /\ IsFiniteSet(Active(p)) /\ IsFiniteSet(Remembered(p))
         /\ Remembered(p) \subseteq Ids
  <1>1. /\ p.work \subseteq Ids /\ Kept(p) \subseteq Ids /\ p.rejected \subseteq Ids
        /\ p.done \subseteq Ids
    BY DEF Plugin, Kept
  <1>2. Active(p) \subseteq Ids /\ Remembered(p) \subseteq Ids
    BY <1>1 DEF Active, Remembered
  <1> QED
    BY <1>1, <1>2, IdsAssumption, FS_Subset

\* A request that is taken on finds room for its tombstone.
LEMMA Room ==
  ASSUME NEW p \in Plugin, NEW h, PluginFits(p, h), ~Full(p) \/ ~ReserveSpent(p)
  PROVE  Cardinality(Remembered(p)) < MaxTerminal
  <1>1. /\ Cardinality(Remembered(p)) \in Nat /\ Cardinality(Active(p)) \in Nat
        /\ Cardinality(p.done) \in Nat /\ Cardinality(p.rejected) \in Nat
    BY FiniteParts, FS_CardinalityType
  <1>2. CASE ~ReserveSpent(p)
    BY <1>1, <1>2, PluginAssumption DEF ReserveSpent
  <1>3. CASE ~Full(p)
    <2> DEFINE taken == Active(p) \cup p.rejected
    <2>1. Remembered(p) = taken \cup p.done
      BY DEF PluginFits, Remembered, Active
    <2>2. /\ IsFiniteSet(taken)
          /\ Cardinality(taken) <= Cardinality(Active(p)) + Cardinality(p.rejected)
      <3>1. /\ IsFiniteSet(taken) /\ IsFiniteSet(Active(p) \cap p.rejected)
            /\ Cardinality(taken) = Cardinality(Active(p)) + Cardinality(p.rejected)
                                      - Cardinality(Active(p) \cap p.rejected)
        BY FiniteParts, FS_Union, FS_Intersection
      <3>2. Cardinality(Active(p) \cap p.rejected) \in Nat
        BY <3>1, FS_CardinalityType
      <3> QED
        BY <1>1, <3>1, <3>2
    <2>3. Cardinality(taken) \in Nat
      BY <2>2, FS_CardinalityType
    <2>4. Cardinality(Remembered(p)) <= Cardinality(taken) + Cardinality(p.done)
      <3> HIDE DEF taken
      <3>1. /\ IsFiniteSet(taken \cap p.done)
            /\ Cardinality(taken \cup p.done) = Cardinality(taken) + Cardinality(p.done)
                                                  - Cardinality(taken \cap p.done)
        BY <2>2, FiniteParts, FS_Union, FS_Intersection
      <3>2. Cardinality(taken \cap p.done) \in Nat
        BY <3>1, FS_CardinalityType
      <3> QED
        BY <1>1, <2>1, <2>3, <3>1, <3>2
    <2>5. Cardinality(p.done) + Cardinality(Active(p)) + MaxRejections < MaxTerminal
      BY <1>1, <1>3, PluginAssumption DEF Full
    <2> QED
      BY <1>1, <2>2, <2>3, <2>4, <2>5, PluginAssumption DEF PluginFits
  <1> QED
    BY <1>2, <1>3

LEMMA OneMore ==
  ASSUME NEW S, NEW x \in Ids, S \subseteq Ids, NEW n \in Nat, Cardinality(S) < n
  PROVE  Cardinality(S \cup {x}) <= n
  <1>1. IsFiniteSet(S)
    BY IdsAssumption, FS_Subset
  <1>2. /\ Cardinality(S) \in Nat
        /\ Cardinality(S \cup {x}) = IF x \in S THEN Cardinality(S) ELSE Cardinality(S) + 1
    BY <1>1, FS_CardinalityType, FS_AddElement
  <1> QED
    BY <1>2

LEMMA NoMore ==
  ASSUME NEW S, NEW T, T \subseteq S, S \subseteq Ids, NEW n \in Nat, Cardinality(S) <= n
  PROVE  Cardinality(T) <= n
  <1>1. IsFiniteSet(S)
    BY IdsAssumption, FS_Subset
  <1>2. IsFiniteSet(T) /\ Cardinality(T) <= Cardinality(S)
    BY <1>1, FS_Subset
  <1>3. Cardinality(S) \in Nat /\ Cardinality(T) \in Nat
    BY <1>1, <1>2, FS_CardinalityType
  <1> QED
    BY <1>2, <1>3

LEMMA RetainSays ==
  ASSUME NEW p \in Plugin, NEW x \in Ids, NEW r \in Responses
  PROVE  LET q == Retain(p, x, r)
         IN  /\ q \in Plugin /\ q.phase = p.phase /\ q.work = p.work \ {x}
             /\ \A y \in Ids : q.pend[y] = IF y = x THEN r ELSE p.pend[y]
             /\ q.rejected = p.rejected /\ q.done = p.done
             /\ Kept(q) = Kept(p) \cup {x}
             /\ Remembered(q) = Remembered(p) \cup {x}
  <1> DEFINE q == Retain(p, x, r)
  <1> DEFINE pend == [p.pend EXCEPT ![x] = r]
             age == [p.age EXCEPT ![x] = 0]
  <1>1. q = [p EXCEPT !.work = p.work \ {x}, !.pend = pend, !.age = age]
    BY DEF Retain, Plugin
  <1>2. /\ pend \in [Ids -> Responses \cup {"none"}] /\ age \in [Ids -> 0 .. Retention]
        /\ \A y \in Ids : pend[y] = IF y = x THEN r ELSE p.pend[y]
    BY LimitsAssumption DEF Plugin
  <1> HIDE DEF q, pend, age
  <1>4. /\ q \in Plugin /\ q.phase = p.phase /\ q.work = p.work \ {x} /\ q.pend = pend
        /\ q.rejected = p.rejected /\ q.done = p.done
    BY <1>1, <1>2 DEF Plugin
  <1>3. Kept(q) = Kept(p) \cup {x}
    BY <1>2, <1>4 DEF Kept, Responses
  <1> QED
    BY <1>2, <1>3, <1>4 DEF q, Remembered

LEMMA RejectSays ==
  ASSUME NEW p \in Plugin, NEW x \in Ids
  PROVE  LET q == Reject(p, x)
         IN  /\ q \in Plugin /\ q.phase = p.phase /\ q.work = p.work \ {x}
             /\ \A y \in Ids : q.pend[y] = IF y = x THEN "not_executed" ELSE p.pend[y]
             /\ q.rejected = p.rejected \cup {x} /\ q.done = p.done
             /\ Kept(q) = Kept(p) \cup {x}
             /\ Remembered(q) = Remembered(p) \cup {x}
  <1> DEFINE r == Retain(p, x, "not_executed")
             q == Reject(p, x)
  <1>1. "not_executed" \in Responses
    BY DEF Responses
  <1>2. /\ r \in Plugin /\ r.phase = p.phase /\ r.work = p.work \ {x}
        /\ \A y \in Ids : r.pend[y] = IF y = x THEN "not_executed" ELSE p.pend[y]
        /\ r.rejected = p.rejected /\ r.done = p.done
        /\ Kept(r) = Kept(p) \cup {x}
        /\ Remembered(r) = Remembered(p) \cup {x}
    BY <1>1, RetainSays
  <1>3. q = [r EXCEPT !.rejected = @ \cup {x}]
    BY DEF Reject
  <1> HIDE DEF r, q
  <1>4. /\ q \in Plugin /\ q.phase = r.phase /\ q.work = r.work /\ q.pend = r.pend
        /\ q.rejected = r.rejected \cup {x} /\ q.done = r.done
    BY <1>2, <1>3 DEF Plugin
  <1>5. Kept(q) = Kept(r) /\ Remembered(q) = Remembered(r)
    BY <1>4 DEF Kept, Remembered
  <1> QED
    BY <1>2, <1>4, <1>5 DEF q

LEMMA EnterSays ==
  ASSUME NEW p \in Plugin, NEW x \in Ids
  PROVE  LET q == Enter(p, x)
         IN  /\ q \in Plugin /\ q.phase = p.phase /\ q.work = p.work \cup {x}
             /\ q.pend = p.pend /\ q.rejected = p.rejected /\ q.done = p.done
             /\ Kept(q) = Kept(p)
             /\ Remembered(q) = Remembered(p) \cup {x}
  BY DEF Enter, Plugin, Kept, Remembered

LEMMA ReleaseSays ==
  ASSUME NEW p \in Plugin, NEW x \in Kept(p)
  PROVE  LET q == ReleaseResponse(p, x)
         IN  /\ q \in Plugin /\ q.phase = p.phase /\ q.work = p.work
             /\ \A y \in Ids : q.pend[y] = IF y = x THEN "none" ELSE p.pend[y]
             /\ q.rejected = p.rejected \ {x} /\ q.done = p.done \cup {x}
             /\ Kept(q) = Kept(p) \ {x}
             /\ Remembered(q) = Remembered(p)
  <1> DEFINE q == ReleaseResponse(p, x)
  <1>1. x \in Ids
    BY DEF Kept
  <1> DEFINE pend == [p.pend EXCEPT ![x] = "none"]
             age == [p.age EXCEPT ![x] = 0]
  <1>5. q = [p EXCEPT !.pend = pend, !.rejected = p.rejected \ {x},
                      !.done = p.done \cup {x}, !.age = age]
    BY DEF ReleaseResponse, Plugin
  <1>6. /\ pend \in [Ids -> Responses \cup {"none"}] /\ age \in [Ids -> 0 .. Retention]
        /\ \A y \in Ids : pend[y] = IF y = x THEN "none" ELSE p.pend[y]
    BY <1>1, LimitsAssumption DEF Plugin
  <1> HIDE DEF q, pend, age
  <1>2. /\ q \in Plugin /\ q.phase = p.phase /\ q.work = p.work /\ q.pend = pend
        /\ q.rejected = p.rejected \ {x} /\ q.done = p.done \cup {x}
    BY <1>1, <1>5, <1>6 DEF Plugin
  <1>3. \A y \in Ids : q.pend[y] = IF y = x THEN "none" ELSE p.pend[y]
    BY <1>2, <1>6
  <1>4. Kept(q) = Kept(p) \ {x}
    BY <1>3 DEF Kept
  <1> QED
    BY <1>2, <1>3, <1>4 DEF q, Remembered

LEMMA ReconnectSays ==
  ASSUME NEW p \in Plugin
  PROVE  LET q == Reconnect(p)
         IN  /\ q \in Plugin /\ q.work = p.work /\ q.pend = p.pend
             /\ q.rejected = p.rejected /\ q.done = p.done
             /\ Kept(q) = Kept(p) /\ Remembered(q) = Remembered(p)
  BY DEF Reconnect, Plugin, Kept, Remembered

\* What the plugin keeps, it keeps whatever its phase.
LEMMA SameKept ==
  ASSUME NEW p, NEW q, NEW h, PluginFits(p, h),
         q.work = p.work, q.pend = p.pend, q.rejected = p.rejected, q.done = p.done
  PROVE  PluginFits(q, h)
  BY DEF PluginFits, Kept, Remembered


LEMMA RetainFits ==
  ASSUME NEW p \in Plugin, NEW h, NEW k, PluginFits(p, h), NEW x \in Ids,
         x \notin Kept(p) \cup p.done,
         Cardinality(Remembered(p) \cup {x}) <= MaxTerminal,
         NEW r \in Responses, r # "send_failed",
         \A y \in Ids \ {x} : \A exec : Holds(h, y, exec) => Holds(k, y, exec),
         Holds(k, x, ExecOf(r))
  PROVE  PluginFits(Retain(p, x, r), k)
  <1> DEFINE q == Retain(p, x, r)
  <1>1. /\ q \in Plugin /\ q.work = p.work \ {x}
        /\ \A y \in Ids : q.pend[y] = IF y = x THEN r ELSE p.pend[y]
        /\ q.rejected = p.rejected /\ q.done = p.done
        /\ Kept(q) = Kept(p) \cup {x}
        /\ Remembered(q) = Remembered(p) \cup {x}
    BY RetainSays
  <1> HIDE DEF q
  <1>2. \A y \in Kept(q) : q.pend[y] # "send_failed" /\ Holds(k, y, ExecOf(q.pend[y]))
    <2> SUFFICES ASSUME NEW y \in Kept(q)
                 PROVE  q.pend[y] # "send_failed" /\ Holds(k, y, ExecOf(q.pend[y]))
      OBVIOUS
    <2>1. y \in Ids
      BY DEF Kept
    <2>2. CASE y = x
      BY <1>1, <2>1, <2>2
    <2>3. CASE y # x
      <3>1. y \in Kept(p) /\ q.pend[y] = p.pend[y]
        BY <1>1, <2>1, <2>3
      <3> QED
        BY <2>1, <2>3, <3>1 DEF PluginFits
    <2> QED
      BY <2>2, <2>3
  <1>3. /\ q.work \cap Kept(q) = {} /\ q.work \cap q.done = {} /\ Kept(q) \cap q.done = {}
        /\ q.rejected \subseteq Kept(q)
    BY <1>1 DEF PluginFits
  <1> QED
    BY <1>1, <1>2, <1>3 DEF PluginFits, q

LEMMA RejectFits ==
  ASSUME NEW p \in Plugin, NEW h, PluginFits(p, h), NEW x \in Ids,
         ~Known(p, x), ~ReserveSpent(p), Holds(h, x, "not_executed")
  PROVE  PluginFits(Reject(p, x), h)
  <1> DEFINE q == Reject(p, x)
  <1>1. /\ q \in Plugin /\ q.work = p.work \ {x}
        /\ \A y \in Ids : q.pend[y] = IF y = x THEN "not_executed" ELSE p.pend[y]
        /\ q.rejected = p.rejected \cup {x} /\ q.done = p.done
        /\ Kept(q) = Kept(p) \cup {x}
        /\ Remembered(q) = Remembered(p) \cup {x}
    BY RejectSays
  <1> HIDE DEF q
  <1>2. x \notin p.work /\ x \notin Kept(p) /\ x \notin p.done
    BY DEF Known, Remembered
  <1>3. Cardinality(Remembered(q)) <= MaxTerminal
    BY <1>1, Room, OneMore, FiniteParts, PluginAssumption
  <1>4. Cardinality(q.rejected) <= MaxRejections
    <2>1. p.rejected \subseteq Ids /\ Cardinality(p.rejected) \in Nat
      BY FiniteParts, FS_CardinalityType DEF Plugin
    <2>2. Cardinality(p.rejected) < MaxRejections
      BY <2>1, PluginAssumption DEF ReserveSpent
    <2> QED
      BY <1>1, <2>1, <2>2, OneMore, PluginAssumption
  <1>5. \A y \in Kept(q) : q.pend[y] # "send_failed" /\ Holds(h, y, ExecOf(q.pend[y]))
    <2> SUFFICES ASSUME NEW y \in Kept(q)
                 PROVE  q.pend[y] # "send_failed" /\ Holds(h, y, ExecOf(q.pend[y]))
      OBVIOUS
    <2>1. y \in Ids
      BY DEF Kept
    <2>2. CASE y = x
      <3>1. ExecOf("not_executed") = "not_executed"
        BY DEF ExecOf, Outcomes
      <3> QED
        BY <1>1, <2>1, <2>2, <3>1
    <2>3. CASE y # x
      <3>1. y \in Kept(p) /\ q.pend[y] = p.pend[y]
        BY <1>1, <2>1, <2>3
      <3> QED
        BY <2>1, <3>1 DEF PluginFits
    <2> QED
      BY <2>2, <2>3
  <1>6. /\ q.work \cap Kept(q) = {} /\ q.work \cap q.done = {} /\ Kept(q) \cap q.done = {}
        /\ q.rejected \subseteq Kept(q)
    BY <1>1, <1>2 DEF PluginFits
  <1> QED
    BY <1>3, <1>4, <1>5, <1>6 DEF PluginFits, q

LEMMA EnterFits ==
  ASSUME NEW p \in Plugin, NEW h, NEW k, PluginFits(p, h), NEW x \in Ids,
         ~Known(p, x), ~Full(p),
         \A y \in Ids \ {x} : \A exec : Holds(h, y, exec) => Holds(k, y, exec)
  PROVE  PluginFits(Enter(p, x), k)
  <1> DEFINE q == Enter(p, x)
  <1>1. /\ q \in Plugin /\ q.work = p.work \cup {x}
        /\ q.pend = p.pend /\ q.rejected = p.rejected /\ q.done = p.done
        /\ Kept(q) = Kept(p)
        /\ Remembered(q) = Remembered(p) \cup {x}
    BY EnterSays
  <1> HIDE DEF q
  <1>2. x \notin p.work /\ x \notin Kept(p) /\ x \notin p.done
    BY DEF Known, Remembered
  <1>3. Cardinality(Remembered(q)) <= MaxTerminal
    BY <1>1, Room, OneMore, FiniteParts, PluginAssumption
  <1>4. \A y \in Kept(q) : y \in Ids \ {x} /\ y \in Kept(p)
    BY <1>1, <1>2 DEF Kept
  <1>5. \A y \in Kept(q) : q.pend[y] # "send_failed" /\ Holds(k, y, ExecOf(q.pend[y]))
    BY <1>1, <1>4 DEF PluginFits
  <1>6. /\ q.work \cap Kept(q) = {} /\ q.work \cap q.done = {} /\ Kept(q) \cap q.done = {}
        /\ q.rejected \subseteq Kept(q)
    BY <1>1, <1>2 DEF PluginFits
  <1> QED
    BY <1>1, <1>3, <1>5, <1>6 DEF PluginFits, q

LEMMA ReleaseFits ==
  ASSUME NEW p \in Plugin, NEW h, PluginFits(p, h), NEW x \in Kept(p)
  PROVE  PluginFits(ReleaseResponse(p, x), h)
  <1> DEFINE q == ReleaseResponse(p, x)
  <1>1. /\ q \in Plugin /\ q.work = p.work
        /\ \A y \in Ids : q.pend[y] = IF y = x THEN "none" ELSE p.pend[y]
        /\ q.rejected = p.rejected \ {x} /\ q.done = p.done \cup {x}
        /\ Kept(q) = Kept(p) \ {x}
        /\ Remembered(q) = Remembered(p)
    BY ReleaseSays
  <1> HIDE DEF q
  <1>2. Cardinality(q.rejected) <= MaxRejections
    <2>1. p.rejected \subseteq Ids /\ q.rejected \subseteq p.rejected
      BY <1>1 DEF Plugin
    <2> QED
      BY <2>1, NoMore, PluginAssumption DEF PluginFits
  <1>3. \A y \in Kept(q) : y \in Ids /\ y \in Kept(p) /\ q.pend[y] = p.pend[y]
    BY <1>1 DEF Kept
  <1>4. \A y \in Kept(q) : q.pend[y] # "send_failed" /\ Holds(h, y, ExecOf(q.pend[y]))
    BY <1>3 DEF PluginFits
  <1>5. /\ q.work \cap Kept(q) = {} /\ q.work \cap q.done = {} /\ Kept(q) \cap q.done = {}
        /\ q.rejected \subseteq Kept(q)
    BY <1>1 DEF PluginFits
  <1> QED
    BY <1>1, <1>2, <1>4, <1>5 DEF PluginFits, q

-----------------------------------------------------------------------------
(***************************************************************************)
(* A step of the plugin: it concerns the ids of S, and leaves the others   *)
(* as they were, but that it may let a response go.                        *)
(***************************************************************************)
(***************************************************************************)
(* How a step of the plugin leaves an id alone, or takes on its request,   *)
(* and which handlers it enters.                                           *)
(***************************************************************************)
Undisturbed(y, p, h, q, k) ==
  /\ y \in q.work => y \in p.work
  /\ q.pend[y] \in {"none", p.pend[y]}
  /\ y \in Remembered(p) => y \in Remembered(q)
  /\ y \in k.entered => y \in h.entered
  /\ \A exec : Holds(h, y, exec) => Holds(k, y, exec)

TakenOn(y, b, c, q, k) ==
  /\ StagesFit(b.op[y], y, k)
  /\ y \in Remembered(q)
  /\ b.op[y].stage # "response_delivery"
  /\ \A f \in Frames(c.up) : f.id # y

EnteredBy(c, h, k) ==
  \/ k.entered = h.entered
  \/ /\ k.entered = h.entered \cup {Head(c.down).id}
     /\ Head(c.down).kind = "request" /\ ~Head(c.down).past

LEMMA StudioMoves ==
  ASSUME NEW b, NEW c, NEW p, NEW h, Fits(b, c, p, h),
         NEW q \in Plugin, NEW k \in History, PluginFits(q, k),
         NEW d \in Connection, d.acks = c.acks, d.up = c.up,
         Frames(d.down) \subseteq Frames(c.down), DownFits(d, k),
         NEW S,
         \A y \in Ids \ S : Undisturbed(y, p, h, q, k),
         \A y \in Ids \cap S :
           /\ RecordFits(b.op[y], y, d, q, k)
           /\ \A f \in Frames(c.up) : f.id = y => y \in Remembered(q) /\ ~IsAnswer(f, y)
  PROVE  Fits(b, d, q, k)
  <1>1. UpFits(d, q, k)
    <2>1. UpFits(c, p, h) /\ Frames(d.up) = Frames(c.up) /\ Frames(c.up) \subseteq UpFrame
      <3>1. c.up \in Seq(UpFrame)
        BY DEF Fits, Types, Connection
      <3> QED
        BY <3>1, FramesType DEF Fits, ConnFits
    <2> SUFFICES ASSUME NEW f \in Frames(d.up)
                 PROVE  /\ f.id \in Remembered(q)
                        /\ IsAnswer(f, f.id) =>
                             /\ f.id \notin q.work /\ f.response # "send_failed"
                             /\ q.pend[f.id] \in {"none", f.response}
                             /\ Holds(k, f.id, ExecOf(f.response))
                             /\ \A g \in Frames(d.up) : IsAnswer(g, f.id) => g.response = f.response
      BY DEF UpFits
    <2>2. f.id \in Ids /\ f \in Frames(c.up)
      BY <2>1 DEF UpFrame
    <2>3. CASE f.id \in S
      BY <2>2, <2>3
    <2>4. CASE f.id \notin S
      BY <2>1, <2>2, <2>4 DEF UpFits, Undisturbed
    <2> QED
      BY <2>3, <2>4
  <1>2. AcksBounded(d)
    BY DEF Fits, ConnFits, AcksBounded
  <1>3. ASSUME NEW y \in Ids \ S
        PROVE  RecordFits(b.op[y], y, d, q, k)
    <2>1. RecordFits(b.op[y], y, c, p, h)
      BY DEF Fits
    <2>2. StagesFit(b.op[y], y, k)
      BY <2>1 DEF RecordFits, StagesFit, Undisturbed
    <2>3. RequestsFit(b.op[y], y, d, q)
      BY <2>1 DEF RecordFits, RequestsFit, Undisturbed
    <2>4. AnswersFit(b.op[y], y, d, q)
      BY <2>1 DEF RecordFits, AnswersFit, Undisturbed
    <2>5. AcksFit(b.op[y], y, d)
      BY <2>1 DEF RecordFits, AcksFit
    <2> QED
      BY <2>2, <2>3, <2>4, <2>5 DEF RecordFits
  <1> QED
    BY <1>1, <1>2, <1>3 DEF Fits, Types, ConnFits

\* What the plugin sends, it knows and keeps.
Speaks(frames, p) ==
  /\ frames \in Seq(UpFrame)
  /\ \A f \in Frames(frames) :
       /\ f.id \in Remembered(p)
       /\ f.kind \in {"returned", "response"} => f.id \in Kept(p) /\ f.response = p.pend[f.id]

LEMMA SentFits ==
  ASSUME NEW b, NEW c, NEW p, NEW h, Fits(b, c, p, h), NEW frames, Speaks(frames, p),
         NEW d \in Connection, d.up = c.up \o frames, d.down = c.down, d.acks = c.acks
  PROVE  Fits(b, d, p, h)
  <1>1. c.up \in Seq(UpFrame) /\ frames \in Seq(UpFrame)
    BY DEF Fits, Types, Connection, Speaks
  <1>2. Frames(d.up) = Frames(c.up) \cup Frames(frames)
    BY <1>1, ConcatFrames
  <1>3. UpFits(c, p, h) /\ PluginFits(p, h)
    BY DEF Fits, ConnFits
  <1>4. UpFits(d, p, h)
    <2> SUFFICES ASSUME NEW f \in Frames(d.up)
                 PROVE  /\ f.id \in Remembered(p)
                        /\ IsAnswer(f, f.id) =>
                             /\ f.id \notin p.work /\ f.response # "send_failed"
                             /\ p.pend[f.id] \in {"none", f.response}
                             /\ Holds(h, f.id, ExecOf(f.response))
                             /\ \A g \in Frames(d.up) : IsAnswer(g, f.id) => g.response = f.response
      BY DEF UpFits
    <2>1. \A g \in Frames(frames) : IsAnswer(g, g.id) => /\ g.id \in Kept(p)
                                                         /\ g.response = p.pend[g.id]
                                                         /\ p.pend[g.id] # "none"
      BY DEF Speaks, IsAnswer, Kept
    <2>2. CASE f \in Frames(c.up)
      <3>1. \A g \in Frames(frames) :
              IsAnswer(f, f.id) /\ IsAnswer(g, f.id) => g.response = f.response
        BY <1>3, <2>1, <2>2 DEF UpFits, IsAnswer
      <3> QED
        BY <1>2, <1>3, <2>2, <3>1 DEF UpFits
    <2>3. CASE f \in Frames(frames)
      <3>1. f.id \in Remembered(p)
        BY <2>3 DEF Speaks
      <3>2. ASSUME IsAnswer(f, f.id)
            PROVE  /\ f.id \notin p.work /\ f.response # "send_failed"
                   /\ p.pend[f.id] \in {"none", f.response}
                   /\ Holds(h, f.id, ExecOf(f.response))
                   /\ \A g \in Frames(d.up) : IsAnswer(g, f.id) => g.response = f.response
        <4>1. f.id \in Kept(p) /\ f.response = p.pend[f.id] /\ p.pend[f.id] # "none"
          BY <2>1, <2>3, <3>2
        <4>2. \A g \in Frames(c.up) : IsAnswer(g, f.id) => g.response = f.response
          BY <1>3, <4>1 DEF UpFits, IsAnswer
        <4>3. \A g \in Frames(frames) : IsAnswer(g, f.id) => g.response = f.response
          BY <2>1, <4>1 DEF IsAnswer
        <4> QED
          BY <1>2, <1>3, <4>1, <4>2, <4>3 DEF PluginFits
      <3> QED
        BY <3>1, <3>2
    <2> QED
      BY <1>2, <2>2, <2>3
  <1>5. ConnFits(d, p, h)
    BY <1>4 DEF Fits, ConnFits, DownFits, AcksBounded
  <1>6. ASSUME NEW x \in Ids
        PROVE  RecordFits(b.op[x], x, d, p, h)
    <2>1. RecordFits(b.op[x], x, c, p, h)
      BY DEF Fits
    <2>2. RequestsFit(b.op[x], x, d, p) /\ AcksFit(b.op[x], x, d)
      BY <2>1 DEF RecordFits, RequestsFit, AcksFit
    <2>3. AnswersFit(b.op[x], x, d, p)
      <3>1. \A f \in Frames(frames) :
              IsAnswer(f, x) => p.pend[x] # "none" /\ f.response = p.pend[x]
        BY DEF Speaks, IsAnswer, Kept
      <3> QED
        BY <1>2, <2>1, <3>1 DEF RecordFits, AnswersFit
    <2> QED
      BY <2>1, <2>2, <2>3 DEF RecordFits
  <1> QED
    BY <1>5, <1>6 DEF Fits, Types

LEMMA SentKeeps ==
  ASSUME NEW s, NEW p, NEW h, Inv(s, p, h), NEW frames, Speaks(frames, p)
  PROVE  LET t == Sent(s, frames)
         IN  /\ Inv(t, p, h) /\ t.bridge = s.bridge /\ t.conn.down = s.conn.down
  <1> DEFINE up == s.conn.up \o frames
             d == [s.conn EXCEPT !.up = up]
  <1>1. /\ s \in Server /\ s.conn \in Connection /\ Fits(s.bridge, s.conn, p, h)
    BY DEF Inv, Server
  <1>2. up \in Seq(UpFrame)
    <2>1. s.conn.up \in Seq(UpFrame) /\ frames \in Seq(UpFrame)
      BY <1>1 DEF Connection, Speaks
    <2> QED
      BY <2>1, ConcatFrames
  <1>3. CASE attached /\ s.conn.open
    <2>1. Sent(s, frames) = [s EXCEPT !.conn.up = up]
      BY <1>3 DEF Sent
    <2> HIDE DEF up
    <2>2. [s EXCEPT !.conn.up = up] = [s EXCEPT !.conn = d]
      BY <1>1 DEF Server
    <2>3. /\ d \in Connection /\ d.up = up /\ d.down = s.conn.down /\ d.acks = s.conn.acks
      BY <1>1, <1>2 DEF Connection
    <2> HIDE DEF d
    <2>4. Sent(s, frames) = [bridge |-> s.bridge, conn |-> d]
      BY <1>1, <2>1, <2>2, ConnOf
    <2>5. Fits(s.bridge, d, p, h)
      BY <1>1, <2>3, SentFits DEF up
    <2>6. Sent(s, frames) \in Server
      BY <1>1, <2>3, <2>4 DEF Server
    <2> QED
      BY <2>3, <2>4, <2>5, <2>6 DEF Inv
  <1>4. CASE ~(attached /\ s.conn.open)
    <2>1. Sent(s, frames) = s
      BY <1>4 DEF Sent
    <2> QED
      BY <2>1
  <1> QED
    BY <1>3, <1>4

-----------------------------------------------------------------------------
(***************************************************************************)
(* What the plugin reads, on which everything else depends.                *)
(***************************************************************************)

LEMMA ReadSays ==
  ASSUME NEW s \in Server, s.conn.down # <<>>
  PROVE  LET r == [s EXCEPT !.conn.down = Tail(@)]
         IN  /\ r \in Server /\ r.bridge = s.bridge /\ r.conn.down = Tail(s.conn.down)
             /\ r.conn.up = s.conn.up /\ r.conn.acks = s.conn.acks /\ r.conn.open = s.conn.open
  <1> DEFINE down == Tail(s.conn.down)
             d == [s.conn EXCEPT !.down = down]
             r == [s EXCEPT !.conn.down = down]
  <1>1. s.conn \in Connection /\ s.conn.down \in Seq(DownFrame)
    BY DEF Server, Connection
  <1>2. down \in Seq(DownFrame)
    BY <1>1, TailFrames
  <1>3. r = [s EXCEPT !.conn = d]
    BY DEF Server
  <1>4. [s EXCEPT !.conn.down = Tail(@)] = r
    OBVIOUS
  <1> HIDE DEF down, r
  <1>5. /\ d \in Connection /\ d.down = down /\ d.up = s.conn.up /\ d.acks = s.conn.acks
        /\ d.open = s.conn.open
    BY <1>1, <1>2 DEF Connection
  <1> HIDE DEF d
  <1>6. r = [bridge |-> s.bridge, conn |-> d]
    BY <1>3, ConnOf
  <1>7. r \in Server
    BY <1>5, <1>6 DEF Server
  <1>8. /\ r \in Server /\ r.bridge = s.bridge /\ r.conn.down = down
        /\ r.conn.up = s.conn.up /\ r.conn.acks = s.conn.acks /\ r.conn.open = s.conn.open
    BY <1>5, <1>6, <1>7
  <1> QED
    BY <1>4, <1>8 DEF down

\* Of the requests that are left, none is of an operation that was entered, the one
\* just read included.
LEMMA ReadFits ==
  ASSUME NEW c \in Connection, c.down # <<>>, NEW h, NEW k, DownFits(c, h),
         NEW d \in Connection, d.down = Tail(c.down),
         EnteredBy(c, h, k)
  PROVE  /\ DownFits(d, k)
         /\ Head(c.down) \in DownFrame
         /\ Frames(c.down) = {Head(c.down)} \cup Frames(d.down)
  <1>1. c.down \in Seq(DownFrame)
    BY DEF Connection
  <1>2. /\ DOMAIN d.down = 1 .. Len(c.down) - 1 /\ DOMAIN c.down = 1 .. Len(c.down)
        /\ Len(c.down) \in Nat
        /\ \A i \in DOMAIN d.down : i + 1 \in DOMAIN c.down /\ d.down[i] = c.down[i + 1]
        /\ 1 \in DOMAIN c.down /\ Head(c.down) = c.down[1] /\ Head(c.down) \in DownFrame
        /\ Frames(c.down) = {Head(c.down)} \cup Frames(d.down)
    BY <1>1, TailFrames
  <1>3. ASSUME NEW i \in DOMAIN d.down, d.down[i].kind = "request"
        PROVE  d.down[i].id \notin k.entered
    <2>1. /\ c.down[i + 1].kind = "request" /\ d.down[i] = c.down[i + 1]
          /\ i + 1 \in DOMAIN c.down /\ 1 < i + 1
      BY <1>2, <1>3
    <2>2. c.down[i + 1].id \notin h.entered
      BY <2>1 DEF DownFits, Frames
    <2>3. CASE k.entered = h.entered
      BY <2>1, <2>2, <2>3
    <2>4. CASE /\ k.entered = h.entered \cup {Head(c.down).id}
               /\ Head(c.down).kind = "request" /\ ~Head(c.down).past
      <3>1. c.down[i + 1].id # c.down[1].id
        BY <1>2, <2>1, <2>4 DEF DownFits
      <3> QED
        BY <1>2, <2>1, <2>2, <2>4, <3>1
    <2> QED
      BY <2>3, <2>4 DEF EnteredBy
  <1>4. ASSUME NEW i \in DOMAIN d.down, NEW j \in DOMAIN d.down, i < j,
               d.down[i].kind = "request", d.down[j].kind = "request",
               d.down[i].id = d.down[j].id
        PROVE  d.down[i].past
    <2>1. i + 1 < j + 1
      BY <1>2, <1>4
    <2> QED
      BY <1>2, <1>4, <2>1 DEF DownFits
  <1>5. DownFits(d, k)
    <2>1. \A f \in Frames(d.down) : f.kind = "request" => f.id \notin k.entered
      BY <1>3 DEF Frames
    <2> QED
      BY <1>4, <2>1 DEF DownFits
  <1> QED
    BY <1>2, <1>5

\* The plugin reads a frame and its state becomes q, the history k; it sends nothing.
LEMMA ReadMoves ==
  ASSUME NEW b, NEW c, NEW p, NEW h, Fits(b, c, p, h), c.down # <<>>,
         NEW d \in Connection, d.down = Tail(c.down), d.up = c.up, d.acks = c.acks,
         NEW q \in Plugin, NEW k \in History, PluginFits(q, k),
         EnteredBy(c, h, k),
         NEW S,
         \A y \in Ids \ S : Undisturbed(y, p, h, q, k),
         \A y \in Ids \cap S : TakenOn(y, b, c, q, k)
  PROVE  Fits(b, d, q, k)
  <1>1. c \in Connection /\ DownFits(c, h)
    BY DEF Fits, Types, ConnFits
  <1>2. /\ DownFits(d, k)
        /\ Frames(c.down) = {Head(c.down)} \cup Frames(d.down)
    BY <1>1, ReadFits
  <1>3. Frames(d.down) \subseteq Frames(c.down)
    BY <1>2
  <1>4. ASSUME NEW y \in Ids \cap S
        PROVE  /\ RecordFits(b.op[y], y, d, q, k)
               /\ \A f \in Frames(c.up) : f.id = y => y \in Remembered(q) /\ ~IsAnswer(f, y)
    <2>1. RecordFits(b.op[y], y, c, p, h)
      BY DEF Fits
    <2>2. RequestsFit(b.op[y], y, d, q)
      BY <1>3, <1>4, <2>1 DEF RecordFits, RequestsFit, TakenOn
    <2>3. AcksFit(b.op[y], y, d)
      BY <1>3, <2>1 DEF RecordFits, AcksFit
    <2>4. AnswersFit(b.op[y], y, d, q)
      BY <1>4 DEF AnswersFit, TakenOn
    <2> QED
      BY <1>4, <2>2, <2>3, <2>4 DEF RecordFits, TakenOn, IsAnswer
  <1> QED
    BY <1>2, <1>3, <1>4, StudioMoves

LEMMA ReadKeeps ==
  ASSUME NEW s, NEW p, NEW h, Inv(s, p, h), s.conn.down # <<>>,
         NEW q \in Plugin, NEW k \in History, PluginFits(q, k),
         EnteredBy(s.conn, h, k),
         NEW S,
         \A y \in Ids \ S : Undisturbed(y, p, h, q, k),
         \A y \in Ids \cap S : TakenOn(y, s.bridge, s.conn, q, k)
  PROVE  LET r == [s EXCEPT !.conn.down = Tail(@)]
         IN  Inv(r, q, k) /\ r.bridge = s.bridge /\ r.conn.down = Tail(s.conn.down)
  <1> DEFINE r == [s EXCEPT !.conn.down = Tail(@)]
             b == s.bridge
             c == s.conn
             d == r.conn
  <1>1. s \in Server /\ Fits(b, c, p, h)
    BY DEF Inv
  <1>2. /\ r \in Server /\ r.bridge = b /\ d.down = Tail(c.down)
        /\ d.up = c.up /\ d.acks = c.acks
    BY <1>1, ReadSays
  <1> HIDE DEF r
  <1>3. d \in Connection
    BY <1>2 DEF Server
  <1>4. c.down # <<>>
    OBVIOUS
  <1>5. EnteredBy(c, h, k) /\ \A y \in Ids \cap S : TakenOn(y, b, c, q, k)
    OBVIOUS
  <1>7. Fits(b, d, q, k)
    <2> HIDE DEF b, c, d
    <2> QED
      BY <1>1, <1>2, <1>3, <1>4, <1>5, ReadMoves, Zenon
  <1> QED
    BY <1>2, <1>7 DEF Inv, r

\* A request that is new to the plugin: nothing was sent of it, and if its operation
\* is not gone it was handed out and not heard of.
LEMMA NewRequest ==
  ASSUME NEW s, NEW p, NEW h, Inv(s, p, h), s.conn.down # <<>>,
         NEW f, f = Head(s.conn.down), f.kind = "request", ~Known(p, f.id)
  PROVE  /\ f.id \in Ids /\ f.id \notin h.entered
         /\ s.bridge.op[f.id].stage \notin {"executing", "response_delivery"}
         /\ ~f.past => s.bridge.op[f.id].state = "none" \/ s.bridge.op[f.id].via # None
         /\ ~f.past /\ s.bridge.op[f.id].state # "none" => s.bridge.op[f.id].exec = "unknown"
         /\ \A g \in Frames(s.conn.up) : g.id # f.id
  <1>1. /\ s.conn \in Connection /\ s.conn.down \in Seq(DownFrame)
        /\ DownFits(s.conn, h) /\ UpFits(s.conn, p, h) /\ Sound(s.bridge)
    BY DEF Inv, Server, Fits, ConnFits, Types, Connection
  <1>2. f \in Frames(s.conn.down) /\ f \in DownFrame
    BY <1>1, TailFrames
  <1>3. f.id \in Ids
    BY <1>2 DEF DownFrame, Ack
  <1>4. RecordFits(s.bridge.op[f.id], f.id, s.conn, p, h) /\ s.bridge.op[f.id] \in Operation
    BY <1>1, <1>3, Zenon DEF Inv, Fits, Sound, Bridge
  <1>5. /\ s.bridge.op[f.id].stage \notin {"executing", "response_delivery"}
        /\ ~f.past => s.bridge.op[f.id].state = "none" \/ s.bridge.op[f.id].via # None
    BY <1>2, <1>4, Zenon DEF RecordFits, RequestsFit, IsRequest, Known
  <1>6. ~f.past /\ s.bridge.op[f.id].state # "none" => s.bridge.op[f.id].exec = "unknown"
    BY <1>4, <1>5, Zenon DEF RecordFits, StagesFit, Operation, Stages
  <1>7. \A g \in Frames(s.conn.up) : g.id # f.id
    BY <1>1 DEF UpFits, Known
  <1>8. f.id \notin h.entered
    BY <1>1, <1>2 DEF DownFits
  <1> QED
    BY <1>3, <1>5, <1>6, <1>7, <1>8, Zenon

-----------------------------------------------------------------------------
(***************************************************************************)
(* What the plugin does with a frame: each outcome of receive.             *)
(***************************************************************************)
LEMMA Parts ==
  ASSUME NEW s, NEW p, NEW h, Inv(s, p, h)
  PROVE  /\ s \in Server /\ s.bridge \in Bridge /\ s.conn \in Connection
         /\ Sound(s.bridge) /\ p \in Plugin /\ h \in History
         /\ PluginFits(p, h) /\ Fits(s.bridge, s.conn, p, h)
  BY DEF Inv, Server, Fits, Types

LEMMA PlainReadKeeps ==
  ASSUME NEW s, NEW p, NEW h, Inv(s, p, h), s.conn.down # <<>>
  PROVE  LET r == [s EXCEPT !.conn.down = Tail(@)]
         IN  Inv(r, p, h) /\ r.bridge = s.bridge /\ r.conn.down = Tail(s.conn.down)
  <1>1. p \in Plugin /\ h \in History /\ PluginFits(p, h) /\ EnteredBy(s.conn, h, h)
    BY Parts DEF EnteredBy
  <1>2. \A y \in Ids \ {} : Undisturbed(y, p, h, p, h)
    BY DEF Undisturbed
  <1>3. \A y \in Ids \cap {} : TakenOn(y, s.bridge, s.conn, p, h)
    OBVIOUS
  <1> QED
    BY <1>1, <1>2, <1>3, ReadKeeps

LEMMA AckReadKeeps ==
  ASSUME NEW s, NEW p, NEW h, Inv(s, p, h), s.conn.down # <<>>, NEW x \in Kept(p)
  PROVE  LET r == [s EXCEPT !.conn.down = Tail(@)]
         IN  /\ Inv(r, ReleaseResponse(p, x), h)
             /\ r.bridge = s.bridge /\ r.conn.down = Tail(s.conn.down)
  <1> DEFINE q == ReleaseResponse(p, x)
  <1>1. p \in Plugin /\ h \in History /\ PluginFits(p, h) /\ EnteredBy(s.conn, h, h)
    BY Parts DEF EnteredBy
  <1>2. /\ q \in Plugin /\ q.work = p.work
        /\ \A y \in Ids : q.pend[y] = IF y = x THEN "none" ELSE p.pend[y]
        /\ Remembered(q) = Remembered(p) /\ PluginFits(q, h)
    BY <1>1, ReleaseSays, ReleaseFits
  <1> HIDE DEF q
  <1>3. \A y \in Ids \ {} : Undisturbed(y, p, h, q, h)
    BY <1>2 DEF Undisturbed
  <1>4. \A y \in Ids \cap {} : TakenOn(y, s.bridge, s.conn, q, h)
    OBVIOUS
  <1>5. LET r == [s EXCEPT !.conn.down = Tail(@)]
        IN  Inv(r, q, h) /\ r.bridge = s.bridge /\ r.conn.down = Tail(s.conn.down)
    BY <1>1, <1>2, <1>3, <1>4, ReadKeeps
  <1> QED
    BY <1>5 DEF q

\* The plugin reads a request of x, new to it.
Asks(s, p, x) ==
  /\ s.conn.down # <<>>
  /\ Head(s.conn.down).kind = "request" /\ Head(s.conn.down).id = x
  /\ ~Known(p, x)

LEMMA NotEntered ==
  ASSUME NEW s, NEW p, NEW h, Inv(s, p, h), NEW x, Asks(s, p, x)
  PROVE  /\ x \in Ids /\ Holds(h, x, "not_executed") /\ ~Known(p, x)
         /\ s.bridge.op[x].stage # "response_delivery"
         /\ \A g \in Frames(s.conn.up) : g.id # x
  BY NewRequest DEF Holds, Asks

\* What is said of an operation that was handed out and not heard of stays true when
\* its handler is entered.
LEMMA EnteredStages ==
  ASSUME NEW o, NEW x, NEW h, NEW k, StagesFit(o, x, h), k.declined = h.declined, k.ran = h.ran,
         o.state = "none" \/ o.via # None,
         o.state # "none" => o.exec = "unknown"
  PROVE  StagesFit(o, x, k)
  BY DEF StagesFit, Holds

Begins(h, k, f) ==
  /\ k.ran = h.ran /\ k.declined = h.declined
  /\ k.entered = IF f.past THEN h.entered ELSE h.entered \cup {f.id}

LEMMA EnterKeeps ==
  ASSUME NEW s, NEW p, NEW h, Inv(s, p, h), NEW x, Asks(s, p, x), ~Full(p),
         NEW k \in History, Begins(h, k, Head(s.conn.down))
  PROVE  LET r == [s EXCEPT !.conn.down = Tail(@)]
             t == Sent(r, Executing(x))
         IN  Inv(t, Enter(p, x), k) /\ t.bridge = s.bridge /\ t.conn.down = Tail(s.conn.down)
  <1> DEFINE f == Head(s.conn.down)
             q == Enter(p, x)
             r == [s EXCEPT !.conn.down = Tail(@)]
  <1>1. /\ p \in Plugin /\ h \in History /\ PluginFits(p, h)
        /\ s.conn.down # <<>> /\ f.kind = "request" /\ f.id = x /\ ~Known(p, x)
    BY Parts DEF Asks
  <1>2. /\ x \in Ids /\ x \notin h.entered
        /\ s.bridge.op[x].stage \notin {"executing", "response_delivery"}
        /\ ~f.past => s.bridge.op[x].state = "none" \/ s.bridge.op[x].via # None
        /\ ~f.past /\ s.bridge.op[x].state # "none" => s.bridge.op[x].exec = "unknown"
        /\ \A g \in Frames(s.conn.up) : g.id # x
    BY <1>1, NewRequest
  <1>3. /\ k \in History /\ k.ran = h.ran /\ k.declined = h.declined
        /\ k.entered = IF f.past THEN h.entered ELSE h.entered \cup {x}
    BY <1>1 DEF Begins
  <1>4. EnteredBy(s.conn, h, k)
    BY <1>1, <1>3 DEF EnteredBy
  <1>5. \A y \in Ids \ {x} : \A exec : Holds(h, y, exec) => Holds(k, y, exec)
    BY <1>3 DEF Holds
  <1>6. /\ q \in Plugin /\ q.work = p.work \cup {x} /\ q.pend = p.pend
        /\ Remembered(q) = Remembered(p) \cup {x} /\ PluginFits(q, k)
    BY <1>1, <1>2, <1>5, EnterSays, EnterFits
  <1> HIDE DEF q, r
  <1>7. \A y \in Ids \ {x} : Undisturbed(y, p, h, q, k)
    <2> SUFFICES ASSUME NEW y \in Ids \ {x}
                 PROVE  Undisturbed(y, p, h, q, k)
      OBVIOUS
    <2>1. y \in q.work => y \in p.work
      BY <1>6
    <2>2. q.pend[y] \in {"none", p.pend[y]} /\ (y \in Remembered(p) => y \in Remembered(q))
      BY <1>6
    <2>3. y \in k.entered => y \in h.entered
      BY <1>3
    <2>4. \A exec : Holds(h, y, exec) => Holds(k, y, exec)
      BY <1>5
    <2> QED
      BY <2>1, <2>2, <2>3, <2>4 DEF Undisturbed
  <1>8. \A y \in Ids \cap {x} : TakenOn(y, s.bridge, s.conn, q, k)
    <2>1. StagesFit(s.bridge.op[x], x, h)
      BY <1>2, Parts DEF Fits, RecordFits
    <2>2. StagesFit(s.bridge.op[x], x, k)
      <3>1. CASE f.past
        BY <1>3, <2>1, <3>1 DEF StagesFit, Holds
      <3>2. CASE ~f.past
        <4> DEFINE o == s.bridge.op[x]
        <4>1. StagesFit(o, x, h) /\ (o.state = "none" \/ o.via # None)
              /\ (o.state # "none" => o.exec = "unknown")
          BY <1>2, <2>1, <3>2
        <4> HIDE DEF o
        <4>2. StagesFit(o, x, k)
          BY <1>3, <4>1, EnteredStages
        <4> QED
          BY <4>2 DEF o
      <3> QED
        BY <3>1, <3>2
    <2> QED
      BY <1>2, <1>6, <2>2 DEF TakenOn
  <1>9. Inv(r, q, k) /\ r.bridge = s.bridge /\ r.conn.down = Tail(s.conn.down)
    BY <1>1, <1>3, <1>4, <1>6, <1>7, <1>8, ReadKeeps, ZenonT(60) DEF r
  <1>10. Speaks(Executing(x), q)
    <2>1. Executing(x) \in Seq(UpFrame)
      <3>1. [kind |-> "executing", id |-> x] \in UpFrame
        BY <1>2 DEF UpFrame
      <3> QED
        BY <3>1 DEF Executing
    <2>2. \A g \in Frames(Executing(x)) : g.id = x /\ g.kind = "executing"
      BY DEF Executing, Frames
    <2> QED
      BY <1>6, <2>1, <2>2 DEF Speaks
  <1>11. LET t == Sent(r, Executing(x))
         IN  Inv(t, q, k) /\ t.bridge = r.bridge /\ t.conn.down = r.conn.down
    BY <1>9, <1>10, SentKeeps
  <1> QED
    BY <1>9, <1>11 DEF q, r

LEMMA ReturnedSpeaks ==
  ASSUME NEW q, NEW x \in Kept(q), NEW r \in Responses, q.pend[x] = r
  PROVE  Speaks(Returned(x, r), q)
  <1>1. x \in Ids /\ x \in Remembered(q)
    BY DEF Kept, Remembered
  <1>2. /\ [kind |-> "returned", id |-> x, response |-> r] \in UpFrame
        /\ [kind |-> "response", id |-> x, response |-> r] \in UpFrame
    BY <1>1 DEF UpFrame
  <1>3. Returned(x, r) \in Seq(UpFrame)
    BY <1>2 DEF Returned
  <1>4. \A g \in Frames(Returned(x, r)) : g.id = x /\ g.response = r
    BY DEF Returned, Frames
  <1> QED
    BY <1>1, <1>3, <1>4 DEF Speaks

\* Too late, or one too many: the plugin says at once that it did nothing.
Refuses(p, q, x) ==
  /\ q.work = p.work \ {x}
  /\ \A y \in Ids : q.pend[y] = IF y = x THEN "not_executed" ELSE p.pend[y]
  /\ Kept(q) = Kept(p) \cup {x} /\ Remembered(q) = Remembered(p) \cup {x}

LEMMA RefuseKeeps ==
  ASSUME NEW s, NEW p, NEW h, Inv(s, p, h), NEW x, Asks(s, p, x),
         NEW q \in Plugin, PluginFits(q, h), Refuses(p, q, x)
  PROVE  LET r == [s EXCEPT !.conn.down = Tail(@)]
             t == Sent(r, Returned(x, "not_executed"))
         IN  Inv(t, q, h) /\ t.bridge = s.bridge /\ t.conn.down = Tail(s.conn.down)
  <1> DEFINE r == [s EXCEPT !.conn.down = Tail(@)]
  <1>1. h \in History /\ EnteredBy(s.conn, h, h)
    BY Parts DEF EnteredBy
  <1>2. /\ x \in Ids
        /\ s.bridge.op[x].stage # "response_delivery"
        /\ \A g \in Frames(s.conn.up) : g.id # x
    BY NotEntered
  <1>3. \A y \in Ids \ {x} : Undisturbed(y, p, h, q, h)
    BY DEF Undisturbed, Refuses
  <1>4. \A y \in Ids \cap {x} : TakenOn(y, s.bridge, s.conn, q, h)
    <2>1. StagesFit(s.bridge.op[x], x, h)
      BY <1>2, Parts DEF Fits, RecordFits
    <2> QED
      BY <1>2, <2>1 DEF TakenOn, Refuses
  <1>5. Inv(r, q, h) /\ r.bridge = s.bridge /\ r.conn.down = Tail(s.conn.down)
    BY <1>1, <1>3, <1>4, ReadKeeps DEF Asks
  <1>6. Speaks(Returned(x, "not_executed"), q)
    <2>1. x \in Kept(q) /\ q.pend[x] = "not_executed" /\ "not_executed" \in Responses
      BY <1>2 DEF Responses, Refuses
    <2> QED
      BY <2>1, ReturnedSpeaks
  <1> HIDE DEF r
  <1>7. LET t == Sent(r, Returned(x, "not_executed"))
        IN  Inv(t, q, h) /\ t.bridge = r.bridge /\ t.conn.down = r.conn.down
    BY <1>5, <1>6, SentKeeps
  <1> QED
    BY <1>5, <1>7 DEF r

LEMMA DeclineKeeps ==
  ASSUME NEW s, NEW p, NEW h, Inv(s, p, h), NEW x, Asks(s, p, x), ~Full(p)
  PROVE  LET r == [s EXCEPT !.conn.down = Tail(@)]
             t == Sent(r, Returned(x, "not_executed"))
         IN  /\ Inv(t, Retain(p, x, "not_executed"), h)
             /\ t.bridge = s.bridge /\ t.conn.down = Tail(s.conn.down)
  <1> DEFINE q == Retain(p, x, "not_executed")
  <1>1. p \in Plugin /\ h \in History /\ PluginFits(p, h)
    BY Parts
  <1>2. x \in Ids /\ Holds(h, x, "not_executed") /\ ~Known(p, x)
    BY NotEntered
  <1>3. "not_executed" \in Responses /\ ExecOf("not_executed") = "not_executed"
    BY DEF Responses, ExecOf, Outcomes
  <1>4. x \notin Kept(p) \cup p.done /\ Cardinality(Remembered(p) \cup {x}) <= MaxTerminal
    <2>1. x \notin Kept(p) \cup p.done
      BY <1>2 DEF Known, Remembered
    <2>2. Cardinality(Remembered(p)) < MaxTerminal
      BY <1>1, Room
    <2> QED
      BY <1>1, <1>2, <2>1, <2>2, OneMore, FiniteParts, PluginAssumption
  <1>5. q \in Plugin /\ Refuses(p, q, x)
    BY <1>1, <1>2, <1>3, RetainSays DEF Refuses
  <1>6. PluginFits(q, h)
    BY <1>1, <1>2, <1>3, <1>4, RetainFits
  <1> HIDE DEF q
  <1>7. LET r == [s EXCEPT !.conn.down = Tail(@)]
            t == Sent(r, Returned(x, "not_executed"))
        IN  Inv(t, q, h) /\ t.bridge = s.bridge /\ t.conn.down = Tail(s.conn.down)
    BY <1>5, <1>6, RefuseKeeps
  <1> QED
    BY <1>7 DEF q

LEMMA RejectKeeps ==
  ASSUME NEW s, NEW p, NEW h, Inv(s, p, h), NEW x, Asks(s, p, x), ~ReserveSpent(p)
  PROVE  LET r == [s EXCEPT !.conn.down = Tail(@)]
             t == Sent(r, Returned(x, "not_executed"))
         IN  /\ Inv(t, Reject(p, x), h)
             /\ t.bridge = s.bridge /\ t.conn.down = Tail(s.conn.down)
  <1> DEFINE q == Reject(p, x)
  <1>1. p \in Plugin /\ h \in History /\ PluginFits(p, h)
    BY Parts
  <1>2. x \in Ids /\ Holds(h, x, "not_executed") /\ ~Known(p, x)
    BY NotEntered
  <1>5. q \in Plugin /\ Refuses(p, q, x)
    BY <1>1, <1>2, RejectSays DEF Refuses
  <1>6. PluginFits(q, h)
    BY <1>1, <1>2, RejectFits
  <1> HIDE DEF q
  <1>7. LET r == [s EXCEPT !.conn.down = Tail(@)]
            t == Sent(r, Returned(x, "not_executed"))
        IN  Inv(t, q, h) /\ t.bridge = s.bridge /\ t.conn.down = Tail(s.conn.down)
    BY <1>5, <1>6, RefuseKeeps
  <1> QED
    BY <1>7 DEF q

-----------------------------------------------------------------------------
(***************************************************************************)
(* The other steps of the plugin.                                          *)
(***************************************************************************)

\* A plugin that changes nothing but its phase.
LEMMA PhaseKeeps ==
  ASSUME NEW s, NEW p, NEW h, Inv(s, p, h), NEW q \in Plugin,
         q.work = p.work, q.pend = p.pend, q.rejected = p.rejected, q.done = p.done
  PROVE  Inv(s, q, h)
  <1> DEFINE c == s.conn
             b == s.bridge
  <1>1. /\ c \in Connection /\ h \in History /\ PluginFits(p, h) /\ Fits(b, c, p, h)
        /\ s \in Server
    BY Parts
  <1>2. PluginFits(q, h)
    BY <1>1, SameKept
  <1>3. Remembered(q) = Remembered(p)
    BY DEF Remembered, Kept
  <1>4. \A y \in Ids \ {} : Undisturbed(y, p, h, q, h)
    BY <1>3 DEF Undisturbed
  <1>5. DownFits(c, h)
    BY <1>1 DEF Fits, ConnFits
  <1>6. Fits(b, c, q, h)
    <2> HIDE DEF b, c
    <2>1. \A y \in Ids \cap {} :
            /\ RecordFits(b.op[y], y, c, q, h)
            /\ \A f \in Frames(c.up) : f.id = y => y \in Remembered(q) /\ ~IsAnswer(f, y)
      OBVIOUS
    <2> QED
      BY <1>1, <1>2, <1>4, <1>5, <2>1, StudioMoves
  <1> QED
    BY <1>1, <1>6 DEF Inv

LEMMA DetachKeeps ==
  ASSUME NEW s, NEW p, NEW h, Inv(s, p, h)
  PROVE  /\ Inv(Detach(s), p, h) /\ Detach(s).bridge = s.bridge /\ Detach(s).conn.down = <<>>
  <1> DEFINE c == s.conn
             b == s.bridge
             d == [s.conn EXCEPT !.down = <<>>]
  <1>1. /\ c \in Connection /\ h \in History /\ PluginFits(p, h) /\ Fits(b, c, p, h)
        /\ s \in Server /\ p \in Plugin
    BY Parts
  <1>2. /\ d \in Connection /\ d.down = <<>> /\ d.up = c.up /\ d.acks = c.acks
    BY <1>1, EmptyFrames DEF Connection
  <1>3. Detach(s) = [bridge |-> b, conn |-> d]
    BY <1>1 DEF Detach, Server
  <1> HIDE DEF d
  <1>4. DownFits(d, h) /\ Frames(d.down) = {}
    BY <1>2, EmptyFrames DEF DownFits
  <1>5. \A y \in Ids \ {} : Undisturbed(y, p, h, p, h)
    BY DEF Undisturbed
  <1>6. Fits(b, d, p, h)
    <2> HIDE DEF b, c
    <2>1. \A y \in Ids \cap {} :
            /\ RecordFits(b.op[y], y, d, p, h)
            /\ \A f \in Frames(c.up) : f.id = y => y \in Remembered(p) /\ ~IsAnswer(f, y)
      OBVIOUS
    <2> QED
      BY <1>1, <1>2, <1>4, <1>5, <2>1, StudioMoves
  <1> QED
    BY <1>1, <1>2, <1>3, <1>6 DEF Inv, Server

LEMMA ReconnectKeeps ==
  ASSUME NEW s, NEW p, NEW h, Inv(s, p, h)
  PROVE  Inv(s, Reconnect(p), h)
  BY Parts, ReconnectSays, PhaseKeeps

-----------------------------------------------------------------------------
(***************************************************************************)
(* A handler returns; a socket opens; time passes.                         *)
(***************************************************************************)

\* What a handler that ran for x, and said r, adds to the history.
Says(h, k, x, r) ==
  /\ k.entered = h.entered
  /\ k.ran = IF r \in {"success", "undelivered"} THEN h.ran \cup {x} ELSE h.ran
  /\ k.declined = IF r = "not_executed" THEN h.declined \cup {x} ELSE h.declined

LEMMA SaysHolds ==
  ASSUME NEW h, NEW k, NEW x, NEW r \in Responses \ {"send_failed"}, Says(h, k, x, r)
  PROVE  /\ \A y, exec : Holds(h, y, exec) => Holds(k, y, exec)
         /\ Holds(k, x, ExecOf(r))
  <1>1. \A y, exec : Holds(h, y, exec) => Holds(k, y, exec)
    BY DEF Says, Holds
  <1>2. ExecOf(r) = "not_executed" => r = "not_executed"
    BY DEF Responses, ExecOf, Outcomes
  <1>3. ExecOf(r) = "success" => r \in {"success", "undelivered"}
    BY DEF Responses, ExecOf, Outcomes
  <1> QED
    BY <1>1, <1>2, <1>3 DEF Says, Holds

LEMMA ReturnKeeps ==
  ASSUME NEW s, NEW p, NEW h, Inv(s, p, h), NEW x \in p.work,
         NEW r \in Responses \ {"send_failed"}, NEW k \in History, Says(h, k, x, r)
  PROVE  Inv(s, Retain(p, x, r), k) /\ Speaks(Returned(x, r), Retain(p, x, r))
  <1> DEFINE q == Retain(p, x, r)
             b == s.bridge
             c == s.conn
  <1>1. /\ p \in Plugin /\ PluginFits(p, h) /\ Fits(b, c, p, h) /\ c \in Connection
        /\ s \in Server
    BY Parts
  <1>2. x \in Ids /\ x \notin Kept(p) \cup p.done /\ x \in Remembered(p)
    BY <1>1 DEF Plugin, PluginFits, Remembered
  <1>3. (\A y, exec : Holds(h, y, exec) => Holds(k, y, exec)) /\ Holds(k, x, ExecOf(r))
    BY SaysHolds
  <1>4. /\ q \in Plugin /\ q.work = p.work \ {x}
        /\ \A y \in Ids : q.pend[y] = IF y = x THEN r ELSE p.pend[y]
        /\ Kept(q) = Kept(p) \cup {x} /\ Remembered(q) = Remembered(p)
    <2>1. r \in Responses /\ Remembered(p) \cup {x} = Remembered(p)
      BY <1>2
    <2>2. /\ q \in Plugin /\ q.work = p.work \ {x}
          /\ \A y \in Ids : q.pend[y] = IF y = x THEN r ELSE p.pend[y]
          /\ Kept(q) = Kept(p) \cup {x} /\ Remembered(q) = Remembered(p) \cup {x}
      BY <1>1, <1>2, <2>1, RetainSays
    <2> QED
      BY <2>1, <2>2
  <1>5. PluginFits(q, k)
    <2>1. Cardinality(Remembered(p) \cup {x}) <= MaxTerminal
      <3>1. Remembered(p) \cup {x} = Remembered(p)
        BY <1>2
      <3> QED
        BY <1>1, <3>1 DEF PluginFits
    <2> QED
      BY <1>1, <1>2, <1>3, <2>1, RetainFits
  <1> HIDE DEF q
  <1>6. \A y \in Ids \ {x} : Undisturbed(y, p, h, q, k)
    BY <1>3, <1>4 DEF Undisturbed, Says
  <1>7. /\ RecordFits(b.op[x], x, c, q, k)
        /\ \A f \in Frames(c.up) : f.id = x => x \in Remembered(q) /\ ~IsAnswer(f, x)
    <2> HIDE DEF b, c
    <2>1. RecordFits(b.op[x], x, c, p, h)
      BY <1>1, <1>2 DEF Fits
    <2>2. StagesFit(b.op[x], x, k)
      BY <1>3, <2>1 DEF RecordFits, StagesFit, Says
    <2>3. RequestsFit(b.op[x], x, c, q)
      BY <1>4, <2>1 DEF RecordFits, RequestsFit
    <2>4. AnswersFit(b.op[x], x, c, q)
      BY <2>1 DEF RecordFits, AnswersFit
    <2>5. \A f \in Frames(c.up) : f.id = x => ~IsAnswer(f, x)
      BY <1>1 DEF Fits, ConnFits, UpFits
    <2> QED
      BY <1>2, <1>4, <2>1, <2>2, <2>3, <2>4, <2>5 DEF RecordFits
  <1>8. DownFits(c, k)
    BY <1>1 DEF Fits, ConnFits, DownFits, Says
  <1>9. Fits(b, c, q, k)
    <2> HIDE DEF b, c
    <2>1. \A y \in Ids \cap {x} :
            /\ RecordFits(b.op[y], y, c, q, k)
            /\ \A f \in Frames(c.up) : f.id = y => y \in Remembered(q) /\ ~IsAnswer(f, y)
      BY <1>7
    <2> QED
      BY <1>1, <1>4, <1>5, <1>6, <1>8, <2>1, StudioMoves
  <1>10. Speaks(Returned(x, r), q)
    <2>1. x \in Kept(q) /\ q.pend[x] = r
      BY <1>2, <1>4
    <2> QED
      BY <2>1, ReturnedSpeaks
  <1> QED
    BY <1>1, <1>9, <1>10 DEF Inv, q

LEMMA ResumedSpeaks ==
  ASSUME NEW p \in Plugin, NEW running \in SetToSeqs(p.work), NEW kept \in SetToSeqs(Kept(p))
  PROVE  Speaks(Resumed(p, running, kept), p)
  <1> DEFINE n == Cardinality(p.work)
             m == Cardinality(Kept(p))
             first == [i \in 1 .. n |-> [kind |-> "executing", id |-> running[i]]]
             second == [i \in 1 .. 2 * m |->
                          LET x == kept[(i + 1) \div 2]
                          IN  [kind |-> IF i % 2 = 1 THEN "returned" ELSE "response",
                               id |-> x, response |-> p.pend[x]]]
  <1>1. n \in Nat /\ m \in Nat /\ p.work \subseteq Ids /\ Kept(p) \subseteq Ids
    BY FiniteParts, FS_CardinalityType DEF Plugin, Kept
  <1>2. running \in [1 .. n -> p.work] /\ kept \in [1 .. m -> Kept(p)]
    BY DEF SetToSeqs
  <1> HIDE DEF n, m
  <1>3. Len(running) = n /\ Len(kept) = m
    BY <1>1, <1>2
  <1>4. /\ first \in Seq(UpFrame)
        /\ \A f \in Frames(first) : f.kind = "executing" /\ f.id \in p.work
    <2>1. ASSUME NEW i \in 1 .. n
          PROVE  /\ [kind |-> "executing", id |-> running[i]] \in UpFrame
                 /\ running[i] \in p.work
      BY <1>1, <1>2 DEF UpFrame
    <2>2. first \in [1 .. n -> UpFrame]
      BY <2>1
    <2>3. first \in Seq(UpFrame)
      BY <1>1, <2>2
    <2> QED
      BY <2>1, <2>3 DEF Frames
  <1>5. /\ second \in Seq(UpFrame)
        /\ \A f \in Frames(second) : f.id \in Kept(p) /\ f.response = p.pend[f.id]
    <2>1. ASSUME NEW i \in 1 .. 2 * m
          PROVE  (i + 1) \div 2 \in 1 .. m
      BY <1>1, <2>1
    <2>2. ASSUME NEW i \in 1 .. 2 * m, NEW x, x = kept[(i + 1) \div 2]
          PROVE  /\ x \in Kept(p)
                 /\ [kind |-> IF i % 2 = 1 THEN "returned" ELSE "response",
                     id |-> x, response |-> p.pend[x]] \in UpFrame
      <3>1. x \in Kept(p)
        BY <1>2, <2>1, <2>2
      <3>2. x \in Ids /\ p.pend[x] \in Responses
        BY <3>1 DEF Kept, Plugin
      <3> QED
        BY <3>1, <3>2 DEF UpFrame
    <2>3. second \in [1 .. 2 * m -> UpFrame]
      BY <2>2
    <2>4. second \in Seq(UpFrame)
      BY <1>1, <2>3
    <2>5. \A i \in 1 .. 2 * m : second[i].id \in Kept(p) /\ second[i].response = p.pend[second[i].id]
      BY <2>2
    <2>6. DOMAIN second = 1 .. 2 * m
      OBVIOUS
    <2> HIDE DEF second
    <2> QED
      BY <2>4, <2>5, <2>6 DEF Frames
  <1>6. Resumed(p, running, kept) = first \o second
    BY <1>3 DEF Resumed
  <1> HIDE DEF first, second
  <1>7. /\ Resumed(p, running, kept) \in Seq(UpFrame)
        /\ Frames(Resumed(p, running, kept)) = Frames(first) \cup Frames(second)
    BY <1>4, <1>5, <1>6, ConcatFrames
  <1> QED
    BY <1>4, <1>5, <1>7 DEF Speaks, Remembered


\* The plugin forgets what it likes while nothing is in flight.
LEMMA IdleFits ==
  ASSUME NEW b, NEW c, NEW p, NEW h, Fits(b, c, p, h), c.down = <<>>, c.up = <<>>,
         NEW q \in Plugin, PluginFits(q, h), q.work = p.work,
         \A x \in Ids : q.pend[x] \in {"none", p.pend[x]}
  PROVE  Fits(b, c, q, h)
  <1>1. Frames(c.down) = {} /\ Frames(c.up) = {}
    BY EmptyFrames
  <1>2. ConnFits(c, q, h)
    BY <1>1 DEF Fits, ConnFits, UpFits
  <1>3. ASSUME NEW x \in Ids
        PROVE  RecordFits(b.op[x], x, c, q, h)
    <2>1. RecordFits(b.op[x], x, c, p, h)
      BY DEF Fits
    <2>2. RequestsFit(b.op[x], x, c, q)
      BY <1>1 DEF RequestsFit
    <2>3. AnswersFit(b.op[x], x, c, q)
      BY <1>1, <2>1 DEF RecordFits, AnswersFit
    <2> QED
      BY <2>1, <2>2, <2>3 DEF RecordFits
  <1> QED
    BY <1>2, <1>3 DEF Fits, Types

\* An age stays within its bound.
LEMMA OlderType ==
  ASSUME NEW age \in 0 .. Retention
  PROVE  Older(age, Retention) \in 0 .. Retention
  BY LimitsAssumption DEF Older

LEMMA AgedSays ==
  ASSUME NEW p \in Plugin
  PROVE  LET q == Aged(p)
         IN  /\ q \in Plugin /\ q.work = p.work /\ q.pend = p.pend
             /\ q.rejected = p.rejected /\ q.done \subseteq p.done
  <1> DEFINE age == [x \in Ids |->
                       IF x \in Kept(p) \cup p.done THEN Older(p.age[x], Retention) ELSE 0]
             done == {x \in p.done : age[x] < Retention}
             last == [x \in Ids |-> IF x \in p.done /\ age[x] >= Retention THEN 0 ELSE age[x]]
             older == [p EXCEPT !.age = age]
  <1>1. age \in [Ids -> 0 .. Retention]
    <2>1. \A x \in Ids : Older(p.age[x], Retention) \in 0 .. Retention
      BY OlderType DEF Plugin
    <2>2. 0 \in 0 .. Retention
      BY LimitsAssumption
    <2> QED
      BY <2>1, <2>2
  <1>2. Aged(p) = [older EXCEPT !.done = done, !.age = last]
    BY DEF Aged, Plugin
  <1>3. last \in [Ids -> 0 .. Retention]
    <2> HIDE DEF age
    <2>1. 0 \in 0 .. Retention
      BY LimitsAssumption
    <2> QED
      BY <1>1, <2>1
  <1>4. done \subseteq p.done
    OBVIOUS
  <1> HIDE DEF age, done, last
  <1>5. older \in Plugin /\ older.work = p.work /\ older.pend = p.pend
        /\ older.rejected = p.rejected
    BY <1>1 DEF Plugin
  <1> HIDE DEF older
  <1>6. done \in SUBSET Ids
    BY <1>4 DEF Plugin
  <1>7. LET q == [older EXCEPT !.done = done, !.age = last]
        IN  /\ q \in Plugin /\ q.work = older.work /\ q.pend = older.pend
            /\ q.rejected = older.rejected /\ q.done = done
    BY <1>3, <1>5, <1>6 DEF Plugin
  <1> QED
    BY <1>2, <1>4, <1>5, <1>7

LEMMA ExpireSays ==
  ASSUME NEW p \in Plugin
  PROVE  LET q == Expire(p)
             S == Expiring(p)
         IN  /\ q \in Plugin /\ q.work = p.work
             /\ \A x \in Ids : q.pend[x] = IF x \in S THEN "none" ELSE p.pend[x]
             /\ q.rejected = p.rejected \ S /\ q.done = p.done \cup S
  <1> DEFINE S == Expiring(p)
             pend == [x \in Ids |-> IF x \in S THEN "none" ELSE p.pend[x]]
             age == [x \in Ids |-> IF x \in S THEN 0 ELSE p.age[x]]
             q == [p EXCEPT !.pend = pend, !.rejected = p.rejected \ S,
                            !.done = p.done \cup S, !.age = age]
  <1>1. S \subseteq Ids
    BY DEF Expiring, Kept
  <1>2. Expire(p) = IF S # {} /\ p.phase = "open" THEN Reconnect(q) ELSE q
    BY DEF Expire, Plugin
  <1> HIDE DEF S
  <1>3. /\ pend \in [Ids -> Responses \cup {"none"}] /\ age \in [Ids -> 0 .. Retention]
        /\ \A x \in Ids : pend[x] = IF x \in S THEN "none" ELSE p.pend[x]
    BY LimitsAssumption DEF Plugin
  <1> HIDE DEF pend, age
  <1>4. /\ q \in Plugin /\ q.work = p.work /\ q.pend = pend
        /\ q.rejected = p.rejected \ S /\ q.done = p.done \cup S
    BY <1>1, <1>3 DEF Plugin
  <1> HIDE DEF q
  <1>5. /\ Expire(p) \in Plugin /\ Expire(p).work = q.work /\ Expire(p).pend = q.pend
        /\ Expire(p).rejected = q.rejected /\ Expire(p).done = q.done
    BY <1>2, <1>4, ReconnectSays
  <1> QED
    BY <1>3, <1>4, <1>5 DEF S

\* What expires was let go, and is remembered in its place.
LEMMA AgesFits ==
  ASSUME NEW p \in Plugin, NEW h, PluginFits(p, h)
  PROVE  LET q == Expire(Aged(p))
         IN  /\ q \in Plugin /\ PluginFits(q, h) /\ q.work = p.work
             /\ \A x \in Ids : q.pend[x] \in {"none", p.pend[x]}
  <1> DEFINE a == Aged(p)
             S == Expiring(a)
             q == Expire(a)
  <1>1. /\ a \in Plugin /\ a.work = p.work /\ a.pend = p.pend
        /\ a.rejected = p.rejected /\ a.done \subseteq p.done
    BY AgedSays
  <1> HIDE DEF a
  <1>2. /\ q \in Plugin /\ q.work = a.work
        /\ \A x \in Ids : q.pend[x] = IF x \in S THEN "none" ELSE a.pend[x]
        /\ q.rejected = a.rejected \ S /\ q.done = a.done \cup S
    BY <1>1, ExpireSays
  <1>3. S \subseteq Kept(a) /\ Kept(a) = Kept(p)
    BY <1>1 DEF Expiring, Kept
  <1> HIDE DEF S, q
  <1>4. Kept(q) = Kept(p) \ S
    BY <1>1, <1>2, <1>3 DEF Kept
  <1>5. Remembered(q) \subseteq Remembered(p) /\ Remembered(p) \subseteq Ids
    BY <1>1, <1>2, <1>3, <1>4, FiniteParts DEF Remembered
  <1>6. q.rejected \subseteq p.rejected /\ p.rejected \subseteq Ids
    BY <1>1, <1>2 DEF Plugin
  <1>7. Cardinality(q.rejected) <= MaxRejections /\ Cardinality(Remembered(q)) <= MaxTerminal
    BY <1>5, <1>6, NoMore, PluginAssumption DEF PluginFits
  <1>8. \A x \in Kept(q) : x \in Kept(p) /\ q.pend[x] = p.pend[x]
    BY <1>1, <1>2, <1>4 DEF Kept
  <1>9. \A x \in Kept(q) : q.pend[x] # "send_failed" /\ Holds(h, x, ExecOf(q.pend[x]))
    BY <1>8 DEF PluginFits
  <1>10. /\ q.work \cap Kept(q) = {} /\ q.work \cap q.done = {} /\ Kept(q) \cap q.done = {}
         /\ q.rejected \subseteq Kept(q)
    BY <1>1, <1>2, <1>3, <1>4 DEF PluginFits
  <1> QED
    BY <1>1, <1>2, <1>7, <1>9, <1>10 DEF PluginFits, q, a

LEMMA TimeKeeps ==
  ASSUME NEW s, NEW p, NEW h, Inv(s, p, h), s.conn.down = <<>>, s.conn.up = <<>>
  PROVE  LET t == [s EXCEPT !.bridge = Tick(@)]
         IN  /\ Inv(t, Expire(Aged(p)), h) /\ t.conn = s.conn
             /\ Tells(s.bridge, t.bridge, h)
  <1> DEFINE t == [s EXCEPT !.bridge = Tick(s.bridge)]
             b == s.bridge
             d == Tick(b)
             c == s.conn
             q == Expire(Aged(p))
  <1>1. /\ s \in Server /\ Sound(b) /\ b \in Bridge /\ Fits(b, c, p, h) /\ PluginFits(p, h)
        /\ p \in Plugin
    BY Parts
  <1>2. Sound(d) /\ d.pending \subseteq b.pending
    BY <1>1, TickSound
  <1>3. \A x \in Ids : Same(b.op[x], d.op[x])
    <2> SUFFICES ASSUME NEW x \in Ids
                 PROVE  Same(b.op[x], d.op[x])
      OBVIOUS
    <2>1. b.op[x] \in Operation
      BY <1>1 DEF Bridge
    <2>2. d.op[x] \in {b.op[x], [b.op[x] EXCEPT !.age = Older(@, Retention)]}
      BY <1>1, TickSound
    <2> HIDE DEF b, d
    <2> QED
      BY <2>1, <2>2 DEF Same, Operation
  <1>4. q \in Plugin /\ PluginFits(q, h) /\ q.work = p.work
        /\ \A x \in Ids : q.pend[x] \in {"none", p.pend[x]}
    BY <1>1, AgesFits
  <1>5. t = [bridge |-> d, conn |-> c] /\ t = [s EXCEPT !.bridge = Tick(@)]
    BY <1>1 DEF Server
  <1>6. d \in Bridge /\ c \in Connection
    BY <1>1, <1>2 DEF Sound, Server
  <1> HIDE DEF b, c, d, q
  <1>7. Fits(d, c, p, h)
    BY <1>1, <1>2, <1>3, LedgerFits
  <1>8. Fits(d, c, q, h)
    BY <1>4, <1>7, IdleFits DEF c
  <1>9. t \in Server
    BY <1>5, <1>6 DEF Server
  <1>10. Tells(b, d, h)
    BY <1>3 DEF Tells, TellsAt, ToldAs, Same
  <1>11. t.bridge = d /\ t.conn = c
    BY <1>5
  <1>12. Inv(t, q, h)
    BY <1>8, <1>9, <1>11 DEF Inv
  <1> QED
    BY <1>5, <1>10, <1>11, <1>12 DEF b, q, c


-----------------------------------------------------------------------------
(***************************************************************************)
(* What a caller sees of an operation: the entry of the contract that the  *)
(* record o, a connection c, a plugin p and a history h stand for.         *)
(***************************************************************************)
StatusOf(o) ==
  CASE o.state = "none" -> "none"
    [] o.state = "pending" -> "waiting"
    [] o.state = "settled" -> "settled"
    [] o.state \in EndedStates -> "ended"

Account(o, x, lost, p, h) ==
  [status |-> StatusOf(o), told |-> o.exec, entered |-> x \in h.entered,
   running |-> x \in p.work, ran |-> x \in h.ran, declined |-> x \in h.declined,
   lost |-> lost]

Lost(att, c, x) == att /\ Past(c, x)

LEMMA StatusSays ==
  ASSUME NEW o \in Operation
  PROVE  /\ StatusOf(o) = "none" <=> o.state = "none"
         /\ StatusOf(o) = "waiting" <=> o.state = "pending"
         /\ StatusOf(o) = "settled" <=> o.state = "settled"
         /\ StatusOf(o) = "ended" <=> o.state \in EndedStates
         /\ StatusOf(o) \in {"none", "waiting", "settled", "ended"}
  <1>1. o.state \in {"none", "pending", "settled"} \cup EndedStates
    BY DEF Operation
  <1>2. EndedStates \cap {"none", "pending", "settled"} = {}
    BY DEF EndedStates
  <1>3. CASE o.state = "none"
    BY <1>2, <1>3 DEF StatusOf
  <1>4. CASE o.state = "pending"
    BY <1>2, <1>4 DEF StatusOf
  <1>5. CASE o.state = "settled"
    BY <1>2, <1>5 DEF StatusOf
  <1>6. CASE o.state \in EndedStates
    <2>1. o.state \notin {"none", "pending", "settled"}
      BY <1>2, <1>6
    <2>2. StatusOf(o) = "ended"
      BY <1>6, <2>1 DEF StatusOf
    <2> QED
      BY <1>6, <2>1, <2>2
  <1> QED
    BY <1>1, <1>3, <1>4, <1>5, <1>6

LEMMA AccountType ==
  ASSUME NEW o \in Operation, NEW x, NEW lost \in BOOLEAN, NEW p, NEW h
  PROVE  Account(o, x, lost, p, h) \in Contract!Entry
  <1>1. o.exec \in {"unknown", "success", "error", "not_executed"}
    BY DEF Operation, Outcomes
  <1> QED
    BY <1>1, StatusSays DEF Account, Contract!Entry

LEMMA EntryIs ==
  /\ \A x \in Ids : Entry(x) = Account(server.bridge.op[x], x, Lost(attached, server.conn, x),
                                       plugin, history)
  /\ \A x \in Ids : Entry(x)' = Account(server'.bridge.op[x], x,
                                        Lost(attached', server'.conn, x), plugin', history')
  BY DEF Entry, Account, StatusOf, Lost, Past, IsRequest, Conn, Frames

\* Two entries are one when their parts are.
LEMMA SameEntry ==
  ASSUME NEW r \in Contract!Entry, NEW n \in Contract!Entry,
         n.status = r.status, n.told = r.told, n.entered = r.entered, n.running = r.running,
         n.ran = r.ran, n.declined = r.declined, n.lost = r.lost
  PROVE  n = r
  BY DEF Contract!Entry

LEMMA ForgottenParts ==
  ASSUME NEW r \in Contract!Entry
  PROVE  LET n == [r EXCEPT !.status = "none", !.told = "unknown"]
         IN  /\ n \in Contract!Entry /\ n.status = "none" /\ n.told = "unknown"
             /\ n.entered = r.entered /\ n.running = r.running /\ n.ran = r.ran
             /\ n.declined = r.declined /\ n.lost = r.lost
  BY DEF Contract!Entry

LEMMA LostParts ==
  ASSUME NEW r \in Contract!Entry, NEW lost \in BOOLEAN
  PROVE  LET n == [r EXCEPT !.status = "none", !.told = "unknown", !.lost = lost]
         IN  /\ n \in Contract!Entry /\ n.status = "none" /\ n.told = "unknown"
             /\ n.entered = r.entered /\ n.running = r.running /\ n.ran = r.ran
             /\ n.declined = r.declined /\ n.lost = lost
  BY DEF Contract!Entry

LEMMA AdmittedParts ==
  ASSUME NEW r \in Contract!Entry, NEW lost \in BOOLEAN
  PROVE  LET n == [r EXCEPT !.status = "waiting", !.told = "unknown", !.entered = FALSE,
                            !.lost = lost]
         IN  /\ n \in Contract!Entry /\ n.status = "waiting" /\ n.told = "unknown"
             /\ n.entered = FALSE /\ n.running = r.running /\ n.ran = r.ran
             /\ n.declined = r.declined /\ n.lost = lost
  BY DEF Contract!Entry

LEMMA LetGoParts ==
  ASSUME NEW r \in Contract!Entry
  PROVE  LET n == [r EXCEPT !.lost = FALSE]
         IN  /\ n \in Contract!Entry /\ n.status = r.status /\ n.told = r.told
             /\ n.entered = r.entered /\ n.running = r.running /\ n.ran = r.ran
             /\ n.declined = r.declined /\ n.lost = FALSE
  BY DEF Contract!Entry

LEMMA AccountParts ==
  ASSUME NEW o, NEW x, NEW lost, NEW p, NEW h
  PROVE  LET e == Account(o, x, lost, p, h)
         IN  /\ e.status = StatusOf(o) /\ e.told = o.exec
             /\ e.entered = (x \in h.entered) /\ e.running = (x \in p.work)
             /\ e.ran = (x \in h.ran) /\ e.declined = (x \in h.declined) /\ e.lost = lost
  BY DEF Account

\* What a server tells is told as the contract allows.
LEMMA TellsLegal ==
  ASSUME NEW o \in Operation, NEW n \in Operation, NEW x, NEW lost \in BOOLEAN,
         NEW p, NEW q, NEW h, TellsAt(o, n, x, h), x \in q.work <=> x \in p.work
  PROVE  Contract!Legal(Account(o, x, lost, p, h), Account(n, x, lost, q, h))
  <1> DEFINE e == Account(o, x, lost, p, h)
             f == Account(n, x, lost, q, h)
  <1>1. /\ e.status = StatusOf(o) /\ e.told = o.exec /\ f.status = StatusOf(n) /\ f.told = n.exec
        /\ f.entered = e.entered /\ f.running = e.running /\ f.ran = e.ran
        /\ f.declined = e.declined /\ f.lost = e.lost
        /\ e.entered = (x \in h.entered) /\ e.ran = (x \in h.ran)
        /\ e.declined = (x \in h.declined)
    BY AccountParts
  <1>0. e \in Contract!Entry /\ f \in Contract!Entry
    BY AccountType
  <1>2. CASE ToldAs(o, n)
    <2>1. StatusOf(n) = StatusOf(o) /\ n.exec = o.exec
      BY <1>2 DEF ToldAs, StatusOf
    <2>2. e = f
      BY <2>1 DEF Account
    <2> QED
      BY <2>2 DEF Contract!Legal
  <1>3. CASE o.state # "pending" /\ n.state = "none" /\ n.exec = "unknown"
    <2>1. StatusOf(n) = "none" /\ StatusOf(o) # "waiting"
      BY <1>3, StatusSays
    <2>2. f = [e EXCEPT !.status = "none", !.told = "unknown"]
      <3> DEFINE g == [e EXCEPT !.status = "none", !.told = "unknown"]
      <3> HIDE DEF e, f
      <3>1. /\ g \in Contract!Entry /\ g.status = "none" /\ g.told = "unknown"
            /\ g.entered = e.entered /\ g.running = e.running /\ g.ran = e.ran
            /\ g.declined = e.declined /\ g.lost = e.lost
        BY <1>0, ForgottenParts
      <3> HIDE DEF g
      <3>2. f = g
        BY <1>0, <1>1, <1>3, <2>1, <3>1, SameEntry
      <3> QED
        BY <3>2 DEF g
    <2> QED
      BY <1>1, <2>1, <2>2 DEF Contract!Legal, Contract!Forgotten
  <1>4. CASE /\ Finishes(o, n)
             /\ n.exec # o.exec => /\ o.exec = "unknown" /\ o.state # "settled"
                                   /\ Holds(h, x, n.exec)
    <2>1. /\ StatusOf(o) # "none"
          /\ \/ StatusOf(o) = "waiting" /\ StatusOf(n) \in {"waiting", "ended", "settled"}
             \/ StatusOf(o) = "ended" /\ StatusOf(n) \in {"ended", "settled"}
             \/ StatusOf(o) = "settled" /\ StatusOf(n) = "settled"
          /\ StatusOf(o) = "settled" => o.state = "settled"
      <3>1. EndedStates \cap {"none", "pending", "settled"} = {}
        BY DEF EndedStates
      <3> QED
        BY <1>4, <3>1, StatusSays DEF Finishes
    <2>2. Contract!Done(f) = Contract!Done(e)
      BY <1>1 DEF Contract!Done
    <2>3. n.exec # o.exec => Contract!Truthful(e, f.told)
      BY <1>1, <1>4 DEF Contract!Truthful, Holds
    <2>4. Contract!Learned(e, f)
      <3> HIDE DEF e, f
      <3> QED
        BY <1>1, <1>4, <2>1, <2>2, <2>3 DEF Contract!Learned
    <2> QED
      BY <2>4 DEF Contract!Legal
  <1> QED
    BY <1>2, <1>3, <1>4 DEF TellsAt


\* A new operation of an id takes the place of an old one.
LEMMA AdmittedLegal ==
  ASSUME NEW o \in Operation, NEW n \in Operation, NEW x, NEW l \in BOOLEAN, NEW m \in BOOLEAN,
         NEW p, NEW h, NEW k, o.state # "pending", n.state = "pending", n.exec = "unknown",
         l => m, m => l \/ x \notin h.entered,
         x \notin k.entered, k.ran = h.ran, k.declined = h.declined
  PROVE  Contract!Legal(Account(o, x, l, p, h), Account(n, x, m, p, k))
  <1> DEFINE e == Account(o, x, l, p, h)
             f == Account(n, x, m, p, k)
             g == [e EXCEPT !.status = "waiting", !.told = "unknown", !.entered = FALSE,
                            !.lost = m]
  <1>1. e \in Contract!Entry /\ f \in Contract!Entry
    BY AccountType
  <1>2. /\ f.status = StatusOf(n) /\ f.told = n.exec
        /\ f.entered = (x \in k.entered) /\ f.running = e.running
        /\ f.ran = e.ran /\ f.declined = e.declined /\ f.lost = m
    BY AccountParts
  <1>3. /\ e.status = StatusOf(o)
        /\ e.entered = (x \in h.entered) /\ e.lost = l
    BY AccountParts
  <1>4. StatusOf(n) = "waiting" /\ StatusOf(o) # "waiting"
    BY StatusSays
  <1> HIDE DEF e, f
  <1>5. /\ g \in Contract!Entry /\ g.status = "waiting" /\ g.told = "unknown"
        /\ g.entered = FALSE /\ g.running = e.running /\ g.ran = e.ran
        /\ g.declined = e.declined /\ g.lost = m
    BY <1>1, AdmittedParts
  <1> HIDE DEF g
  <1>6. f.entered = FALSE
    <2>1. (x \in k.entered) = FALSE
      OBVIOUS
    <2> QED
      BY <1>2, <2>1, Zenon
  <1>7. f = g
    <2>1. /\ f.status = g.status /\ f.told = g.told /\ f.entered = g.entered
          /\ f.running = g.running /\ f.ran = g.ran /\ f.declined = g.declined
          /\ f.lost = g.lost
      BY <1>2, <1>4, <1>5, <1>6
    <2> QED
      BY <1>1, <1>5, <2>1, SameEntry
  <1>8. Contract!Admitted(e, f)
    <2>1. e.status # "waiting" /\ f = [e EXCEPT !.status = "waiting", !.told = "unknown",
                                                !.entered = FALSE, !.lost = f.lost]
      BY <1>2, <1>3, <1>4, <1>7 DEF g
    <2>2. (e.lost => f.lost) /\ (f.lost => e.lost \/ ~e.entered)
      BY <1>2, <1>3
    <2> QED
      BY <2>1, <2>2 DEF Contract!Admitted
  <1> QED
    BY <1>8 DEF Contract!Legal, e, f

\* Nothing happens, but that a request of an old operation is read, or never will be.
LEMMA LetGoLegal ==
  ASSUME NEW o \in Operation, NEW x, NEW l \in BOOLEAN, NEW m \in BOOLEAN,
         NEW p, NEW q, NEW h, m => l, x \in q.work <=> x \in p.work
  PROVE  Contract!Legal(Account(o, x, l, p, h), Account(o, x, m, q, h))
  <1> DEFINE e == Account(o, x, l, p, h)
             f == Account(o, x, m, q, h)
             g == [e EXCEPT !.lost = FALSE]
  <1>1. e \in Contract!Entry /\ f \in Contract!Entry
    BY AccountType
  <1>2. /\ f.status = e.status /\ f.told = e.told
        /\ f.entered = e.entered /\ f.running = e.running
        /\ f.ran = e.ran /\ f.declined = e.declined
    BY AccountParts
  <1>3. e.lost = l /\ f.lost = m
    BY AccountParts
  <1> HIDE DEF e, f
  <1>4. CASE l = m
    <2>1. f = e
      BY <1>1, <1>2, <1>3, <1>4, SameEntry
    <2> QED
      BY <2>1 DEF Contract!Legal, e, f
  <1>5. CASE l # m
    <2>1. l = TRUE /\ m = FALSE
      BY <1>5
    <2>2. /\ g \in Contract!Entry /\ g.status = e.status /\ g.told = e.told
          /\ g.entered = e.entered /\ g.running = e.running /\ g.ran = e.ran
          /\ g.declined = e.declined /\ g.lost = FALSE
      BY <1>1, LetGoParts
    <2> HIDE DEF g
    <2>3. f = g
      BY <1>1, <1>2, <1>3, <2>1, <2>2, SameEntry
    <2>4. Contract!LetGo(e, f)
      BY <1>3, <2>1, <2>3 DEF Contract!LetGo, g
    <2> QED
      BY <2>4 DEF Contract!Legal, e, f
  <1> QED
    BY <1>4, <1>5

\* A handler is entered, for the operation or for one that is gone.
LEMMA EnteredLegal ==
  ASSUME NEW o \in Operation, NEW x, NEW l \in BOOLEAN, NEW m \in BOOLEAN,
         NEW p, NEW q, NEW h, NEW k, x \notin p.work, x \in q.work,
         k.ran = h.ran, k.declined = h.declined,
         \/ /\ ~l /\ ~m /\ x \notin h.entered /\ x \in k.entered
            /\ o.exec # "not_executed"
         \/ l /\ k.entered = h.entered
  PROVE  Contract!Legal(Account(o, x, l, p, h), Account(o, x, m, q, k))
  <1> DEFINE e == Account(o, x, l, p, h)
             f == Account(o, x, m, q, k)
  <1>1. /\ f.status = e.status /\ f.told = e.told /\ e.told = o.exec
        /\ e.entered = (x \in h.entered) /\ f.entered = (x \in k.entered)
        /\ e.running = (x \in p.work) /\ f.running = (x \in q.work)
        /\ f.ran = e.ran /\ f.declined = e.declined /\ e.lost = l /\ f.lost = m
    BY AccountParts
  <1> HIDE DEF e, f
  <1>2. Contract!Told(f) = Contract!Told(e)
    BY <1>1 DEF Contract!Told
  <1>3. Contract!Entered(e, f)
    BY <1>1, <1>2 DEF Contract!Entered
  <1> QED
    BY <1>3 DEF Contract!Legal, e, f

\* A handler returns, and what it says is added to the history.
LEMMA FinishedLegal ==
  ASSUME NEW o \in Operation, NEW x, NEW l \in BOOLEAN, NEW p, NEW q, NEW h, NEW k,
         NEW r, Says(h, k, x, r), x \in p.work, x \notin q.work
  PROVE  Contract!Legal(Account(o, x, l, p, h), Account(o, x, l, q, k))
  <1> DEFINE e == Account(o, x, l, p, h)
             f == Account(o, x, l, q, k)
  <1>1. /\ f.status = e.status /\ f.told = e.told
        /\ f.entered = e.entered
        /\ e.running = (x \in p.work) /\ f.running = (x \in q.work)
        /\ e.ran = (x \in h.ran) /\ f.ran = (x \in k.ran)
        /\ e.declined = (x \in h.declined) /\ f.declined = (x \in k.declined)
        /\ e.lost = f.lost
    BY AccountParts DEF Says
  <1> HIDE DEF e, f
  <1>2. Contract!Told(f) = Contract!Told(e)
    BY <1>1 DEF Contract!Told
  <1>3. /\ x \in h.ran => x \in k.ran
        /\ x \in h.declined => x \in k.declined
    BY DEF Says
  <1>4. Contract!Finished(e, f)
    BY <1>1, <1>2, <1>3 DEF Contract!Finished
  <1> QED
    BY <1>4 DEF Contract!Legal, e, f

LEMMA NoRecordSays ==
  NoRecord \in Operation /\ StatusOf(NoRecord) = "none" /\ NoRecord.exec = "unknown"
  <1>1. NoRecord \in Operation /\ NoRecord.state = "none" /\ NoRecord.exec = "unknown"
    BY LimitsAssumption DEF NoRecord, Operation, Stages, Outcomes
  <1> QED
    BY <1>1, StatusSays

\* The server that knew of the operation is gone.
Restarted(e, lost) == [e EXCEPT !.status = "none", !.told = "unknown", !.lost = lost]

LEMMA RestartedEntry ==
  ASSUME NEW o \in Operation, NEW x, NEW l \in BOOLEAN, NEW m \in BOOLEAN, NEW p, NEW h
  PROVE  Account(NoRecord, x, m, p, h) = Restarted(Account(o, x, l, p, h), m)
  <1> DEFINE e == Account(o, x, l, p, h)
             f == Account(NoRecord, x, m, p, h)
             g == [e EXCEPT !.status = "none", !.told = "unknown", !.lost = m]
  <1>1. NoRecord \in Operation /\ NoRecord.exec = "unknown"
    BY NoRecordSays
  <1>2. e \in Contract!Entry /\ f \in Contract!Entry
    BY <1>1, AccountType
  <1>3. /\ f.status = StatusOf(NoRecord) /\ f.told = NoRecord.exec
        /\ f.entered = e.entered /\ f.running = e.running
        /\ f.ran = e.ran /\ f.declined = e.declined /\ f.lost = m /\ e.lost = l
    BY AccountParts
  <1>4. StatusOf(NoRecord) = "none"
    BY NoRecordSays
  <1> HIDE DEF e, f
  <1>5. /\ g \in Contract!Entry /\ g.status = "none" /\ g.told = "unknown"
        /\ g.entered = e.entered /\ g.running = e.running /\ g.ran = e.ran
        /\ g.declined = e.declined /\ g.lost = m
    BY <1>2, LostParts
  <1> HIDE DEF g
  <1>6. f = g
    BY <1>1, <1>2, <1>3, <1>4, <1>5, SameEntry
  <1> QED
    BY <1>6 DEF e, f, g, Restarted

RestartsTo(e, f) ==
  \E lost \in {e.lost, TRUE} :
    f = [e EXCEPT !.status = "none", !.told = "unknown", !.lost = lost]

LEMMA RestartedAccount ==
  ASSUME NEW o \in Operation, NEW x, NEW l \in BOOLEAN, NEW m \in BOOLEAN, NEW p, NEW h,
         m = l \/ m = TRUE
  PROVE  RestartsTo(Account(o, x, l, p, h), Account(NoRecord, x, m, p, h))
  <1> DEFINE e == Account(o, x, l, p, h)
             f == Account(NoRecord, x, m, p, h)
  <1>1. f = Restarted(e, m)
    BY RestartedEntry
  <1>2. e.lost = l
    BY AccountParts
  <1> HIDE DEF e, f
  <1>3. m \in {e.lost, TRUE}
    BY <1>2, Zenon
  <1>4. f = [e EXCEPT !.status = "none", !.told = "unknown", !.lost = m]
    BY <1>1, Zenon DEF Restarted
  <1>5. RestartsTo(e, f)
    BY <1>3, <1>4, Zenon DEF RestartsTo
  <1> QED
    BY <1>5 DEF e, f


-----------------------------------------------------------------------------
(***************************************************************************)
(* What each step does: it keeps the invariant, every operation goes on as *)
(* the contract allows, and no handler is entered again.                   *)
(***************************************************************************)
Advances ==
  /\ IInv'
  /\ \A x \in Ids : Contract!Legal(Entry(x), Entry(x)')
  /\ \A x \in plugin'.work \ plugin.work : x \notin history.entered

LEMMA Operations ==
  ASSUME NEW s, NEW p, NEW h, Inv(s, p, h), NEW x \in Ids
  PROVE  s.bridge.op[x] \in Operation
  BY Parts DEF Bridge

LEMMA LostType == \A att, c, x : Lost(att, c, x) \in BOOLEAN
  BY DEF Lost

\* A step of the server, whatever phase it finds the plugin in.
LEMMA ServerStep ==
  ASSUME IInv, Inv(server', plugin', history), Tells(server.bridge, server'.bridge, history),
         \A x \in Ids : Lost(attached', server'.conn, x) <=> Lost(attached, server.conn, x),
         plugin'.work = plugin.work, UNCHANGED history
  PROVE  Advances
  <1>1. IInv'
    BY DEF IInv
  <1>2. ASSUME NEW x \in Ids
        PROVE  Contract!Legal(Entry(x), Entry(x)')
    <2> DEFINE o == server.bridge.op[x]
               n == server'.bridge.op[x]
               l == Lost(attached, server.conn, x)
    <2>1. /\ o \in Operation /\ n \in Operation /\ l \in BOOLEAN
          /\ TellsAt(o, n, x, history)
      BY Operations, LostType DEF IInv, Tells
    <2>2. Lost(attached', server'.conn, x) = l
      BY LostType
    <2>3. /\ Entry(x) = Account(o, x, l, plugin, history)
          /\ Entry(x)' = Account(n, x, l, plugin', history)
      BY <2>2, EntryIs
    <2> HIDE DEF o, n, l
    <2>4. Contract!Legal(Account(o, x, l, plugin, history), Account(n, x, l, plugin', history))
      BY <2>1, TellsLegal
    <2> QED
      BY <2>3, <2>4
  <1> QED
    BY <1>1, <1>2 DEF Advances

\* A step of the plugin that enters no handler and lets none return.
LEMMA QuietStep ==
  ASSUME IInv, Inv(server', plugin', history), server'.bridge.op = server.bridge.op,
         \A x \in Ids : Lost(attached', server'.conn, x) => Lost(attached, server.conn, x),
         plugin'.work = plugin.work, UNCHANGED history
  PROVE  Advances
  <1>1. IInv'
    BY DEF IInv
  <1>2. ASSUME NEW x \in Ids
        PROVE  Contract!Legal(Entry(x), Entry(x)')
    <2> DEFINE o == server.bridge.op[x]
               l == Lost(attached, server.conn, x)
               m == Lost(attached', server'.conn, x)
    <2>1. o \in Operation /\ l \in BOOLEAN /\ m \in BOOLEAN /\ (m => l)
      BY Operations, LostType DEF IInv
    <2>2. /\ Entry(x) = Account(o, x, l, plugin, history)
          /\ Entry(x)' = Account(o, x, m, plugin', history)
      BY EntryIs
    <2> HIDE DEF o, m, l
    <2>3. Contract!Legal(Account(o, x, l, plugin, history), Account(o, x, m, plugin', history))
      BY <2>1, LetGoLegal
    <2> QED
      BY <2>2, <2>3
  <1> QED
    BY <1>1, <1>2 DEF Advances

LEMMA GoesStep ==
  ASSUME IInv, Goes(server, server', plugin, history), UNCHANGED <<plugin, attached, history>>
  PROVE  Advances
  <1>1. \A x \in Ids : Lost(attached', server'.conn, x) <=> Lost(attached, server.conn, x)
    BY DEF Goes, Lost
  <1> QED
    BY <1>1, ServerStep DEF Goes

LEMMA SubmitStep ==
  ASSUME IInv, NEW x \in Ids, NEW p \in Peers, SubmitRequest(x, p)
  PROVE  Advances
  <1> DEFINE admitted == x \in Admit(server.bridge, x, p).pending \ server.bridge.pending
  <1>1. Inv(server, plugin, history)
    BY DEF IInv
  <1>2. CASE ~admitted
    <2>1. server' = Submit(server, x, p) /\ UNCHANGED <<plugin, attached, history>>
      BY <1>2 DEF SubmitRequest
    <2>2. Goes(server, Submit(server, x, p), plugin, history)
      BY <1>1, <1>2, SubmitGoes
    <2> QED
      BY <2>1, <2>2, GoesStep
  <1>3. CASE admitted
    <2> DEFINE k == [history EXCEPT !.entered = @ \ {x}]
    <2>1. /\ server' = Submit(Outdate(server, x), x, p) /\ history' = k
          /\ UNCHANGED <<plugin, attached>>
      BY <1>3 DEF SubmitRequest
    <2>2. /\ Inv(server', plugin, k)
          /\ server.bridge.op[x].state # "pending"
          /\ server'.bridge.op[x].state = "pending" /\ server'.bridge.op[x].exec = "unknown"
          /\ \A y \in Ids \ {x} : /\ TellsAt(server.bridge.op[y], server'.bridge.op[y], y, history)
                                  /\ Past(server'.conn, y) <=> Past(server.conn, y)
          /\ Past(server.conn, x) => Past(server'.conn, x)
          /\ Past(server'.conn, x) => x \notin history.entered
      BY <1>1, <1>3, <2>1, AdmissionKeeps
    <2>3. history \in History
      BY <1>1, Parts
    <2>4. k.entered = history.entered \ {x} /\ k.ran = history.ran /\ k.declined = history.declined
      BY <2>3 DEF History
    <2> HIDE DEF k
    <2>5. ASSUME NEW y \in Ids
          PROVE  Contract!Legal(Entry(y), Entry(y)')
      <3> DEFINE o == server.bridge.op[y]
                 n == server'.bridge.op[y]
                 l == Lost(attached, server.conn, y)
                 m == Lost(attached', server'.conn, y)
      <3>1. o \in Operation /\ n \in Operation /\ l \in BOOLEAN /\ m \in BOOLEAN
        BY <1>1, <2>2, Operations, LostType
      <3>2. /\ Entry(y) = Account(o, y, l, plugin, history)
            /\ Entry(y)' = Account(n, y, m, plugin, k)
        BY <2>1, EntryIs
      <3>3. CASE y = x
        <4>1. /\ o.state # "pending" /\ n.state = "pending" /\ n.exec = "unknown"
              /\ (l => m)
              /\ (m => l \/ y \notin history.entered)
          BY <2>1, <2>2, <3>3 DEF Lost
        <4>2. y \notin k.entered
          BY <2>4, <3>3
        <4> HIDE DEF o, n, l, m
        <4> QED
          <5>1. Contract!Legal(Account(o, y, l, plugin, history), Account(n, y, m, plugin, k))
            <6>1. k.ran = history.ran /\ k.declined = history.declined
              BY <2>4
            <6> QED
              BY <3>1, <4>1, <4>2, <6>1, AdmittedLegal
          <5> QED
            BY <3>2, <5>1
      <3>4. CASE y # x
        <4>1. m = l
          BY <2>1, <2>2, <3>4, LostType DEF Lost
        <4>2. TellsAt(o, n, y, history)
          BY <2>2, <3>4
        <4>3. Account(n, y, m, plugin, k) = Account(n, y, m, plugin, history)
          <5>1. (y \in k.entered) = (y \in history.entered)
            BY <2>4, <3>4
          <5> QED
            BY <2>4, <5>1, Zenon DEF Account
        <4> HIDE DEF o, n, l, m
        <4>4. Contract!Legal(Account(o, y, l, plugin, history), Account(n, y, l, plugin, history))
          BY <3>1, <4>2, TellsLegal
        <4> QED
          BY <3>2, <4>1, <4>3, <4>4
      <3> QED
        BY <3>3, <3>4
    <2>6. IInv'
      BY <2>1, <2>2 DEF IInv
    <2> QED
      BY <2>1, <2>5, <2>6 DEF Advances
  <1> QED
    BY <1>2, <1>3


LEMMA TransportPeer == Transport \in Peers
  BY TransportAssumption, PeersAssumption

LEMMA ServerSteps ==
  ASSUME IInv,
         \/ \E x \in Ids : WaiterTimesOut(x)
         \/ HeartbeatFires \/ WriteDone \/ ServerReceives \/ ServerDrops \/ ServerSeesClose
         \/ PeerGoesStale
         \/ \E p \in Peers : ClientRegisters(p) \/ ClientLeaves(p)
  PROVE  Advances
  <1>1. Inv(server, plugin, history)
    BY DEF IInv
  <1>2. ASSUME NEW x \in Ids, WaiterTimesOut(x)
        PROVE  Advances
    <2>1. x \in server.bridge.pending /\ server' = EndWait(server, x, "timed_out")
          /\ UNCHANGED <<plugin, attached, history>>
      BY <1>2 DEF WaiterTimesOut
    <2>2. "timed_out" \in EndedStates
      BY DEF EndedStates
    <2> QED
      BY <1>1, <2>1, <2>2, EndWaitGoes, GoesStep
  <1>3. ASSUME HeartbeatFires
        PROVE  Advances
    BY <1>1, <1>3, HeartbeatGoes, GoesStep DEF HeartbeatFires
  <1>4. ASSUME WriteDone
        PROVE  Advances
    BY <1>1, <1>4, WriteCompletesGoes, GoesStep DEF WriteDone
  <1>5. ASSUME ServerReceives
        PROVE  Advances
    BY <1>1, <1>5, ReceiveGoes, GoesStep DEF ServerReceives, HasArrived, Conn
  <1>6. ASSUME ServerDrops
        PROVE  Advances
    BY <1>1, <1>6, CloseGoes, GoesStep DEF ServerDrops
  <1>7. ASSUME ServerSeesClose
        PROVE  Advances
    BY <1>1, <1>7, CloseGoes, GoesStep DEF ServerSeesClose
  <1>8. ASSUME PeerGoesStale
        PROVE  Advances
    BY <1>1, <1>8, LeaveGoes, TransportPeer, GoesStep DEF PeerGoesStale
  <1>9. ASSUME NEW p \in Peers, ClientRegisters(p)
        PROVE  Advances
    BY <1>1, <1>9, ArriveGoes, GoesStep DEF ClientRegisters
  <1>10. ASSUME NEW p \in Peers, ClientLeaves(p)
         PROVE  Advances
    BY <1>1, <1>10, LeaveGoes, GoesStep DEF ClientLeaves
  <1> QED
    BY <1>2, <1>3, <1>4, <1>5, <1>6, <1>7, <1>8, <1>9, <1>10

LEMMA LeavesStep ==
  ASSUME IInv, Leaves, UNCHANGED history
  PROVE  Advances
  <1>1. Inv(server, plugin, history) /\ plugin \in Plugin
    BY Parts DEF IInv
  <1>2. plugin' = Reconnect(plugin) /\ attached' = FALSE
    BY DEF Leaves
  <1>3. plugin'.work = plugin.work
    BY <1>1, <1>2, ReconnectSays
  <1>4. Inv(server', plugin, history) /\ server'.bridge = server.bridge
    BY <1>1, DetachKeeps DEF Leaves
  <1>5. Inv(server', plugin', history)
    BY <1>2, <1>4, ReconnectKeeps
  <1>6. \A x \in Ids : Lost(attached', server'.conn, x) => Lost(attached, server.conn, x)
    BY <1>2 DEF Lost
  <1> QED
    BY <1>3, <1>4, <1>5, <1>6, QuietStep

LEMMA RetryStep ==
  ASSUME IInv, RetryTimer
  PROVE  Advances
  <1>1. Inv(server, plugin, history) /\ plugin \in Plugin
    BY Parts DEF IInv
  <1>2. /\ plugin' = [plugin EXCEPT !.phase = IF plugin.ready THEN "upgrading" ELSE "registering"]
        /\ UNCHANGED <<server, attached, history>>
    BY DEF RetryTimer
  <1>3. /\ plugin' \in Plugin /\ plugin'.work = plugin.work /\ plugin'.pend = plugin.pend
        /\ plugin'.rejected = plugin.rejected /\ plugin'.done = plugin.done
    BY <1>1, <1>2 DEF Plugin
  <1>4. Inv(server, plugin', history)
    BY <1>1, <1>3, PhaseKeeps
  <1> QED
    BY <1>2, <1>3, <1>4, QuietStep

LEMMA RegisterStep ==
  ASSUME IInv, RegistersReady
  PROVE  Advances
  <1>1. Inv(server, plugin, history) /\ plugin \in Plugin
    BY Parts DEF IInv
  <1>2. /\ server' = Arrive(server, Transport) /\ UNCHANGED <<attached, history>>
        /\ \/ plugin' = [plugin EXCEPT !.phase = "upgrading", !.ready = TRUE]
           \/ plugin' = Reconnect(plugin)
    BY DEF RegistersReady
  <1>3. /\ plugin' \in Plugin /\ plugin'.work = plugin.work /\ plugin'.pend = plugin.pend
        /\ plugin'.rejected = plugin.rejected /\ plugin'.done = plugin.done
    <2>1. CASE plugin' = Reconnect(plugin)
      BY <1>1, <2>1, ReconnectSays
    <2>2. CASE plugin' = [plugin EXCEPT !.phase = "upgrading", !.ready = TRUE]
      BY <1>1, <2>2 DEF Plugin
    <2> QED
      BY <1>2, <2>1, <2>2
  <1>4. Goes(server, server', plugin, history)
    BY <1>1, <1>2, TransportPeer, ArriveGoes
  <1>5. Inv(server', plugin', history)
    BY <1>3, <1>4, PhaseKeeps DEF Goes
  <1>6. \A x \in Ids : Lost(attached', server'.conn, x) <=> Lost(attached, server.conn, x)
    BY <1>2, <1>4 DEF Goes, Lost
  <1> QED
    BY <1>2, <1>3, <1>4, <1>5, <1>6, ServerStep DEF Goes

LEMMA UpgradeStep ==
  ASSUME IInv, Upgrade
  PROVE  Advances
  <1>1. Inv(server, plugin, history) /\ plugin \in Plugin
    BY Parts DEF IInv
  <1>2. CASE Transport \in server.bridge.peers
    <2>1. /\ server' = OpenSocket(server) /\ UNCHANGED <<plugin, history>> /\ ~attached
      BY <1>2 DEF Upgrade, Upgrades
    <2>2. /\ Inv(server', plugin, history)
          /\ \A x \in Ids : ToldAs(server.bridge.op[x], server'.bridge.op[x])
          /\ \A x \in Ids : ~Past(server'.conn, x)
      BY <1>1, <2>1, OpenKeeps
    <2>3. Tells(server.bridge, server'.bridge, history)
      BY <2>2 DEF Tells, TellsAt
    <2>4. \A x \in Ids : Lost(attached', server'.conn, x) <=> Lost(attached, server.conn, x)
      BY <2>1, <2>2 DEF Lost
    <2> QED
      BY <2>1, <2>2, <2>3, <2>4, ServerStep
  <1>3. CASE Transport \notin server.bridge.peers
    <2>1. plugin' = Reconnect(plugin) /\ UNCHANGED <<server, attached, history>>
      BY <1>3 DEF Upgrade
    <2>2. Inv(server, plugin', history) /\ plugin'.work = plugin.work
      BY <1>1, <2>1, ReconnectKeeps, ReconnectSays
    <2> QED
      BY <2>1, <2>2, QuietStep
  <1> QED
    BY <1>2, <1>3

LEMMA OpenedStep ==
  ASSUME IInv, Opened
  PROVE  Advances
  <1>1. Inv(server, plugin, history) /\ plugin \in Plugin
    BY Parts DEF IInv
  <1>2. PICK running \in SetToSeqs(plugin.work), kept \in SetToSeqs(Kept(plugin)) :
          server' = Sent(server, Resumed(plugin, running, kept))
    BY DEF Opened
  <1>3. plugin' = [plugin EXCEPT !.phase = "open"] /\ UNCHANGED <<attached, history>>
    BY DEF Opened
  <1>4. /\ plugin' \in Plugin /\ plugin'.work = plugin.work /\ plugin'.pend = plugin.pend
        /\ plugin'.rejected = plugin.rejected /\ plugin'.done = plugin.done
    BY <1>1, <1>3 DEF Plugin
  <1>5. Speaks(Resumed(plugin, running, kept), plugin)
    BY <1>1, ResumedSpeaks
  <1>6. /\ Inv(server', plugin, history) /\ server'.bridge = server.bridge
        /\ server'.conn.down = server.conn.down
    BY <1>1, <1>2, <1>5, SentKeeps
  <1>7. Inv(server', plugin', history)
    BY <1>4, <1>6, PhaseKeeps
  <1>8. \A x \in Ids : Lost(attached', server'.conn, x) => Lost(attached, server.conn, x)
    BY <1>3, <1>6 DEF Lost, Past
  <1> QED
    BY <1>3, <1>4, <1>6, <1>7, <1>8, QuietStep

LEMMA TimeStep ==
  ASSUME IInv, TimePasses
  PROVE  Advances
  <1>1. Inv(server, plugin, history) /\ plugin \in Plugin /\ PluginFits(plugin, history)
    BY Parts DEF IInv
  <1>2. /\ server.conn.down = <<>> /\ server.conn.up = <<>>
        /\ plugin' = Expire(Aged(plugin)) /\ server' = [server EXCEPT !.bridge = Tick(@)]
        /\ UNCHANGED history
    BY DEF TimePasses, Conn
  <1>3. /\ Inv(server', plugin', history) /\ server'.conn = server.conn
        /\ Tells(server.bridge, server'.bridge, history)
    BY <1>1, <1>2, TimeKeeps
  <1>4. plugin'.work = plugin.work
    BY <1>1, <1>2, AgesFits
  <1>5. \A x \in Ids : Lost(attached', server'.conn, x) <=> Lost(attached, server.conn, x)
    BY <1>2, <1>3, EmptyFrames DEF Lost, Past
  <1> QED
    BY <1>2, <1>3, <1>4, <1>5, ServerStep


LEMMA ReturnStep ==
  ASSUME IInv, NEW x \in Ids, NEW r \in Reports, HandlerReturns(x, r)
  PROVE  Advances
  <1>1. Inv(server, plugin, history) /\ plugin \in Plugin /\ history \in History
    BY Parts DEF IInv
  <1>2. /\ x \in plugin.work /\ plugin' = Retain(plugin, x, r)
        /\ server' = IF plugin.phase = "open" THEN Sent(server, Returned(x, r)) ELSE server
        /\ UNCHANGED attached
    BY DEF HandlerReturns
  <1>3. r \in Responses \ {"send_failed"}
    BY ReportsAssumption DEF Responses
  <1>4. history' \in History /\ Says(history, history', x, r)
    <2>1. history' = CASE r \in {"success", "undelivered"} -> [history EXCEPT !.ran = @ \cup {x}]
                       [] r = "not_executed" -> [history EXCEPT !.declined = @ \cup {x}]
                       [] OTHER -> history
      BY DEF HandlerReturns
    <2>2. CASE r \in {"success", "undelivered"}
      <3>1. history' = [history EXCEPT !.ran = @ \cup {x}] /\ r # "not_executed"
        BY <2>1, <2>2
      <3> QED
        BY <1>1, <2>2, <3>1 DEF History, Says
    <2>3. CASE r = "not_executed"
      <3>1. /\ history' = [history EXCEPT !.declined = @ \cup {x}]
            /\ r \notin {"success", "undelivered"}
        BY <2>1, <2>3
      <3> QED
        BY <1>1, <2>3, <3>1 DEF History, Says
    <2>4. CASE r \notin {"success", "undelivered", "not_executed"}
      <3>1. history' = history
        BY <2>1, <2>4
      <3> QED
        BY <1>1, <2>4, <3>1 DEF Says
    <2> QED
      BY <2>2, <2>3, <2>4
  <1>5. Inv(server, plugin', history') /\ Speaks(Returned(x, r), plugin')
    BY <1>1, <1>2, <1>3, <1>4, ReturnKeeps
  <1>6. /\ Inv(server', plugin', history') /\ server'.bridge = server.bridge
        /\ server'.conn.down = server.conn.down
    <2>1. LET t == Sent(server, Returned(x, r))
          IN  /\ Inv(t, plugin', history') /\ t.bridge = server.bridge
              /\ t.conn.down = server.conn.down
      BY <1>5, SentKeeps
    <2> QED
      BY <1>2, <1>5, <2>1
  <1>7. plugin'.work = plugin.work \ {x}
    BY <1>1, <1>2, <1>3, RetainSays
  <1>8. ASSUME NEW y \in Ids
        PROVE  Contract!Legal(Entry(y), Entry(y)')
    <2> DEFINE o == server.bridge.op[y]
               l == Lost(attached, server.conn, y)
    <2>1. o \in Operation /\ l \in BOOLEAN
      BY <1>1, Operations, LostType
    <2>2. /\ Entry(y) = Account(o, y, l, plugin, history)
          /\ Entry(y)' = Account(o, y, l, plugin', history')
      <3>1. Lost(attached', server'.conn, y) = l
        BY <1>2, <1>6 DEF Lost, Past
      <3> QED
        BY <1>6, <3>1, EntryIs
    <2> HIDE DEF o, l
    <2>3. CASE y = x
      <3>1. Contract!Legal(Account(o, y, l, plugin, history), Account(o, y, l, plugin', history'))
        BY <1>2, <1>4, <1>7, <2>1, <2>3, FinishedLegal
      <3> QED
        BY <2>2, <3>1
    <2>4. CASE y # x
      <3>1. Account(o, y, l, plugin', history') = Account(o, y, l, plugin', history)
        <4>1. /\ (y \in history'.entered) = (y \in history.entered)
              /\ (y \in history'.ran) = (y \in history.ran)
              /\ (y \in history'.declined) = (y \in history.declined)
          BY <1>4, <2>4 DEF Says
        <4> QED
          BY <4>1, Zenon DEF Account
      <3>2. Contract!Legal(Account(o, y, l, plugin, history), Account(o, y, l, plugin', history))
        <4>1. y \in plugin'.work <=> y \in plugin.work
          BY <1>7, <2>4
        <4> QED
          BY <2>1, <4>1, LetGoLegal
      <3> QED
        BY <2>2, <3>1, <3>2
    <2> QED
      BY <2>3, <2>4
  <1>9. IInv'
    BY <1>6 DEF IInv
  <1> QED
    BY <1>7, <1>8, <1>9 DEF Advances

\* Of the requests that are left, those of operations that are gone were there before;
\* and if the one just read is of an operation that is not, no other of its id was.
LEMMA ReadPast ==
  ASSUME NEW c \in Connection, c.down # <<>>, NEW h, DownFits(c, h),
         NEW d, d.down = Tail(c.down)
  PROVE  /\ \A x : Past(d, x) => Past(c, x)
         /\ Head(c.down).kind = "request" /\ ~Head(c.down).past => ~Past(c, Head(c.down).id)
         /\ Head(c.down).kind = "request" /\ Head(c.down).past => Past(c, Head(c.down).id)
  <1>1. c.down \in Seq(DownFrame)
    BY DEF Connection
  <1>2. Frames(c.down) = {Head(c.down)} \cup Frames(d.down)
    BY <1>1, TailFrames
  <1>3. ASSUME Head(c.down).kind = "request", ~Head(c.down).past, Past(c, Head(c.down).id)
        PROVE  FALSE
    <2>1. PICK i \in DOMAIN c.down : IsRequest(c.down[i], Head(c.down).id) /\ c.down[i].past
      BY <1>3 DEF Past, Frames
    <2>2. 1 \in DOMAIN c.down /\ Head(c.down) = c.down[1] /\ DOMAIN c.down = 1 .. Len(c.down)
          /\ Len(c.down) \in Nat
      BY <1>1, TailFrames
    <2>3. i # 1
      BY <1>3, <2>1, <2>2
    <2>4. 1 < i
      BY <2>2, <2>3
    <2> QED
      BY <1>3, <2>1, <2>2, <2>4 DEF DownFits, IsRequest
  <1> QED
    BY <1>2, <1>3 DEF Past, IsRequest


LEMMA ReceiveStep ==
  ASSUME IInv, PluginReceives
  PROVE  Advances
  <1> DEFINE f == Head(server.conn.down)
             x == f.id
             read == [server EXCEPT !.conn.down = Tail(@)]
  <1>1. /\ Inv(server, plugin, history) /\ plugin \in Plugin /\ history \in History
        /\ server.conn \in Connection /\ DownFits(server.conn, history)
    BY Parts DEF IInv, Fits, ConnFits
  <1>2. server.conn.down # <<>> /\ attached
    BY DEF PluginReceives, CanRead, Conn
  <1>3. /\ Inv(read, plugin, history) /\ read.bridge = server.bridge
        /\ read.conn.down = Tail(server.conn.down)
    BY <1>1, <1>2, PlainReadKeeps
  <1>4. \A c : c.down = Tail(server.conn.down) => \A y : Past(c, y) => Past(server.conn, y)
    BY <1>1, <1>2, ReadPast
  <1>5. \/ /\ server' = read /\ UNCHANGED <<plugin, attached, history>>
        \/ /\ server' = read
           /\ plugin' = IF x \in Kept(plugin) THEN ReleaseResponse(plugin, x) ELSE plugin
           /\ UNCHANGED <<attached, history>>
        \/ /\ f.kind = "request" /\ ~Known(plugin, x) /\ ~Full(plugin)
           /\ StartsWork(f, read)
           /\ UNCHANGED attached
        \/ /\ f.kind = "request" /\ ~Known(plugin, x) /\ ~ReserveSpent(plugin)
           /\ plugin' = Reject(plugin, x)
           /\ server' = Sent(read, Returned(x, "not_executed"))
           /\ UNCHANGED <<attached, history>>
        \/ Leaves /\ UNCHANGED history
    BY DEF PluginReceives, Conn
  <1>6. CASE server' = read /\ UNCHANGED <<plugin, attached, history>>
    <2>1. \A y \in Ids : Lost(attached', server'.conn, y) => Lost(attached, server.conn, y)
      BY <1>3, <1>4, <1>6 DEF Lost
    <2> HIDE DEF read
    <2> QED
      BY <1>3, <1>6, <2>1, QuietStep
  <1>7. CASE /\ server' = read
             /\ plugin' = IF x \in Kept(plugin) THEN ReleaseResponse(plugin, x) ELSE plugin
             /\ UNCHANGED <<attached, history>>
    <2>1. \A y \in Ids : Lost(attached', server'.conn, y) => Lost(attached, server.conn, y)
      BY <1>3, <1>4, <1>7 DEF Lost
    <2>2. Inv(server', plugin', history) /\ plugin'.work = plugin.work
      <3>1. CASE x \in Kept(plugin)
        BY <1>1, <1>2, <1>7, <3>1, AckReadKeeps, ReleaseSays
      <3>2. CASE x \notin Kept(plugin)
        BY <1>3, <1>7, <3>2
      <3> QED
        BY <3>1, <3>2
    <2> HIDE DEF read
    <2> QED
      BY <1>3, <1>7, <2>1, <2>2, QuietStep
  <1>8. ASSUME f.kind = "request", ~Known(plugin, x)
        PROVE  Asks(server, plugin, x) /\ x \in Ids /\ x \notin plugin.work
               /\ x \notin history.entered
    <2>1. x \in Ids /\ x \notin history.entered
      BY <1>1, <1>2, <1>8, NewRequest
    <2> QED
      BY <1>2, <1>8, <2>1 DEF Asks, Known, Remembered
  <1>9. ASSUME f.kind = "request", ~Known(plugin, x),
               \/ ~Full(plugin) /\ plugin' = Retain(plugin, x, "not_executed")
               \/ ~ReserveSpent(plugin) /\ plugin' = Reject(plugin, x),
               server' = Sent(read, Returned(x, "not_executed")), UNCHANGED <<attached, history>>
        PROVE  Advances
    <2>1. Asks(server, plugin, x) /\ x \in Ids /\ x \notin plugin.work
      BY <1>8, <1>9
    <2> HIDE DEF x
    <2>2. /\ Inv(server', plugin', history) /\ server'.bridge = server.bridge
          /\ server'.conn.down = Tail(server.conn.down)
      BY <1>1, <1>9, <2>1, DeclineKeeps, RejectKeeps
    <2>3. plugin'.work = plugin.work
      <3>1. "not_executed" \in Responses
        BY DEF Responses
      <3>2. plugin'.work = plugin.work \ {x}
        BY <1>1, <1>9, <2>1, <3>1, RetainSays, RejectSays
      <3> QED
        BY <2>1, <3>2
    <2>4. \A y \in Ids : Lost(attached', server'.conn, y) => Lost(attached, server.conn, y)
      BY <1>4, <1>9, <2>2 DEF Lost
    <2> QED
      BY <1>9, <2>2, <2>3, <2>4, QuietStep
  <1>10. ASSUME f.kind = "request", ~Known(plugin, x), ~Full(plugin),
                plugin' = Enter(plugin, x), server' = Sent(read, Executing(x)),
                history' = [history EXCEPT !.entered = IF f.past THEN @ ELSE @ \cup {x}],
                UNCHANGED attached
         PROVE  Advances
    <2>1. x \in Ids /\ x \notin plugin.work /\ x \notin history.entered
      BY <1>8, <1>10
    <2>2. /\ history' \in History /\ history'.ran = history.ran
          /\ history'.declined = history.declined
          /\ history'.entered = IF f.past THEN history.entered ELSE history.entered \cup {x}
      BY <1>1, <1>10, <2>1 DEF History
    <2>3. /\ Inv(server', plugin', history') /\ server'.bridge = server.bridge
          /\ server'.conn.down = Tail(server.conn.down)
      <3>1. Asks(server, plugin, x)
        BY <1>8, <1>10
      <3>2. Begins(history, history', Head(server.conn.down))
        BY <2>2 DEF Begins
      <3> HIDE DEF x
      <3>3. LET t == Sent(read, Executing(x))
            IN  /\ Inv(t, Enter(plugin, x), history') /\ t.bridge = server.bridge
                /\ t.conn.down = Tail(server.conn.down)
        BY <1>1, <1>10, <2>2, <3>1, <3>2, EnterKeeps
      <3> QED
        BY <1>10, <3>3
    <2>4. plugin'.work = plugin.work \cup {x}
      BY <1>1, <1>10, <2>1, EnterSays, Zenon
    <2>5. /\ ~f.past => ~Past(server.conn, x)
          /\ f.past => Past(server.conn, x)
          /\ \A y : Past(server'.conn, y) => Past(server.conn, y)
      BY <1>1, <1>2, <1>10, <2>3, ReadPast, Zenon
    <2>6. ~f.past => server.bridge.op[x].exec = "unknown"
      <3>1. ~f.past /\ server.bridge.op[x].state # "none" => server.bridge.op[x].exec = "unknown"
        BY <1>1, <1>2, <1>10, NewRequest, ZenonT(60)
      <3>2. server.bridge.op[x].state = "none" => server.bridge.op[x].exec = "unknown"
        BY <1>1, <2>1 DEF Inv, Fits, RecordFits, StagesFit, Blank
      <3> QED
        BY <3>1, <3>2, ZenonT(60)
    <2>7. ASSUME NEW y \in Ids
          PROVE  Contract!Legal(Entry(y), Entry(y)')
      <3> DEFINE o == server.bridge.op[y]
                 l == Lost(attached, server.conn, y)
                 m == Lost(attached', server'.conn, y)
      <3>1. o \in Operation /\ l \in BOOLEAN /\ m \in BOOLEAN /\ (m => l)
        BY <1>1, <1>10, <2>5, Operations, LostType DEF Lost
      <3>2. /\ Entry(y) = Account(o, y, l, plugin, history)
            /\ Entry(y)' = Account(o, y, m, plugin', history')
        BY <2>3, EntryIs
      <3>3. CASE y = x
        <4>1. f.past => l /\ history'.entered = history.entered
          BY <1>2, <2>2, <2>5, <3>3 DEF Lost
        <4>2. ~f.past => /\ ~l /\ ~m /\ y \notin history.entered /\ y \in history'.entered
                         /\ o.exec # "not_executed"
          BY <2>1, <2>2, <2>5, <2>6, <3>3 DEF Lost
        <4>3. /\ y \notin plugin.work /\ y \in plugin'.work
              /\ history'.ran = history.ran /\ history'.declined = history.declined
          BY <2>1, <2>2, <2>4, <3>3
        <4> HIDE DEF o, l, m
        <4>4. Contract!Legal(Account(o, y, l, plugin, history), Account(o, y, m, plugin', history'))
          BY <3>1, <4>1, <4>2, <4>3, EnteredLegal
        <4> QED
          BY <3>2, <4>4
      <3>4. CASE y # x
        <4> HIDE DEF o, l, m
        <4>1. Account(o, y, m, plugin', history') = Account(o, y, m, plugin', history)
          <5>1. (y \in history'.entered) = (y \in history.entered)
            BY <2>2, <3>4
          <5> QED
            BY <2>2, <5>1, Zenon DEF Account
        <4>2. Contract!Legal(Account(o, y, l, plugin, history), Account(o, y, m, plugin', history))
          <5>1. y \in plugin'.work <=> y \in plugin.work
            BY <2>4, <3>4
          <5> QED
            BY <3>1, <5>1, LetGoLegal
        <4> QED
          BY <3>2, <4>1, <4>2
      <3> QED
        BY <3>3, <3>4
    <2>8. IInv'
      BY <2>3 DEF IInv
    <2> QED
      BY <2>1, <2>4, <2>7, <2>8 DEF Advances
  <1>11. CASE /\ f.kind = "request" /\ ~Known(plugin, x) /\ ~Full(plugin)
              /\ StartsWork(f, read)
              /\ UNCHANGED attached
    <2>1. \/ /\ plugin' = Enter(plugin, x) /\ server' = Sent(read, Executing(x))
             /\ history' = [history EXCEPT !.entered = IF f.past THEN @ ELSE @ \cup {x}]
          \/ /\ plugin' = Retain(plugin, x, "not_executed")
             /\ server' = Sent(read, Returned(x, "not_executed"))
             /\ UNCHANGED history
      BY <1>11, Zenon DEF StartsWork
    <2> QED
      BY <1>9, <1>10, <1>11, <2>1
  <1> QED
    BY <1>5, <1>6, <1>7, <1>9, <1>11, LeavesStep


\* A server that restarts forgets every operation; what it had written may still be read.
LEMMA RestartStep ==
  ASSUME IInv, ServerRestarts
  PROVE  /\ IInv' /\ UNCHANGED <<plugin, history>>
         /\ \A x \in Ids : \E lost \in {Entry(x).lost, TRUE} :
              Entry(x)' = [Entry(x) EXCEPT !.status = "none", !.told = "unknown", !.lost = lost]
  <1>1. Inv(server, plugin, history)
    BY DEF IInv
  <1>2. /\ server' = [InitialServer EXCEPT !.conn.down = Outdated(server.conn.down, Ids)]
        /\ UNCHANGED <<plugin, attached, history>>
    BY DEF ServerRestarts, Conn
  <1>3. /\ Inv(server', plugin, history)
        /\ \A x \in Ids : server'.bridge.op[x] = NoRecord
        /\ \A x \in Ids : Past(server.conn, x) => Past(server'.conn, x)
    BY <1>1, <1>2, RestartKeeps
  <1>4. IInv'
    BY <1>2, <1>3 DEF IInv
  <1>5. ASSUME NEW x \in Ids
        PROVE  \E lost \in {Entry(x).lost, TRUE} :
                 Entry(x)' = [Entry(x) EXCEPT !.status = "none", !.told = "unknown", !.lost = lost]
    <2> DEFINE o == server.bridge.op[x]
               l == Lost(attached, server.conn, x)
               m == Lost(attached', server'.conn, x)
    <2>1. o \in Operation /\ l \in BOOLEAN /\ m \in BOOLEAN /\ (l => m)
      BY <1>1, <1>2, <1>3, Operations, LostType DEF Lost
    <2>2. /\ Entry(x) = Account(o, x, l, plugin, history)
          /\ Entry(x)' = Account(NoRecord, x, m, plugin, history)
      BY <1>2, <1>3, EntryIs
    <2> HIDE DEF o, l, m
    <2>3. m = l \/ m = TRUE
      BY <2>1
    <2>4. RestartsTo(Account(o, x, l, plugin, history),
                     Account(NoRecord, x, m, plugin, history))
      BY <2>1, <2>3, RestartedAccount
    <2>5. RestartsTo(Entry(x), Entry(x)')
      BY <2>2, <2>4
    <2> QED
      BY <2>5, Zenon DEF RestartsTo
  <1> QED
    BY <1>2, <1>4, <1>5, Zenon

LEMMA NextStep ==
  ASSUME IInv, Next
  PROVE  Advances \/ ServerRestarts
  <1>1. ASSUME \E x \in Ids, p \in Peers : SubmitRequest(x, p)
        PROVE  Advances
    BY <1>1, SubmitStep
  <1>2. ASSUME \E x \in Ids, r \in Reports : HandlerReturns(x, r)
        PROVE  Advances
    BY <1>2, ReturnStep
  <1>3. ASSUME PluginDrops
        PROVE  Advances
    BY <1>3, LeavesStep DEF PluginDrops
  <1>4. ASSUME PluginSeesClose
        PROVE  Advances
    BY <1>4, LeavesStep DEF PluginSeesClose
  <1>5. Peers \ Transports \subseteq Peers
    OBVIOUS
  <1> QED
    BY <1>1, <1>2, <1>3, <1>4, <1>5, ServerSteps, ReceiveStep, RetryStep, RegisterStep,
       UpgradeStep, OpenedStep, TimeStep DEF Next

LEMMA InitFits == Init => IInv
  <1> SUFFICES ASSUME Init
               PROVE  Inv(server, plugin, history)
    BY DEF IInv
  <1> DEFINE b == InitialBridge
             c == NoConnection
             p == InitialPlugin
             h == [entered |-> {}, ran |-> {}, declined |-> {}]
  <1>1. server = [bridge |-> b, conn |-> c] /\ plugin = p /\ history = h
    BY DEF Init, InitialServer
  <1>2. /\ Sound(b) /\ b.pending = {} /\ \A x \in Ids : b.op[x] = NoRecord
    BY InitialSound DEF InitialBridge
  <1>3. Few(b)
    BY <1>2, FS_EmptySet, LimitsAssumption DEF Few
  <1>4. /\ c \in Connection /\ Frames(c.down) = {} /\ Frames(c.up) = {} /\ Frames(c.acks) = {}
        /\ DOMAIN c.down = {} /\ DOMAIN c.acks = {} /\ Len(c.acks) = 0
    BY EmptyFrames DEF NoConnection, Connection
  <1>5. p \in Plugin /\ Kept(p) = {} /\ p.work = {} /\ p.done = {} /\ p.rejected = {}
    BY LimitsAssumption DEF InitialPlugin, Plugin, Kept
  <1>6. h \in History
    BY DEF History
  <1> HIDE DEF b, c, p, h
  <1>7. PluginFits(p, h)
    <2>1. Remembered(p) = {}
      BY <1>5 DEF Remembered
    <2> QED
      BY <1>5, <2>1, FS_EmptySet, PluginAssumption DEF PluginFits
  <1>8. ConnFits(c, p, h)
    BY <1>4, AcksAssumption DEF ConnFits, DownFits, UpFits, AcksBounded
  <1>9. ASSUME NEW x \in Ids
        PROVE  RecordFits(b.op[x], x, c, p, h)
    <2>1. b.op[x].state = "none" /\ Blank(b.op[x])
      BY <1>2 DEF NoRecord, Blank
    <2> HIDE DEF b
    <2> QED
      BY <1>4, <2>1 DEF RecordFits, StagesFit, RequestsFit, AnswersFit, AcksFit, Blank
  <1>10. Fits(b, c, p, h)
    BY <1>2, <1>3, <1>4, <1>5, <1>6, <1>7, <1>8, <1>9 DEF Fits, Types
  <1>11. server \in Server
    BY <1>1, <1>2, <1>4 DEF Server, Sound
  <1> QED
    BY <1>1, <1>10, <1>11 DEF Inv

LEMMA StepKeeps == IInv /\ [Next]_vars => IInv'
  <1>1. IInv /\ Next => IInv'
    BY NextStep, RestartStep DEF Advances
  <1>2. IInv /\ UNCHANGED vars => IInv'
    BY DEF IInv, vars
  <1> QED
    BY <1>1, <1>2, ZenonT(60)

-----------------------------------------------------------------------------
(***************************************************************************)
(* The theorems.                                                           *)
(***************************************************************************)

\* The ledger, the connection and the plugin stay within their types and fit each
\* other, in every behaviour (bridge-service.ts, studio-transport.ts and
\* StudioWebSocket.ts together).
THEOREM DeliveryInvariant == Spec => []IInv
  BY InitFits, StepKeeps, PTL DEF Spec

\* The plugin has room to remember every request it ever takes on
\* (dispatchRequest's reserve for rejections, rememberTerminalResponse).
THEOREM TombstonesAreReserved == Spec => []TombstonesReserved
  <1>1. IInv => TombstonesReserved
    BY DEF IInv, Inv, Fits, PluginFits, TombstonesReserved
  <1> QED
    BY <1>1, DeliveryInvariant, PTL

\* Whatever breaks, is repeated or restarts, the ledger says of an execution only
\* what happened (executionOutcome, recordResponse, endRequestWaiter).
THEOREM OutcomesAreTrue == Spec => []OutcomeIsTrue
  <1>1. IInv => OutcomeIsTrue
    BY DEF IInv, Inv, Fits, RecordFits, StagesFit, Holds, OutcomeIsTrue, Recorded
  <1> QED
    BY <1>1, DeliveryInvariant, PTL

\* The plugin is told to let a response go only when the ledger has recorded it, and
\* no more acknowledgements wait than may (receive, MAX_PENDING_ACKS).
THEOREM AcknowledgementsAreRecorded == Spec => []AcknowledgedIsRecorded
  <1>1. ASSUME IInv
        PROVE  AcknowledgedIsRecorded
    <2>1. Fits(server.bridge, server.conn, plugin, history) /\ server.conn \in Connection
      BY <1>1, Parts DEF IInv
    <2>2. ASSUME NEW f \in Frames(server.conn.acks) \cup Frames(server.conn.down),
                 f.kind = "ack", f.disposition # "unknown", ~f.past
          PROVE  server.bridge.op[f.id].state \in {"settled", "none"}
      <3>1. f \in Ack \cup DownFrame
        BY <2>1, FramesType DEF Connection
      <3>2. f.id \in Ids
        BY <2>2, <3>1 DEF Ack, DownFrame
      <3> QED
        BY <2>1, <2>2, <3>2 DEF Fits, RecordFits, AcksFit, SaysRecorded
    <2> QED
      BY <2>1, <2>2 DEF AcknowledgedIsRecorded, Fits, ConnFits, AcksBounded, Conn
  <1> QED
    BY <1>1, DeliveryInvariant, PTL

\* However often the connection breaks and whatever the server writes again, no
\* handler is entered twice for an admitted operation (dispatchRequest,
\* releaseDeliveryClaims).
THEOREM HandlersAreEnteredOnce == Spec => EnteredAtMostOnce
  <1>1. IInv /\ [Next]_vars => [\A x \in plugin'.work \ plugin.work : x \notin history.entered]_vars
    BY NextStep, RestartStep DEF Advances
  <1> QED
    BY <1>1, DeliveryInvariant, PTL DEF Spec, EnteredAtMostOnce

\* Server, connection and plugin together implement the contract with the caller:
\* the first state stands for its first state, and every step for one of its steps.
THEOREM DeliveryImplementsContract == Spec => ImplementsContract
  <1> DEFINE ledger == [x \in Ids |-> Entry(x)]
  <1>1. Init => Contract!Init
    <2> SUFFICES ASSUME Init
                 PROVE  ledger = [x \in Ids |-> Contract!Unheard]
      BY DEF Contract!Init
    <2>1. ASSUME NEW x \in Ids
          PROVE  Entry(x) = Contract!Unheard
      <3> DEFINE e == Account(NoRecord, x, FALSE, plugin, history)
      <3>1. /\ server.bridge.op[x] = NoRecord /\ attached = FALSE
            /\ x \notin plugin.work /\ x \notin history.entered
            /\ x \notin history.ran /\ x \notin history.declined
        BY DEF Init, InitialServer, InitialPlugin, InitialBridge
      <3>2. Lost(attached, server.conn, x) = FALSE
        BY <3>1 DEF Lost
      <3>3. Entry(x) = e
        BY <3>1, <3>2, EntryIs
      <3>5. /\ (x \in history.entered) = FALSE /\ (x \in plugin.work) = FALSE
            /\ (x \in history.ran) = FALSE /\ (x \in history.declined) = FALSE
        BY <3>1
      <3>6. StatusOf(NoRecord) = "none" /\ NoRecord.exec = "unknown"
        BY NoRecordSays
      <3> HIDE DEF e
      <3>7. e = [status |-> "none", told |-> "unknown", entered |-> FALSE, running |-> FALSE,
                 ran |-> FALSE, declined |-> FALSE, lost |-> FALSE]
        BY <3>5, <3>6, Zenon DEF e, Account
      <3> QED
        BY <3>3, <3>7 DEF Contract!Unheard
    <2> QED
      BY <2>1
  <1>2. ASSUME IInv
        PROVE  \A x \in Ids : Entry(x) \in Contract!Entry
    BY <1>2, EntryIs, AccountType, Operations, LostType DEF IInv
  <1>3. ASSUME IInv, IInv', Advances \/ ServerRestarts
        PROVE  Contract!Next
    <2>1. ledger' \in [Ids -> Contract!Entry]
      <3>1. ASSUME NEW x \in Ids
            PROVE  Entry(x)' \in Contract!Entry
        <4>1. server'.bridge.op[x] \in Operation
          BY <1>3, Operations DEF IInv
        <4> QED
          BY <4>1, EntryIs, AccountType, LostType
      <3>2. ledger' = [x \in Ids |-> Entry(x)']
        OBVIOUS
      <3> QED
        BY <3>1, <3>2
    <2>2. \A x \in Ids : ledger[x] = Entry(x) /\ ledger'[x] = Entry(x)'
      OBVIOUS
    <2>3. CASE Advances
      <3>1. Contract!Step
        BY <2>2, <2>3 DEF Advances, Contract!Step
      <3> QED
        BY <2>1, <3>1 DEF Contract!Next
    <2>4. CASE ServerRestarts
      <3>1. Contract!Restart
        BY <1>3, <2>2, <2>4, RestartStep DEF Contract!Restart
      <3> QED
        BY <2>1, <3>1, ZenonT(60) DEF Contract!Next
    <2> QED
      BY <1>3, <2>3, <2>4
  <1>4. ASSUME UNCHANGED vars
        PROVE  UNCHANGED ledger
    <2>1. \A x \in Ids : Entry(x)' = Entry(x)
      BY <1>4, EntryIs DEF vars
    <2> QED
      BY <2>1
  <1>5. IInv /\ [Next]_vars => [Contract!Next]_ledger
    BY <1>3, <1>4, NextStep, StepKeeps
  <1> QED
    BY <1>1, <1>5, DeliveryInvariant, PTL DEF Spec, ImplementsContract, Contract!Spec

-----------------------------------------------------------------------------
(***************************************************************************)
(* The pump.  A connection is Ready when the cancellations on it are of    *)
(* operations that ended lately, and Awake when it also has nothing left   *)
(* to say while it is idle.                                                *)
(***************************************************************************)
CancelsSent(b, c) ==
  c.open => \A f \in Frames(c.down) : f.kind = "cancel" => f.id \in Fresh(b)

NothingToCancel(b) ==
  \A x \in Ids : b.cancel[x].via = Transport /\ b.cancel[x].owner = None
                   => b.cancel[x].age >= CancelTTL

NothingToAsk(b) ==
  Cardinality(Outstanding(b, Transport)) >= MaxOutstanding \/ Claimable(b, Transport) = {}

Quiet(b, c) ==
  c.open /\ ~c.sending => c.acks = <<>> /\ NothingToCancel(b) /\ NothingToAsk(b)

Ready(b, c) == Timely(b) /\ CancelsSent(b, c)

Awake(b, c) == Ready(b, c) /\ Quiet(b, c)

WakeInv == Awake(server.bridge, server.conn)

\* A frame that is written keeps the connection busy.
LEMMA WriteWakes ==
  ASSUME NEW b, NEW c \in Connection, CancelsSent(b, c),
         NEW d, Timely(d), Fresh(b) \subseteq Fresh(d),
         NEW e \in DownFrame, e.kind = "cancel" => e.id \in Fresh(d),
         NEW k, k.down = Append(c.down, e), k.open = c.open, k.sending
  PROVE  Awake(d, k)
  <1>1. c.down \in Seq(DownFrame)
    BY DEF Connection
  <1>2. Frames(k.down) = Frames(c.down) \cup {e}
    BY <1>1, AppendFrames
  <1>3. CancelsSent(d, k)
    BY <1>2 DEF CancelsSent
  <1> QED
    BY <1>3 DEF Awake, Ready, Quiet

\* What is not aged and waits for the transport comes to its turn.
LEMMA CancelsWait ==
  ASSUME NEW b, Sound(b), Timely(b), NextCancel(b, Transport) = {}
  PROVE  NothingToCancel(b)
  <1> DEFINE D == {x \in Ids : b.cancel[x].via = Transport /\ b.cancel[x].owner = None}
  <1>1. D \in SUBSET Cancelled(b) /\ IsFiniteSet(D)
    BY IdsAssumption, FS_Subset, NoneAssumption, TransportAssumption DEF Cancelled
  <1>2. First(D, b.earlier) = {}
    BY DEF NextCancel
  <1>3. D = {}
    <2> HIDE DEF D
    <2> QED
      BY <1>1, <1>2, FirstExists DEF Timely, Lined
  <1> QED
    BY <1>3 DEF NothingToCancel

LEMMA RequestsWait ==
  ASSUME NEW b, Sound(b), Timely(b), NextRequest(b, Transport) = {}
  PROVE  NothingToAsk(b)
  <1> DEFINE D == Claimable(b, Transport)
  <1>1. D \in SUBSET Recorded(b) /\ IsFiniteSet(D)
    <2>1. D \subseteq b.pending
      BY DEF Claimable
    <2>2. b.pending \subseteq Recorded(b) /\ b.pending \subseteq Ids
      BY DEF Sound, Agree, Bridge, Recorded
    <2> HIDE DEF D
    <2> QED
      BY <2>1, <2>2, IdsAssumption, FS_Subset
  <1>2. Cardinality(Outstanding(b, Transport)) >= MaxOutstanding \/ First(D, b.older) = {}
    BY DEF NextRequest
  <1>3. First(D, b.older) = {} => D = {}
    <2> HIDE DEF D
    <2> QED
      BY <1>1, FirstExists DEF Timely, Lined
  <1> QED
    BY <1>2, <1>3 DEF NothingToAsk

LEMMA PumpWakes ==
  ASSUME NEW s \in Server, Sound(s.bridge), Ready(s.bridge, s.conn), CancelTTL <= Retention
  PROVE  Awake(Pump(s).bridge, Pump(s).conn)
  <1> DEFINE a == s.bridge
             b == PruneCancels(s.bridge)
             c == s.conn
             cancels == NextCancel(b, Transport)
             requests == NextRequest(b, Transport)
  <1>1. Timely(a) /\ CancelsSent(a, c) /\ c \in Connection
    BY DEF Ready, Server
  <1>2. Sound(b) /\ SameRecords(a, b) /\ Fresh(b) = Fresh(a)
    BY PruneCancelsSound DEF SameRecords, Fresh, Unpended, Recorded
  <1>3. /\ Timely(b)
        /\ \A x \in Cancelled(b) : x \in Ids /\ x \in Fresh(b)
    <2>1. Cardinality(Cancelled(a)) \in Nat
      BY IdsAssumption, FS_Subset, FS_CardinalityType DEF Cancelled
    <2>2. /\ Timely(b) /\ Cancelled(b) \subseteq Cancelled(a)
          /\ \A x \in Cancelled(b) : b.cancel[x] = a.cancel[x] /\ ~(a.cancel[x].age >= CancelTTL)
      <3>1. Lined(a) /\ CancelsFit(a) /\ Cardinality(Cancelled(a)) <= MaxTombstones + 1
        BY <1>1, <2>1, LimitsAssumption DEF Timely
      <3> QED
        BY <3>1, PruneCancelsTimely
    <2>3. ASSUME NEW x \in Cancelled(b)
          PROVE  x \in Ids /\ x \in Fresh(b)
      <3>1. x \in Ids
        BY DEF Cancelled
      <3>2. ~(b.cancel[x].age >= CancelTTL)
        BY <2>2
      <3>3. x \in Unpended(b) /\ b.cancel[x].age >= b.op[x].age
        BY <2>2, <3>2 DEF Timely, CancelsFit
      <3>4. b.cancel[x].age \in Nat /\ b.op[x].age \in Nat
        BY <1>2, <3>1, Ages
      <3>5. b.op[x].age < Retention
        BY <3>2, <3>3, <3>4, LimitsAssumption
      <3> QED
        BY <3>1, <3>3, <3>5 DEF Fresh
    <2> QED
      BY <2>2, <2>3
  <1>4. CASE ~c.open \/ c.sending
    <2>1. Pump(s) = s
      BY <1>4 DEF Pump
    <2> QED
      BY <1>4, <2>1 DEF Awake, Quiet
  <1> DEFINE idle == c.open /\ ~c.sending
  <1>5. CASE idle /\ c.acks # <<>>
    <2> DEFINE e == Head(c.acks)
               k == [Write(c, e) EXCEPT !.acks = Tail(c.acks)]
    <2>1. e \in DownFrame /\ e.kind = "ack"
      <3>1. c.acks \in Seq(Ack)
        BY <1>1 DEF Connection
      <3>2. e \in Ack
        BY <1>5, <3>1, TailFrames
      <3> QED
        BY <3>2 DEF Ack, DownFrame
    <2>2. k.down = Append(c.down, e) /\ k.open = c.open /\ k.sending
      BY <1>1 DEF Write, Connection
    <2>3. Pump(s) = [s EXCEPT !.conn = k]
      BY <1>5 DEF Pump
    <2>4. Pump(s) = [bridge |-> a, conn |-> k]
      BY <2>3 DEF Server
    <2> HIDE DEF e, k
    <2>5. Awake(a, k)
      BY <1>1, <2>1, <2>2, WriteWakes
    <2> QED
      BY <2>4, <2>5
  <1>6. CASE idle /\ c.acks = <<>> /\ cancels # {}
    <2> DEFINE x == CHOOSE x \in cancels : TRUE
               d == ClaimCancel(b, x, Owner)
               e == [kind |-> "cancel", id |-> x]
               k == Write(c, e)
    <2>1. x \in Cancelled(b)
      BY <1>6, NoneAssumption, TransportAssumption DEF NextCancel, First, Cancelled
    <2>2. x \in Ids /\ x \in Fresh(b)
      BY <1>3, <2>1
    <2> HIDE DEF x
    <2>3. Timely(d) /\ Fresh(d) = Fresh(b)
      BY <1>2, <1>3, <2>2, ClaimCancelTimely, TransportAssumption
    <2>4. e \in DownFrame /\ e.id = x
      BY <2>2 DEF DownFrame
    <2>5. k.down = Append(c.down, e) /\ k.open = c.open /\ k.sending
      BY <1>1 DEF Write, Connection
    <2>6. Pump(s) = [bridge |-> d, conn |-> k]
      BY <1>6 DEF Pump, x
    <2> HIDE DEF e, d, k
    <2>7. Awake(d, k)
      BY <1>1, <1>2, <2>2, <2>3, <2>4, <2>5, WriteWakes, ZenonT(60)
    <2> QED
      BY <2>6, <2>7, SMTT(30)
  <1>7. CASE idle /\ c.acks = <<>> /\ cancels = {} /\ requests # {}
    <2> DEFINE x == CHOOSE x \in requests : TRUE
               d == Claim(b, x, Transport, Owner)
               e == [kind |-> "request", id |-> x, past |-> FALSE]
               k == Write(c, e)
    <2>1. x \in b.pending
      BY <1>7 DEF NextRequest, First, Claimable
    <2>2. x \in Ids /\ x \notin Cancelled(b)
      BY <1>2, <1>3, <2>1 DEF Sound, Bridge, Fresh, Unpended
    <2> HIDE DEF x
    <2>3. Timely(d) /\ Fresh(d) = Fresh(b)
      BY <1>2, <1>3, <2>1, <2>2, ClaimTimely, TransportAssumption
    <2>4. e \in DownFrame /\ e.kind = "request"
      BY <2>2 DEF DownFrame
    <2>5. k.down = Append(c.down, e) /\ k.open = c.open /\ k.sending
      BY <1>1 DEF Write, Connection
    <2>6. Pump(s) = [bridge |-> d, conn |-> k]
      BY <1>7 DEF Pump, x
    <2> HIDE DEF e, d, k
    <2>7. Awake(d, k)
      BY <1>1, <1>2, <2>3, <2>4, <2>5, WriteWakes
    <2> QED
      BY <2>6, <2>7
  <1>8. CASE idle /\ c.acks = <<>> /\ cancels = {} /\ requests = {} /\ c.beat
    <2> DEFINE e == [kind |-> "heartbeat"]
               k == [Write(c, e) EXCEPT !.beat = FALSE]
    <2>1. e \in DownFrame /\ e.kind = "heartbeat"
      BY DEF DownFrame
    <2>2. k.down = Append(c.down, e) /\ k.open = c.open /\ k.sending
      BY <1>1 DEF Write, Connection
    <2>3. Pump(s) = [bridge |-> b, conn |-> k]
      BY <1>8 DEF Pump
    <2> HIDE DEF e, k
    <2>4. Awake(b, k)
      BY <1>1, <1>2, <1>3, <2>1, <2>2, WriteWakes
    <2> QED
      BY <2>3, <2>4
  <1>9. CASE idle /\ c.acks = <<>> /\ cancels = {} /\ requests = {} /\ ~c.beat
    <2>1. Pump(s) = [s EXCEPT !.bridge = b]
      BY <1>9 DEF Pump
    <2>2. Pump(s).bridge = b /\ Pump(s).conn = c
      BY <2>1 DEF Server
    <2>3. NothingToCancel(b) /\ NothingToAsk(b)
      BY <1>2, <1>3, <1>9, CancelsWait, RequestsWait
    <2>4. CancelsSent(b, c)
      BY <1>1, <1>2 DEF CancelsSent
    <2> QED
      BY <1>3, <1>9, <2>2, <2>3, <2>4 DEF Awake, Ready, Quiet
  <1> QED
    BY <1>4, <1>5, <1>6, <1>7, <1>8, <1>9

-----------------------------------------------------------------------------
(***************************************************************************)
(* The steps of the server.                                                *)
(***************************************************************************)

\* There is nothing to say on a connection that is closed.
LEMMA ClosedAwake ==
  ASSUME NEW b, Timely(b), NEW c, ~c.open
  PROVE  Awake(b, c)
  BY DEF Awake, Ready, CancelsSent, Quiet

\* Nothing comes to be said, and no request that a transport holds stops to wait.
LEMMA RestsAwake ==
  ASSUME NEW b, NEW c, Sound(b), Timely(c), Rests(b, c), NEW k, Awake(b, k)
  PROVE  Awake(c, k)
  <1>1. CancelsSent(c, k)
    BY DEF Awake, Ready, CancelsSent, Rests
  <1>2. ASSUME k.open, ~k.sending
        PROVE  k.acks = <<>> /\ NothingToCancel(c) /\ NothingToAsk(c)
    <2>1. k.acks = <<>> /\ NothingToCancel(b) /\ NothingToAsk(b)
      BY <1>2 DEF Awake, Quiet
    <2>2. NothingToCancel(c)
      BY <2>1 DEF NothingToCancel, Rests
    <2>3. Outstanding(c, Transport) = Outstanding(b, Transport)
      BY NoneAssumption, TransportAssumption DEF Outstanding, Rests
    <2>4. Claimable(c, Transport) \subseteq Claimable(b, Transport)
      BY DEF Claimable, Rests
    <2> QED
      BY <2>1, <2>2, <2>3, <2>4 DEF NothingToAsk
  <1> QED
    BY <1>1, <1>2 DEF Awake, Ready, Quiet

\* The ends of the connection take frames from it, or put answers on it.
LEMMA LinkAwake ==
  ASSUME NEW b, NEW c, Awake(b, c),
         NEW d, d.open = c.open, d.sending = c.sending, d.acks = c.acks,
         Frames(d.down) \subseteq Frames(c.down)
  PROVE  Awake(b, d)
  BY DEF Awake, Ready, CancelsSent, Quiet

LEMMA FresherReady ==
  ASSUME NEW b, NEW c, Ready(b, c), NEW d, Timely(d), Fresh(b) \subseteq Fresh(d)
  PROVE  Ready(d, c)
  BY DEF Ready, CancelsSent

LEMMA BridgeOf == \A s \in Server : \A b : /\ [s EXCEPT !.bridge = b].bridge = b
                                           /\ [s EXCEPT !.bridge = b].conn = s.conn
                                           /\ b \in Bridge => [s EXCEPT !.bridge = b] \in Server
  BY DEF Server

\* The ledger changes, and the connection is pumped.
LEMMA ThenPumpWakes ==
  ASSUME NEW s \in Server, Ready(s.bridge, s.conn), CancelTTL <= Retention,
         NEW b, Sound(b), Timely(b), Fresh(s.bridge) \subseteq Fresh(b)
  PROVE  LET t == Pump([s EXCEPT !.bridge = b]) IN Awake(t.bridge, t.conn)
  <1> DEFINE t == [s EXCEPT !.bridge = b]
  <1>1. t \in Server /\ t.bridge = b /\ t.conn = s.conn
    BY BridgeOf DEF Sound
  <1>2. Ready(t.bridge, t.conn)
    BY <1>1, FresherReady
  <1> HIDE DEF t
  <1> QED
    BY <1>1, <1>2, PumpWakes DEF t

LEMMA WriteCompletesWakes ==
  ASSUME NEW s \in Server, Sound(s.bridge), Awake(s.bridge, s.conn), CancelTTL <= Retention
  PROVE  Awake(WriteCompletes(s).bridge, WriteCompletes(s).conn)
  <1> DEFINE t == [s EXCEPT !.conn.sending = FALSE]
  <1>1. /\ t \in Server /\ t.bridge = s.bridge
        /\ t.conn.open = s.conn.open /\ t.conn.down = s.conn.down
    BY DEF Server, Connection
  <1>2. Ready(t.bridge, t.conn)
    BY <1>1 DEF Awake, Ready, CancelsSent
  <1> HIDE DEF t
  <1> QED
    BY <1>1, <1>2, PumpWakes DEF WriteCompletes, t

LEMMA HeartbeatWakes ==
  ASSUME NEW s \in Server, Sound(s.bridge), Awake(s.bridge, s.conn), CancelTTL <= Retention
  PROVE  Awake(Heartbeat(s).bridge, Heartbeat(s).conn)
  <1> DEFINE t == [s EXCEPT !.conn.beat = TRUE]
  <1>1. /\ t \in Server /\ t.bridge = s.bridge
        /\ t.conn.open = s.conn.open /\ t.conn.down = s.conn.down
    BY DEF Server, Connection
  <1>2. Ready(t.bridge, t.conn)
    BY <1>1 DEF Awake, Ready, CancelsSent
  <1> HIDE DEF t
  <1> QED
    BY <1>1, <1>2, PumpWakes DEF Heartbeat, t

LEMMA CloseWakes ==
  ASSUME NEW s \in Server, Sound(s.bridge), Timely(s.bridge)
  PROVE  LET t == CloseSocket(s)
         IN  /\ t \in Server /\ Sound(t.bridge) /\ Timely(t.bridge)
             /\ Fresh(t.bridge) = Fresh(s.bridge) /\ ~t.conn.open
             /\ Awake(t.bridge, t.conn)
  <1> DEFINE t == CloseSocket(s)
  <1>1. /\ t \in Server /\ Sound(t.bridge) /\ Timely(t.bridge)
        /\ Fresh(t.bridge) = Fresh(s.bridge) /\ ~t.conn.open
    <2>1. CASE ~s.conn.open
      BY <2>1 DEF CloseSocket
    <2>2. CASE s.conn.open
      <3> DEFINE b == Release(s.bridge, Owner)
                 d == [NoConnection EXCEPT !.down = s.conn.down]
      <3>1. Sound(b) /\ Timely(b) /\ Fresh(b) = Fresh(s.bridge)
        BY ReleaseSound, ReleaseTimely
      <3>2. d \in Connection /\ d.open = FALSE
        BY EmptyFrames DEF NoConnection, Connection, Server
      <3>3. t = [bridge |-> b, conn |-> d]
        BY <2>2 DEF CloseSocket
      <3> HIDE DEF b, d, t
      <3> QED
        BY <3>1, <3>2, <3>3 DEF Server, Sound
    <2> QED
      BY <2>1, <2>2
  <1> HIDE DEF t
  <1>2. Awake(t.bridge, t.conn)
    BY <1>1, ClosedAwake
  <1> QED
    BY <1>1, <1>2 DEF t

LEMMA OpenWakes ==
  ASSUME NEW s \in Server, Sound(s.bridge), Timely(s.bridge), CancelTTL <= Retention
  PROVE  Awake(OpenSocket(s).bridge, OpenSocket(s).conn)
  <1> DEFINE t == CloseSocket(s)
             d == [NoConnection EXCEPT !.open = TRUE]
             u == [t EXCEPT !.conn = d]
  <1>1. t \in Server /\ Sound(t.bridge) /\ Timely(t.bridge)
    BY CloseWakes
  <1>2. OpenSocket(s) = Pump(u)
    BY DEF OpenSocket
  <1>3. d \in Connection /\ d.down = <<>>
    BY EmptyFrames DEF NoConnection, Connection
  <1> HIDE DEF t, d
  <1>4. u \in Server /\ u.bridge = t.bridge /\ u.conn = d
    BY <1>1, <1>3 DEF Server
  <1> HIDE DEF u
  <1>5. Ready(u.bridge, u.conn)
    BY <1>1, <1>3, <1>4, EmptyFrames DEF Ready, CancelsSent
  <1> QED
    BY <1>1, <1>2, <1>4, <1>5, PumpWakes

\* Whoever ends waiting leaves a cancellation, or held no slot.
LEMMA EndWaitWakes ==
  ASSUME NEW s \in Server, Sound(s.bridge), Awake(s.bridge, s.conn), CancelTTL <= Retention,
         NEW x \in s.bridge.pending, NEW state \in EndedStates
  PROVE  Awake(EndWait(s, x, state).bridge, EndWait(s, x, state).conn)
  <1> DEFINE a == s.bridge
             b == EndWaiter(a, x, state)
             t == [s EXCEPT !.bridge = b]
  <1>1. Timely(a) /\ Ready(a, s.conn)
    BY DEF Awake, Ready
  <1>2. Sound(b)
    BY WaiterEnds
  <1>3. /\ Timely(b) /\ Fresh(a) \subseteq Fresh(b)
        /\ b.pending = a.pending \ {x} /\ b.peers = a.peers
        /\ \A y \in b.pending : b.op[y] = a.op[y]
        /\ a.op[x].via = None => b.cancel = a.cancel
    BY <1>1, EndWaiterTimely
  <1> HIDE DEF b
  <1>4. CASE a.op[x].via # None
    <2>1. x \notin Cancelled(a)
      BY <1>1, <1>4 DEF Timely, CancelsFit
    <2>2. EndWait(s, x, state) = Pump(t)
      BY <1>4, <2>1 DEF EndWait, b
    <2> QED
      BY <1>1, <1>2, <1>3, <2>2, ThenPumpWakes
  <1>5. CASE a.op[x].via = None
    <2>1. EndWait(s, x, state) = t
      BY <1>5 DEF EndWait, b
    <2>2. Rests(a, b)
      BY <1>3, <1>5 DEF Rests
    <2>3. Awake(b, s.conn)
      BY <1>3, <2>2, RestsAwake
    <2> QED
      BY <2>1, <2>3, BridgeOf
  <1> QED
    BY <1>4, <1>5

LEMMA ArriveWakes ==
  ASSUME NEW s \in Server, Sound(s.bridge), Awake(s.bridge, s.conn), CancelTTL <= Retention,
         NEW q \in Peers
  PROVE  Awake(Arrive(s, q).bridge, Arrive(s, q).conn)
  <1> DEFINE b == Register(s.bridge, q)
             t == [s EXCEPT !.bridge = b]
  <1>1. Timely(s.bridge) /\ Ready(s.bridge, s.conn)
    BY DEF Awake, Ready
  <1>2. Sound(b) /\ Timely(b) /\ Fresh(b) = Fresh(s.bridge)
    BY <1>1, RegisterSound, RegisterTimely
  <1>3. CASE Arrive(s, q) = Pump(t)
    <2> HIDE DEF b
    <2> QED
      BY <1>1, <1>2, <1>3, ThenPumpWakes
  <1>4. CASE Arrive(s, q) # Pump(t)
    <2>1. Arrive(s, q) = t /\ t.bridge = s.bridge
      BY <1>4 DEF Arrive
    <2>2. t.conn = s.conn
      BY BridgeOf
    <2> QED
      BY <2>1, <2>2
  <1> QED
    BY <1>3, <1>4

LEMMA LeaveWakes ==
  ASSUME NEW s \in Server, Sound(s.bridge), Awake(s.bridge, s.conn), CancelTTL <= Retention,
         NEW q \in Peers
  PROVE  Awake(Leave(s, q).bridge, Leave(s, q).conn)
  <1> DEFINE c == IF q = Transport THEN CloseSocket(s) ELSE s
             b == Unregister(c.bridge, q)
             t == [c EXCEPT !.bridge = b]
  <1>1. c \in Server /\ Sound(c.bridge) /\ Ready(c.bridge, c.conn)
    <2>1. CASE q = Transport
      BY <2>1, CloseWakes DEF Awake, Ready
    <2>2. CASE q # Transport
      BY <2>2 DEF Awake
    <2> QED
      BY <2>1, <2>2
  <1>2. Leave(s, q) = Pump(t)
    BY DEF Leave
  <1> HIDE DEF c
  <1>3. Sound(b) /\ Timely(b) /\ Fresh(c.bridge) \subseteq Fresh(b)
    BY <1>1, UnregisterSound, UnregisterTimely DEF Ready
  <1> HIDE DEF b
  <1> QED
    BY <1>1, <1>2, <1>3, ThenPumpWakes

LEMMA AcknowledgeWakes ==
  ASSUME NEW s \in Server, Sound(s.bridge), Awake(s.bridge, s.conn), CancelTTL <= Retention,
         Roomy(s.bridge), NEW x \in Ids, NEW r \in Responses
  PROVE  Awake(Acknowledge(s, x, r).bridge, Acknowledge(s, x, r).conn)
  <1> DEFINE e == [kind |-> "ack", id |-> x, past |-> FALSE,
                   disposition |-> Disposition(s.bridge, Transport, x)]
             b == Settle(s.bridge, Transport, x, r)
             t == [s EXCEPT !.bridge = b]
             c == t.conn
             known == {i \in DOMAIN c.acks : c.acks[i].id = x}
  <1>1. /\ Sound(b) /\ Timely(b) /\ Fresh(s.bridge) \subseteq Fresh(b)
        /\ Ready(s.bridge, s.conn)
    BY RoomyFits, SettleSound, SettleTimely DEF Awake, Ready
  <1>2. e \in Ack
    BY DEF Disposition, Dispositions, Ack
  <1>3. Acknowledge(s, x, r) =
          CASE known # {} ->
                 Pump([t EXCEPT !.conn.acks = [i \in DOMAIN @ |-> IF i \in known THEN e ELSE @[i]]])
            [] known = {} /\ Len(t.conn.acks) >= MaxAcks -> CloseSocket(t)
            [] known = {} /\ Len(t.conn.acks) < MaxAcks ->
                 Pump([t EXCEPT !.conn.acks = Append(@, e)])
    BY DEF Acknowledge
  <1> HIDE DEF b, e
  <1>4. t \in Server /\ t.bridge = b /\ t.conn = s.conn /\ Ready(t.bridge, t.conn)
    BY <1>1, BridgeOf, FresherReady DEF Sound
  <1> HIDE DEF t
  <1>5. c \in Connection /\ c.acks \in Seq(Ack) /\ Len(c.acks) \in Nat
    BY <1>4 DEF Server, Connection
  <1>6. ASSUME NEW acks \in Seq(Ack)
        PROVE  LET u == Pump([t EXCEPT !.conn.acks = acks]) IN Awake(u.bridge, u.conn)
    <2> DEFINE u == [t EXCEPT !.conn.acks = acks]
    <2>1. /\ u \in Server /\ u.bridge = b
          /\ u.conn.open = t.conn.open /\ u.conn.down = t.conn.down
      BY <1>4, <1>5 DEF Server, Connection
    <2>2. Ready(u.bridge, u.conn)
      BY <1>4, <2>1 DEF Ready, CancelsSent
    <2> HIDE DEF u
    <2> QED
      BY <1>1, <2>1, <2>2, PumpWakes DEF u
  <1>7. CASE known # {}
    <2> DEFINE acks == [i \in DOMAIN c.acks |-> IF i \in known THEN e ELSE c.acks[i]]
    <2>1. Acknowledge(s, x, r) = Pump([t EXCEPT !.conn.acks = acks])
      BY <1>3, <1>4, <1>7 DEF Server, Connection
    <2>2. acks \in Seq(Ack)
      BY <1>2, <1>5
    <2> HIDE DEF acks
    <2> QED
      BY <1>6, <2>1, <2>2
  <1>8. CASE known = {} /\ Len(c.acks) >= MaxAcks
    <2>1. Acknowledge(s, x, r) = CloseSocket(t)
      BY <1>3, <1>5, <1>8, AcksAssumption
    <2> QED
      BY <1>1, <1>4, <2>1, CloseWakes
  <1>9. CASE known = {} /\ Len(c.acks) < MaxAcks
    <2> DEFINE acks == Append(c.acks, e)
    <2>1. Acknowledge(s, x, r) = Pump([t EXCEPT !.conn.acks = acks])
      BY <1>3, <1>4, <1>5, <1>9, AcksAssumption DEF Server, Connection
    <2>2. acks \in Seq(Ack)
      BY <1>2, <1>5, AppendFrames
    <2> HIDE DEF acks
    <2> QED
      BY <1>6, <2>1, <2>2
  <1> QED
    BY <1>5, <1>7, <1>8, <1>9, AcksAssumption

LEMMA ReceiveWakes ==
  ASSUME NEW s \in Server, Sound(s.bridge), Awake(s.bridge, s.conn), CancelTTL <= Retention,
         Roomy(s.bridge), s.conn.up # <<>>
  PROVE  Awake(Receive(s).bridge, Receive(s).conn)
  <1> DEFINE f == Head(s.conn.up)
             t == [s EXCEPT !.conn.up = Tail(@)]
  <1>1. Tail(s.conn.up) \in Seq(UpFrame) /\ f \in UpFrame
    <2>1. s.conn.up \in Seq(UpFrame)
      BY DEF Server, Connection
    <2> QED
      BY <2>1, TailFrames
  <1>2. /\ t \in Server /\ t.bridge = s.bridge
        /\ t.conn.open = s.conn.open /\ t.conn.sending = s.conn.sending
        /\ t.conn.acks = s.conn.acks /\ t.conn.down = s.conn.down
    BY <1>1 DEF Server, Connection
  <1>3. Receive(s) =
          CASE f.kind = "executing" ->
                 [t EXCEPT !.bridge = Progress(@, Transport, f.id, "executing", "unknown")]
            [] f.kind = "returned" ->
                 [t EXCEPT !.bridge = Progress(@, Transport, f.id, "response_delivery",
                                               ExecOf(f.response))]
            [] f.kind = "response" -> Acknowledge(t, f.id, f.response)
    BY DEF Receive
  <1> HIDE DEF f, t
  <1>4. Awake(t.bridge, t.conn) /\ Sound(t.bridge) /\ Roomy(t.bridge)
    BY <1>2, LinkAwake
  <1>5. ASSUME NEW x, NEW phase \in Stages, NEW exec \in Outcomes
        PROVE  LET u == [t EXCEPT !.bridge = Progress(@, Transport, x, phase, exec)]
               IN  Awake(u.bridge, u.conn)
    <2> DEFINE b == Progress(t.bridge, Transport, x, phase, exec)
    <2>1. Timely(b) /\ Rests(t.bridge, b)
      BY <1>4, RoomyFits, ProgressTimely DEF Awake, Ready
    <2> HIDE DEF b
    <2>2. Awake(b, t.conn)
      BY <1>4, <2>1, RestsAwake
    <2> QED
      BY <1>2, <2>2, BridgeOf DEF b
  <1>6. CASE f.kind = "executing"
    <2>1. "executing" \in Stages /\ "unknown" \in Outcomes
      BY DEF Stages, Outcomes
    <2> QED
      BY <1>3, <1>5, <1>6, <2>1
  <1>7. CASE f.kind = "returned"
    <2>1. "response_delivery" \in Stages /\ ExecOf(f.response) \in Outcomes
      BY <1>1, <1>7, ExecOfType DEF Stages, UpFrame
    <2> QED
      BY <1>3, <1>5, <1>7, <2>1
  <1>8. CASE f.kind = "response"
    <2>1. Receive(s) = Acknowledge(t, f.id, f.response)
      BY <1>3, <1>8
    <2>2. f.id \in Ids /\ f.response \in Responses
      BY <1>1, <1>8 DEF UpFrame
    <2> QED
      BY <1>2, <1>4, <2>1, <2>2, AcknowledgeWakes
  <1> QED
    BY <1>1, <1>6, <1>7, <1>8 DEF UpFrame

LEMMA AdmitSame ==
  ASSUME NEW b, Sound(b), NEW x \in Ids, NEW p \in Peers
  PROVE  Admit(b, x, p).cancel = b.cancel /\ Admit(b, x, p).peers = b.peers
  <1> DEFINE c == Prune(b)
             d == Insert(c, x, p)
  <1>1. Sound(c) /\ c.cancel = b.cancel /\ c.peers = b.peers
    BY PruneSound, PruneKeeps
  <1> HIDE DEF c
  <1>2. CASE x \in Recorded(c) \/ Cardinality(c.pending) >= MaxPending
    BY <1>1, <1>2 DEF Admit, c
  <1>3. CASE ~(x \in Recorded(c) \/ Cardinality(c.pending) >= MaxPending)
    <2>1. Sound(d)
      BY <1>1, <1>3, InsertSound
    <2>2. d.cancel = c.cancel /\ d.peers = c.peers
      BY <1>1 DEF Insert, Sound, Bridge
    <2>3. Admit(b, x, p) = Prune(d)
      BY <1>3 DEF Admit, c
    <2> HIDE DEF d
    <2> QED
      BY <1>1, <2>1, <2>2, <2>3, PruneKeeps
  <1> QED
    BY <1>2, <1>3

\* A request nobody is told of is one that no transport could take.
LEMMA SubmitWakes ==
  ASSUME NEW s \in Server, Sound(s.bridge), Awake(s.bridge, s.conn), CancelTTL <= Retention,
         Roomy(s.bridge), NEW x \in Ids, NEW p \in Peers
  PROVE  Awake(Submit(s, x, p).bridge, Submit(s, x, p).conn)
  <1> DEFINE a == s.bridge
             b == Admit(a, x, p)
             t == [s EXCEPT !.bridge = b]
             admitted == x \in t.bridge.pending \ a.pending
  <1>1. Timely(a) /\ Ready(a, s.conn)
    BY DEF Awake, Ready
  <1>2. Sound(b) /\ b.cancel = a.cancel /\ b.peers = a.peers
    BY AdmitSound, AdmitSame
  <1>3. /\ Timely(b) /\ Fresh(a) \subseteq Fresh(b)
        /\ \A y \in a.pending : b.op[y] = a.op[y]
        /\ \/ b.pending = a.pending
           \/ /\ x \notin a.pending /\ b.pending = a.pending \cup {x}
              /\ b.op[x].via = None /\ b.op[x].target = p
    BY <1>1, AdmitTimely
  <1>4. Submit(s, x, p) = IF admitted /\ p \in t.bridge.peers THEN Pump(t) ELSE t
    BY DEF Submit
  <1> HIDE DEF b
  <1>5. t.bridge = b /\ t.conn = s.conn
    BY BridgeOf
  <1>6. CASE admitted /\ p \in b.peers
    BY <1>1, <1>2, <1>3, <1>4, <1>5, <1>6, ThenPumpWakes
  <1>7. CASE ~(admitted /\ p \in b.peers)
    <2>1. Submit(s, x, p) = t
      BY <1>4, <1>5, <1>7
    <2>2. CancelsSent(b, s.conn)
      BY <1>1, <1>3, FresherReady DEF Ready
    <2>3. NothingToCancel(a) => NothingToCancel(b)
      BY <1>2 DEF NothingToCancel
    <2>4. b.pending = a.pending \/ (b.pending = a.pending \cup {x} /\ b.op[x].via = None
                                     /\ b.op[x].target \notin b.peers)
      BY <1>3, <1>5, <1>7
    <2>5. Outstanding(b, Transport) = Outstanding(a, Transport)
      BY <1>3, <2>4, NoneAssumption, TransportAssumption DEF Outstanding
    <2>6. Claimable(b, Transport) \subseteq Claimable(a, Transport)
      BY <1>2, <1>3, <2>4 DEF Claimable
    <2>7. Quiet(b, s.conn)
      BY <2>3, <2>5, <2>6 DEF Awake, Quiet, NothingToAsk
    <2> QED
      BY <1>3, <1>5, <2>1, <2>2, <2>7 DEF Awake, Ready
  <1> QED
    BY <1>6, <1>7

LEMMA OutdateWakes ==
  ASSUME NEW s \in Server, Awake(s.bridge, s.conn), NEW x \in Ids
  PROVE  /\ Outdate(s, x) \in Server /\ Outdate(s, x).bridge = s.bridge
         /\ Awake(s.bridge, Outdate(s, x).conn)
  <1> DEFINE c == s.conn
             down == Outdated(c.down, {x})
             acks == Outdated(c.acks, {x})
             t == Outdate(s, x)
  <1>1. c.down \in Seq(DownFrame) /\ c.acks \in Seq(Ack) /\ Ack \subseteq DownFrame
    BY DEF Server, Connection, DownFrame
  <1>2. /\ down \in Seq(DownFrame) /\ DOMAIN down = DOMAIN c.down
        /\ \A i \in DOMAIN c.down : Marks(c.down[i], down[i], {x})
    BY <1>1, OutdatedMarks
  <1>3. acks \in Seq(Ack) /\ (c.acks = <<>> => acks = <<>>)
    <2>1. acks \in Seq(Ack) /\ Len(acks) = Len(c.acks)
      BY <1>1, OutdatedMarks
    <2> HIDE DEF acks
    <2> QED
      BY <1>1, <2>1
  <1> HIDE DEF down, acks
  <1>4. t = [s EXCEPT !.conn.down = down, !.conn.acks = acks]
    BY DEF Outdate, down, acks
  <1>5. /\ t \in Server /\ t.bridge = s.bridge /\ t.conn.down = down /\ t.conn.acks = acks
        /\ t.conn.open = c.open /\ t.conn.sending = c.sending
    <2> DEFINE k == [c EXCEPT !.down = down, !.acks = acks]
    <2>1. c \in Connection /\ s = [bridge |-> s.bridge, conn |-> c]
      BY DEF Server
    <2>2. k \in Connection
      BY <1>2, <1>3, <2>1 DEF Connection
    <2>3. k.down = down /\ k.acks = acks /\ k.open = c.open /\ k.sending = c.sending
      BY <2>1 DEF Connection
    <2>4. t = [s EXCEPT !.conn = k]
      BY <1>4, <2>1 DEF Server, Connection
    <2> HIDE DEF k, t
    <2> QED
      BY <2>2, <2>3, <2>4 DEF Server
  <1> HIDE DEF t
  <1>6. \A f \in Frames(down) : f.kind = "cancel" => \E g \in Frames(c.down) : g.kind = "cancel" /\ g.id = f.id
    BY <1>2 DEF Marks, Frames
  <1>7. CancelsSent(s.bridge, t.conn)
    BY <1>5, <1>6 DEF Awake, Ready, CancelsSent
  <1>8. Quiet(s.bridge, t.conn)
    BY <1>3, <1>5 DEF Awake, Quiet
  <1> QED
    BY <1>5, <1>7, <1>8 DEF Awake, Ready, t

-----------------------------------------------------------------------------
(***************************************************************************)
(* The steps of the plugin, of time and of the whole.                      *)
(***************************************************************************)
LEMMA SentAwake ==
  ASSUME NEW s \in Server, Awake(s.bridge, s.conn), NEW frames
  PROVE  Awake(Sent(s, frames).bridge, Sent(s, frames).conn)
  <1> DEFINE t == [s EXCEPT !.conn.up = @ \o frames]
  <1>1. /\ t.bridge = s.bridge
        /\ t.conn.open = s.conn.open /\ t.conn.sending = s.conn.sending
        /\ t.conn.acks = s.conn.acks /\ t.conn.down = s.conn.down
    BY DEF Server, Connection
  <1>2. Sent(s, frames) \in {s, t}
    BY DEF Sent
  <1> HIDE DEF t
  <1>3. Awake(t.bridge, t.conn)
    BY <1>1, LinkAwake
  <1> QED
    BY <1>2, <1>3

LEMMA ReadAwake ==
  ASSUME NEW s \in Server, Awake(s.bridge, s.conn), s.conn.down # <<>>
  PROVE  LET t == [s EXCEPT !.conn.down = Tail(@)]
         IN  t \in Server /\ Awake(t.bridge, t.conn)
  <1> DEFINE t == [s EXCEPT !.conn.down = Tail(@)]
  <1>1. s.conn.down \in Seq(DownFrame)
    BY DEF Server, Connection
  <1>2. /\ Tail(s.conn.down) \in Seq(DownFrame)
        /\ Frames(Tail(s.conn.down)) \subseteq Frames(s.conn.down)
    BY <1>1, TailFrames
  <1>3. /\ t \in Server /\ t.bridge = s.bridge
        /\ t.conn.open = s.conn.open /\ t.conn.sending = s.conn.sending
        /\ t.conn.acks = s.conn.acks /\ t.conn.down = Tail(s.conn.down)
    BY <1>2 DEF Server, Connection
  <1> HIDE DEF t
  <1>4. Awake(t.bridge, t.conn)
    BY <1>2, <1>3, LinkAwake
  <1> QED
    BY <1>3, <1>4 DEF t

LEMMA LeavesAwake ==
  ASSUME server \in Server, WakeInv, Leaves
  PROVE  WakeInv'
  <1> DEFINE t == Detach(server)
  <1>1. /\ t.bridge = server.bridge
        /\ t.conn.open = server.conn.open /\ t.conn.sending = server.conn.sending
        /\ t.conn.acks = server.conn.acks /\ t.conn.down = <<>>
    BY DEF Detach, Server, Connection
  <1>2. server' \in {server, t}
    BY DEF Leaves
  <1> HIDE DEF t
  <1>3. Awake(t.bridge, t.conn)
    BY <1>1, LinkAwake, EmptyFrames DEF WakeInv
  <1> QED
    BY <1>2, <1>3 DEF WakeInv

LEMMA PluginReceivesAwake ==
  ASSUME server \in Server, WakeInv, PluginReceives
  PROVE  WakeInv'
  <1> DEFINE frame == Head(server.conn.down)
             read == [server EXCEPT !.conn.down = Tail(@)]
  <1>1. read \in Server /\ Awake(read.bridge, read.conn)
    BY ReadAwake DEF PluginReceives, CanRead, Conn, WakeInv
  <1>2. \/ Leaves
        \/ server' = read
        \/ StartsWork(frame, read)
        \/ server' = Sent(read, Returned(frame.id, "not_executed"))
    BY DEF PluginReceives, Conn
  <1> HIDE DEF read, frame
  <1>3. \A frames : Awake(Sent(read, frames).bridge, Sent(read, frames).conn)
    BY <1>1, SentAwake
  <1>4. CASE StartsWork(frame, read)
    <2>1. \E frames : server' = Sent(read, frames)
      BY <1>4 DEF StartsWork
    <2> QED
      BY <1>3, <2>1 DEF WakeInv
  <1> QED
    BY <1>1, <1>2, <1>3, <1>4, LeavesAwake DEF WakeInv

LEMMA TimePassesAwake ==
  ASSUME server \in Server, Sound(server.bridge), WakeInv, TimePasses, CancelTTL <= Retention
  PROVE  WakeInv'
  <1> DEFINE b == server.bridge
             c == server.conn
             d == Tick(b)
  <1>1. c.down = <<>> /\ server' = [server EXCEPT !.bridge = d]
    BY DEF TimePasses, Conn
  <1>2. Timely(b)
    BY DEF WakeInv, Awake, Ready
  <1>3. /\ Timely(d) /\ d.pending = b.pending /\ d.peers = b.peers
        /\ \A x \in Ids : /\ d.op[x].via = b.op[x].via /\ d.op[x].target = b.op[x].target
                          /\ d.cancel[x].via = b.cancel[x].via
                          /\ d.cancel[x].owner = b.cancel[x].owner
                          /\ b.cancel[x].age >= CancelTTL => d.cancel[x].age >= CancelTTL
    BY <1>2, TickTimely
  <1>4. \A x \in b.pending : x \in Ids
    BY DEF Sound, Bridge
  <1> HIDE DEF d
  <1>5. server'.bridge = d /\ server'.conn = c
    BY <1>1, BridgeOf
  <1>6. CancelsSent(d, c)
    BY <1>1, EmptyFrames DEF CancelsSent
  <1>7. NothingToCancel(b) => NothingToCancel(d)
    BY <1>3 DEF NothingToCancel
  <1>8. Outstanding(d, Transport) = Outstanding(b, Transport)
    BY <1>3, <1>4 DEF Outstanding
  <1>9. Claimable(d, Transport) = Claimable(b, Transport)
    BY <1>3, <1>4 DEF Claimable
  <1>10. Quiet(d, c)
    BY <1>7, <1>8, <1>9 DEF WakeInv, Awake, Quiet, NothingToAsk
  <1> QED
    BY <1>3, <1>5, <1>6, <1>10 DEF WakeInv, Awake, Ready

\* The table of operations has room: no record goes before its time.
TableHasRoom == Roomy(server.bridge)

LEMMA WakeStep ==
  ASSUME IInv, WakeInv, TableHasRoom, CancelTTL <= Retention, Next
  PROVE  WakeInv'
  <1>1. /\ server \in Server /\ Sound(server.bridge) /\ Roomy(server.bridge)
        /\ Awake(server.bridge, server.conn) /\ Timely(server.bridge)
    BY DEF IInv, Inv, Fits, Types, TableHasRoom, WakeInv, Awake, Ready
  <1>2. ASSUME NEW x \in Ids, NEW p \in Peers, SubmitRequest(x, p)
        PROVE  WakeInv'
    <2> DEFINE s == Outdate(server, x)
    <2>1. s \in Server /\ s.bridge = server.bridge /\ Awake(s.bridge, s.conn)
      BY <1>1, OutdateWakes
    <2>2. server' = Submit(s, x, p) \/ server' = Submit(server, x, p)
      BY <1>2 DEF SubmitRequest
    <2> HIDE DEF s
    <2> QED
      BY <1>1, <2>1, <2>2, SubmitWakes DEF WakeInv
  <1>3. ASSUME NEW x \in Ids, WaiterTimesOut(x)
        PROVE  WakeInv'
    BY <1>1, <1>3, EndWaitWakes DEF WaiterTimesOut, EndedStates, WakeInv
  <1>4. ASSUME HeartbeatFires
        PROVE  WakeInv'
    BY <1>1, <1>4, HeartbeatWakes DEF HeartbeatFires, WakeInv
  <1>5. ASSUME WriteDone
        PROVE  WakeInv'
    BY <1>1, <1>5, WriteCompletesWakes DEF WriteDone, WakeInv
  <1>6. ASSUME ServerReceives
        PROVE  WakeInv'
    BY <1>1, <1>6, ReceiveWakes DEF ServerReceives, HasArrived, Conn, WakeInv
  <1>7. ASSUME ServerDrops \/ ServerSeesClose
        PROVE  WakeInv'
    BY <1>1, <1>7, CloseWakes DEF ServerDrops, ServerSeesClose, WakeInv
  <1>8. ASSUME PeerGoesStale
        PROVE  WakeInv'
    BY <1>1, <1>8, LeaveWakes, TransportPeer DEF PeerGoesStale, WakeInv
  <1>9. ASSUME NEW p \in Peers, ClientRegisters(p)
        PROVE  WakeInv'
    BY <1>1, <1>9, ArriveWakes DEF ClientRegisters, WakeInv
  <1>10. ASSUME NEW p \in Peers, ClientLeaves(p)
         PROVE  WakeInv'
    BY <1>1, <1>10, LeaveWakes DEF ClientLeaves, WakeInv
  <1>11. ASSUME ServerRestarts
         PROVE  WakeInv'
    <2>1. server'.bridge = InitialBridge /\ server'.conn.open = FALSE
      BY <1>11 DEF ServerRestarts, InitialServer, NoConnection
    <2> QED
      BY <2>1, InitialTimely, ClosedAwake DEF WakeInv
  <1>12. ASSUME NEW x \in Ids, NEW r \in Reports, HandlerReturns(x, r)
         PROVE  WakeInv'
    <2>1. server' = server \/ server' = Sent(server, Returned(x, r))
      BY <1>12 DEF HandlerReturns
    <2> QED
      BY <1>1, <2>1, SentAwake DEF WakeInv
  <1>13. ASSUME PluginDrops \/ PluginSeesClose
         PROVE  WakeInv'
    BY <1>1, <1>13, LeavesAwake DEF PluginDrops, PluginSeesClose
  <1>14. ASSUME RegistersReady
         PROVE  WakeInv'
    BY <1>1, <1>14, ArriveWakes, TransportPeer DEF RegistersReady, WakeInv
  <1>15. ASSUME Upgrade
         PROVE  WakeInv'
    BY <1>1, <1>15, OpenWakes DEF Upgrade, WakeInv
  <1>16. ASSUME Opened
         PROVE  WakeInv'
    BY <1>1, <1>16, SentAwake DEF Opened, WakeInv
  <1>17. ASSUME RetryTimer
         PROVE  WakeInv'
    BY <1>17 DEF RetryTimer, WakeInv
  <1>18. ASSUME PluginReceives
         PROVE  WakeInv'
    BY <1>1, <1>18, PluginReceivesAwake
  <1>19. ASSUME TimePasses
         PROVE  WakeInv'
    BY <1>1, <1>19, TimePassesAwake
  <1> QED
    BY <1>2, <1>3, <1>4, <1>5, <1>6, <1>7, <1>8, <1>9, <1>10, <1>11, <1>12, <1>13,
       <1>14, <1>15, <1>16, <1>17, <1>18, <1>19 DEF Next

\* Under the bounds of the tables an idle connection has nothing to say, and what is
\* on it cancels only what has ended.
LEMMA WakeInvariant ==
  ASSUME CancelTTL <= Retention
  PROVE  Spec /\ []TableHasRoom => []WakeInv
  <1>1. Init => WakeInv
    BY InitialTimely, ClosedAwake DEF Init, InitialServer, NoConnection, WakeInv
  <1>2. IInv /\ TableHasRoom /\ WakeInv /\ [Next]_vars => WakeInv'
    <2>1. WakeInv /\ UNCHANGED vars => WakeInv'
      BY DEF WakeInv, vars
    <2> QED
      BY <2>1, WakeStep
  <1> QED
    BY <1>1, <1>2, DeliveryInvariant, PTL DEF Spec

\* While records are kept for their time, a connection that is idle has nothing left to
\* say: whoever frees a slot, makes a request or a cancellation ready, or queues an
\* acknowledgement also pumps (notifyRequestAvailable, studio-transport.ts pump).
THEOREM NoWakeupIsLost ==
  ASSUME CancelTTL <= Retention
  PROVE  Spec /\ []TableHasRoom => []NoLostWakeup
  <1>1. ASSUME IInv, WakeInv
        PROVE  NoLostWakeup
    <2> DEFINE a == server.bridge
               c == server.conn
               b == PruneCancels(a)
    <2>1. Sound(a) /\ Timely(a)
      BY <1>1 DEF IInv, Inv, Fits, Types, WakeInv, Awake, Ready
    <2>2. SameRecords(a, b) /\ b.peers = a.peers
      BY <2>1, PruneCancelsSound
    <2>3. /\ Cancelled(b) \subseteq Cancelled(a)
          /\ \A x \in Cancelled(b) : b.cancel[x] = a.cancel[x] /\ ~(a.cancel[x].age >= CancelTTL)
      <3>1. Cardinality(Cancelled(a)) \in Nat
        BY IdsAssumption, FS_Subset, FS_CardinalityType DEF Cancelled
      <3>2. Lined(a) /\ CancelsFit(a) /\ Cardinality(Cancelled(a)) <= MaxTombstones + 1
        BY <2>1, <3>1, LimitsAssumption DEF Timely
      <3> QED
        BY <2>1, <3>2, PruneCancelsTimely
    <2> SUFFICES ASSUME c.open, ~c.sending
                 PROVE  c.acks = <<>> /\ NextCancel(b, Transport) = {} /\ NextRequest(b, Transport) = {}
      BY DEF NoLostWakeup, Conn
    <2> HIDE DEF b
    <2>4. c.acks = <<>> /\ NothingToCancel(a) /\ NothingToAsk(a)
      BY <1>1 DEF WakeInv, Awake, Quiet
    <2>5. NextCancel(b, Transport) = {}
      <3> SUFFICES ASSUME NEW x \in Ids, b.cancel[x].via = Transport, b.cancel[x].owner = None
                   PROVE  FALSE
        BY DEF NextCancel, First
      <3>1. x \in Cancelled(b)
        BY NoneAssumption, TransportAssumption DEF Cancelled
      <3> QED
        BY <2>3, <2>4, <3>1 DEF NothingToCancel
    <2>6. NextRequest(b, Transport) = {}
      <3>1. Outstanding(b, Transport) = Outstanding(a, Transport)
            /\ Claimable(b, Transport) = Claimable(a, Transport)
        BY <2>2 DEF SameRecords, Outstanding, Claimable
      <3> QED
        BY <2>4, <3>1 DEF NothingToAsk, NextRequest, First
    <2> QED
      BY <2>4, <2>5, <2>6
  <1> QED
    BY <1>1, DeliveryInvariant, WakeInvariant, PTL

\* While records are kept for their time, a cancellation on its way to the plugin is of
\* an operation nobody waits for any more (prunePendingCancellations, recordResponse).
THEOREM CancelsAreNotStray ==
  ASSUME CancelTTL <= Retention
  PROVE  Spec /\ []TableHasRoom => []NoStrayCancel
  <1>1. ASSUME IInv, WakeInv
        PROVE  NoStrayCancel
    <2>1. Sound(server.bridge) /\ CancelsSent(server.bridge, server.conn)
      BY <1>1 DEF IInv, Inv, Fits, Types, WakeInv, Awake, Ready
    <2>2. \A x \in Fresh(server.bridge) : server.bridge.op[x].state # "pending"
      BY <2>1 DEF Sound, Agree, Fresh, Unpended, Recorded
    <2> QED
      BY <2>1, <2>2 DEF CancelsSent, NoStrayCancel, Conn
  <1> QED
    BY <1>1, DeliveryInvariant, WakeInvariant, PTL

=============================================================================
