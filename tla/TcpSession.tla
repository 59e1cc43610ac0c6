----------------------------- MODULE TcpSession -----------------------------
(***************************************************************************)
(* CTCPSession (integrate/tcp_server_client) at both ends of a connection. *)
(* A message is a header with the length of its body, and the body; both   *)
(* are written by an asynchronous operation of their own, the second one   *)
(* started by the completion handler of the first.  In every process the   *)
(* main thread posts messages and one network thread runs all handlers,    *)
(* one at a time.                                                          *)
(*                                                                         *)
(* A unit of the stream is a record: message msg of the peer at position   *)
(* at, where 0 is the header.  A posted function, and with it the message  *)
(* it holds, is destroyed when it returns, a completion handler likewise:  *)
(* whatever an operation could not transfer before it returned is sent     *)
(* later from memory that may have been used for something else (Garbage). *)
(***************************************************************************)
EXTENDS Naturals, Sequences, FiniteSets

CONSTANTS Peers,     \* the two processes
          Other,     \* [Peers -> Peers]: the other one
          Lengths,   \* [Peers -> Seq(Nat)]: lengths of the messages the main
                     \* threads write, a bound on their number too
          Capacity,  \* units the connection holds in one direction
          Chunk,     \* units async_write gives to the socket at a time
          Endless    \* four characters of a text read as a length: more than
                     \* is ever sent

ASSUME PeersAssumption ==
    /\ Other \in [Peers -> Peers]
    /\ \A p \in Peers : Other[p] # p /\ Other[Other[p]] = p
ASSUME LengthsAssumption == Lengths \in [Peers -> Seq(Nat)]
ASSUME BoundsAssumption == {Capacity, Chunk} \subseteq Nat \ {0} /\ Endless \in Nat

VARIABLES posted,     \* [Peers -> Nat]: messages given to writeMessage
          headers,    \* [Peers -> Nat]: messages whose header write has begun
          bodies,     \* [Peers -> Nat]: messages whose body write has begun
          unsent,     \* [Peers -> Seq(unit)]: given to async_write, no room yet
          wire,       \* [Peers -> Seq(unit)]: sent by the peer, not yet read
          reading,    \* [Peers -> record]: the asynchronous read, with mMessage
          delivered,  \* [Peers -> Seq(Seq(unit))]: calls of the message handler
          open,       \* [Peers -> BOOLEAN]: mSocket
          intact      \* [Peers -> BOOLEAN], history: no two messages of the peer
                      \* overlapped and each was sent from its own memory

writer == <<posted, headers, bodies, unsent>>
reader == <<reading, delivered>>
vars == <<writer, reader, wire, open, intact>>
-----------------------------------------------------------------------------
Header(k) == [msg |-> k, at |-> 0]
Body(p, k) == [i \in 1..Lengths[p][k] |-> [msg |-> k, at |-> i]]
Garbage == [msg |-> 0, at |-> 0]

(* Mutant: the length counts the header, too.                              *)
LengthsReadWhole(p, u) ==
    IF u = Garbage THEN {0, 1, Endless}
    ELSE IF u.at = 0 THEN {Lengths[p][u.msg] + 1} ELSE {Endless}

(* The lengths that reading a unit sent by p as a header can give.         *)
LengthsRead(p, u) ==
    IF u = Garbage THEN {0, 1, Endless}
    ELSE IF u.at = 0 THEN {Lengths[p][u.msg]} ELSE {Endless}

AtHeader == [part |-> "header", length |-> 0, data |-> <<>>]
InBody(n) == [part |-> "body", length |-> n, data |-> <<>>]
Closed == [part |-> "none", length |-> 0, data |-> <<>>]

(* A read is done when all it asked for has arrived.                       *)
BodyComplete(p) ==
    reading[p].part = "body" /\ Len(reading[p].data) = reading[p].length

Init == /\ posted = [p \in Peers |-> 0]
        /\ headers = [p \in Peers |-> 0]
        /\ bodies = [p \in Peers |-> 0]
        /\ unsent = [p \in Peers |-> <<>>]
        /\ wire = [p \in Peers |-> <<>>]
        /\ reading = [p \in Peers |-> AtHeader]
        /\ delivered = [p \in Peers |-> <<>>]
        /\ open = [p \in Peers |-> TRUE]
        /\ intact = [p \in Peers |-> TRUE]
-----------------------------------------------------------------------------
(* asio::async_write: a chunk is transferred at once, or as much of it as  *)
(* there is room for, unless an earlier operation still waits; the rest    *)
(* follows when there is room, and once the starting function has ended.   *)
Room(p) == IF unsent[p] # <<>> THEN 0
           ELSE IF Chunk < Capacity - Len(wire[p]) THEN Chunk
           ELSE Capacity - Len(wire[p])
Fits(p, units) == Len(units) <= Room(p)

AsyncWrite(p, units) ==
    LET now == IF Fits(p, units) THEN Len(units) ELSE Room(p)
    IN  /\ wire' = [wire EXCEPT ![p] = @ \o SubSeq(units, 1, now)]
        /\ unsent' = [unsent EXCEPT ![p] =
                          @ \o SubSeq(units, now + 1, Len(units))]

(* mSocket.close(): operations of this end are aborted; what it has sent   *)
(* may be lost with the connection.                                        *)
CloseSocket(p) ==
    /\ open' = [open EXCEPT ![p] = FALSE]
    /\ reading' = [reading EXCEPT ![p] = Closed]
    /\ unsent' = [unsent EXCEPT ![p] = <<>>]
    /\ \E left \in {wire[p], <<>>} : wire' = [wire EXCEPT ![p] = left]
    /\ UNCHANGED <<posted, headers, bodies, delivered, intact>>
-----------------------------------------------------------------------------
(* Any thread: writeMessage posts a function that holds a copy.            *)
WriteMessage(p) ==
    /\ posted[p] < Len(Lengths[p])
    /\ posted' = [posted EXCEPT ![p] = @ + 1]
    /\ UNCHANGED <<headers, bodies, unsent, reader, wire, open, intact>>

(* The posted function runs: the header of the next message is written.    *)
WriteMessageHeader(p) ==
    /\ open[p]
    /\ headers[p] < posted[p]
    /\ headers' = [headers EXCEPT ![p] = @ + 1]
    /\ AsyncWrite(p, <<Header(headers[p] + 1)>>)
    /\ intact' = [intact EXCEPT ![p] =
                      /\ @
                      /\ bodies[p] = headers[p]
                      /\ Fits(p, <<Header(headers[p] + 1)>>)]
    /\ UNCHANGED <<posted, bodies, reader, open>>

(* Completion of a header: the body of the same message is written.        *)
WriteMessageBody(p) ==
    /\ open[p]
    /\ bodies[p] < headers[p]
    /\ \A i \in 1..Len(unsent[p]) : unsent[p][i] # Header(bodies[p] + 1)
    /\ bodies' = [bodies EXCEPT ![p] = @ + 1]
    /\ AsyncWrite(p, Body(p, bodies[p] + 1))
    /\ intact' = [intact EXCEPT ![p] =
                      @ /\ Fits(p, Body(p, bodies[p] + 1))]
    /\ UNCHANGED <<posted, headers, reader, open>>

(* The next unit of a pending write, whose buffer is gone, is transferred. *)
Transfer(p) ==
    /\ unsent[p] # <<>>
    /\ Len(wire[p]) < Capacity
    /\ \E u \in {Head(unsent[p]), Garbage} :
          wire' = [wire EXCEPT ![p] = Append(@, u)]
    /\ unsent' = [unsent EXCEPT ![p] = Tail(@)]
    /\ UNCHANGED <<posted, headers, bodies, reader, open, intact>>

(* A write to a connection whose other end is closed may be refused: the   *)
(* completion handler calls stop.                                          *)
WriteFails(p) ==
    /\ open[p] /\ ~open[Other[p]]
    /\ headers[p] < posted[p] \/ bodies[p] < headers[p] \/ unsent[p] # <<>>
    /\ CloseSocket(p)

(* Completion of the read of a header: the read of the body is started.    *)
ReadMessageHeader(p) ==
    LET q == Other[p]
    IN  /\ reading[p].part = "header"
        /\ wire[q] # <<>>
        /\ \E n \in LengthsRead(q, Head(wire[q])) :
              reading' = [reading EXCEPT ![p] = InBody(n)]
        /\ wire' = [wire EXCEPT ![q] = Tail(@)]
        /\ UNCHANGED <<writer, delivered, open, intact>>

(* The pending read of a body takes what has arrived.                      *)
ReceiveBody(p) ==
    LET q == Other[p]
    IN  /\ reading[p].part = "body" /\ ~BodyComplete(p)
        /\ wire[q] # <<>>
        /\ reading' = [reading EXCEPT ![p].data = Append(@, Head(wire[q]))]
        /\ wire' = [wire EXCEPT ![q] = Tail(@)]
        /\ UNCHANGED <<writer, delivered, open, intact>>

(* Mutant: no further message is read.                                     *)
ReadMessageBodyOnce(p) ==
    /\ BodyComplete(p)
    /\ delivered' = [delivered EXCEPT ![p] = Append(@, reading[p].data)]
    /\ reading' = [reading EXCEPT ![p] = Closed]
    /\ UNCHANGED <<writer, wire, open, intact>>

(* Its completion: the message is handed out and the next header is read.  *)
ReadMessageBody(p) ==
    /\ BodyComplete(p)
    /\ delivered' = [delivered EXCEPT ![p] = Append(@, reading[p].data)]
    /\ reading' = [reading EXCEPT ![p] = AtHeader]
    /\ UNCHANGED <<writer, wire, open, intact>>

(* Mutant: what has been read when the stream ends is handed out.          *)
ReadFailsDelivering(p) ==
    /\ reading[p].part = "body" /\ ~BodyComplete(p)
    /\ ~open[Other[p]]
    /\ wire[Other[p]] = <<>>
    /\ open' = [open EXCEPT ![p] = FALSE]
    /\ delivered' = [delivered EXCEPT ![p] = Append(@, reading[p].data)]
    /\ reading' = [reading EXCEPT ![p] = Closed]
    /\ unsent' = [unsent EXCEPT ![p] = <<>>]
    /\ UNCHANGED <<posted, headers, bodies, wire, intact>>

(* End of the stream before the read is done: stop, or close.              *)
ReadFails(p) ==
    /\ reading[p].part # "none" /\ ~BodyComplete(p)
    /\ ~open[Other[p]]
    /\ wire[Other[p]] = <<>>
    /\ CloseSocket(p)

(* The process ends, by its command or otherwise, or stop is called.       *)
Stop(p) == open[p] /\ CloseSocket(p)
-----------------------------------------------------------------------------
(* What the network thread of p and the connection do.                     *)
Step(p) == \/ WriteMessageHeader(p) \/ WriteMessageBody(p)
           \/ Transfer(p) \/ WriteFails(p)
           \/ ReadMessageHeader(p) \/ ReceiveBody(p)
           \/ ReadMessageBody(p) \/ ReadFails(p)

Next == \E p \in Peers : WriteMessage(p) \/ Step(p) \/ Stop(p)

Spec == Init /\ [][Next]_vars

(* A network thread goes on running ready handlers.                        *)
FairSpec == Spec /\ \A p \in Peers : WF_vars(Step(p))
-----------------------------------------------------------------------------
Messages(p) == 1..Len(Lengths[p])
Units == [msg : Nat, at : Nat]
UnitsOf(p) == {Garbage} \cup [msg : Messages(p), at : Nat]

TypeOK == /\ posted \in [Peers -> Nat]
          /\ headers \in [Peers -> Nat]
          /\ bodies \in [Peers -> Nat]
          /\ unsent \in [Peers -> Seq(Units)]
          /\ wire \in [Peers -> Seq(Units)]
          /\ reading \in [Peers -> [part : {"header", "body", "none"},
                                    length : Nat, data : Seq(Units)]]
          /\ delivered \in [Peers -> Seq(Seq(Units))]
          /\ open \in [Peers -> BOOLEAN]
          /\ intact \in [Peers -> BOOLEAN]
          /\ \A p \in Peers : /\ unsent[p] \in Seq(UnitsOf(p))
                              /\ wire[p] \in Seq(UnitsOf(p))
                              /\ open[p] <=> reading[p].part # "none"
                              /\ Len(wire[p]) <= Capacity
                              /\ bodies[p] <= headers[p]
                              /\ headers[p] <= posted[p]
                              /\ posted[p] <= Len(Lengths[p])

(* What follows a unit in the stream of a peer, what the reader at its     *)
(* other end takes next, and what the peer writes next.                    *)
After(p, u) == IF u.at < Lengths[p][u.msg]
               THEN [msg |-> u.msg, at |-> u.at + 1]
               ELSE Header(u.msg + 1)

Expected(p) ==
    LET next == Len(delivered[p]) + 1
    IN  IF reading[p].part # "body" THEN Header(next)
        ELSE IF BodyComplete(p) THEN Header(next + 1)
        ELSE [msg |-> next, at |-> Len(reading[p].data) + 1]

ToSend(p) == IF bodies[p] < headers[p] /\ Lengths[p][headers[p]] > 0
             THEN [msg |-> headers[p], at |-> 1]
             ELSE Header(headers[p] + 1)

(* What p has read from q is a part of the message after those handed out. *)
ReadInOrder(p, q) ==
    /\ \A i \in 1..Len(delivered[p]) :
          i <= headers[q] /\ delivered[p][i] = Body(q, i)
    /\ reading[p].part = "body" =>
          LET next == Len(delivered[p]) + 1
          IN  /\ next <= headers[q]
              /\ reading[p].length = Lengths[q][next]
              /\ Len(reading[p].data) <= reading[p].length
              /\ \A i \in 1..Len(reading[p].data) :
                    reading[p].data[i] = [msg |-> next, at |-> i]

(* What is on the wire from q continues it, without a gap.                 *)
WireInOrder(p, q) ==
    LET last == Len(wire[q])
    IN  /\ \A i \in 1..last : wire[q][i].msg \in 1..headers[q]
        /\ \A i \in 1..(last - 1) : wire[q][i + 1] = After(q, wire[q][i])
        /\ last > 0 => wire[q][1] = Expected(p)
        /\ open[q] => ToSend(q) = IF last = 0 THEN Expected(p)
                                  ELSE After(q, wire[q][last])

(* The reader at one end and the writer at the other agree on where each   *)
(* message begins: read, on the wire and still to write are consecutive    *)
(* pieces of one stream.                                                   *)
InOrder(q) == /\ unsent[q] = <<>> /\ headers[q] <= bodies[q] + 1
              /\ ReadInOrder(Other[q], q)
              /\ open[Other[q]] => WireInOrder(Other[q], q)

(* Four operations at two ends keep this, and nothing in the stream itself *)
(* would show that it is lost.                                             *)
StreamInOrder == \A q \in Peers : intact[q] => InOrder(q)

(* The number of the message a peer was handed, 0 when it is none.         *)
NumberOf(p, i) ==
    IF i \in Messages(Other[p]) /\ delivered[p][i] = Body(Other[p], i)
    THEN i ELSE 0

Channel == INSTANCE MessageChannel WITH
              written <- posted,
              delivered <- [p \in Peers |->
                  [i \in 1..Len(delivered[p]) |-> NumberOf(p, i)]],
              broken <- [p \in Peers |-> ~intact[p]]

(* The session keeps what a channel promises: as long as the messages of a *)
(* peer do not overlap and are transferred at once, the other end is       *)
(* handed exactly those, in order, whenever the two ends close.            *)
ImplementsChannel == Channel!Spec

(* A message is delivered in the end, unless an end is closed or the       *)
(* messages of its writer got into each other's way.                       *)
WrittenIsDelivered ==
    \A p \in Peers : \A k \in Messages(p) :
        posted[p] >= k ~> \/ Len(delivered[Other[p]]) >= k
                          \/ ~intact[p]
                          \/ ~open[p] \/ ~open[Other[p]]
=============================================================================
