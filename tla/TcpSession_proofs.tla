------------------------- MODULE TcpSession_proofs -------------------------
(***************************************************************************)
(* Proofs about TcpSession, for messages of all lengths and connections of *)
(* every capacity.                                                         *)
(***************************************************************************)
EXTENDS TcpSession, SequenceTheorems, TLAPS

-----------------------------------------------------------------------------
(***************************************************************************)
(* Sequences of units.                                                     *)
(***************************************************************************)

\* The body of a message as a sequence.
LEMMA BodyIsSequence ==
    ASSUME NEW p \in Peers, NEW k \in Messages(p)
    PROVE  /\ Lengths[p][k] \in Nat
           /\ Body(p, k) \in Seq(UnitsOf(p))
           /\ Len(Body(p, k)) = Lengths[p][k]
           /\ \A i \in 1..Lengths[p][k] : Body(p, k)[i] = [msg |-> k, at |-> i]
  <1>1. Lengths[p][k] \in Nat
    BY LengthsAssumption DEF Messages
  <1>2. Body(p, k) \in [1..Lengths[p][k] -> UnitsOf(p)]
    BY <1>1 DEF Body, UnitsOf
  <1>3. Body(p, k) \in Seq(UnitsOf(p)) /\ Len(Body(p, k)) = Lengths[p][k]
    BY <1>1, <1>2, IsASeq, LenProperties
  <1>. QED
    BY <1>1, <1>3 DEF Body

\* What p sends are units.
LEMMA UnitsOfAreUnits ==
    ASSUME NEW p \in Peers
    PROVE  /\ UnitsOf(p) \subseteq Units
           /\ Seq(UnitsOf(p)) \subseteq Seq(Units)
  <1>1. UnitsOf(p) \subseteq Units
    BY LengthsAssumption DEF UnitsOf, Units, Garbage, Messages
  <1>. QED
    BY <1>1

LEMMA HeaderIsUnit ==
    ASSUME NEW p \in Peers, NEW k \in Messages(p)
    PROVE  /\ <<Header(k)>> \in Seq(UnitsOf(p))
           /\ Len(<<Header(k)>>) = 1
           /\ <<Header(k)>>[1] = Header(k)
  BY DEF Header, UnitsOf, Messages

\* What async_write transfers at once and what it keeps are sequences; when
\* there is room, all of it is transferred and nothing is kept.
LEMMA AsyncWriteSplits ==
    ASSUME TypeOK, NEW p \in Peers, NEW units \in Seq(UnitsOf(p)), AsyncWrite(p, units)
    PROVE  /\ wire' \in [Peers -> Seq(Units)] /\ wire'[p] \in Seq(UnitsOf(p))
           /\ unsent' \in [Peers -> Seq(Units)] /\ unsent'[p] \in Seq(UnitsOf(p))
           /\ \A q \in Peers \ {p} : wire'[q] = wire[q] /\ unsent'[q] = unsent[q]
           /\ Len(wire'[p]) <= Capacity
           /\ (unsent[p] = <<>> /\ Fits(p, units)) =>
                 /\ unsent'[p] = <<>>
                 /\ Len(wire'[p]) = Len(wire[p]) + Len(units)
                 /\ \A i \in 1..Len(wire[p]) : wire'[p][i] = wire[p][i]
                 /\ \A i \in 1..Len(units) : wire'[p][Len(wire[p]) + i] = units[i]
  <1>. DEFINE now == IF Fits(p, units) THEN Len(units) ELSE Room(p)
              sent == SubSeq(units, 1, now)
              kept == SubSeq(units, now + 1, Len(units))
  <1>1. wire[p] \in Seq(UnitsOf(p)) /\ unsent[p] \in Seq(UnitsOf(p)) /\ Len(wire[p]) <= Capacity
    BY DEF TypeOK
  <1>2. Len(units) \in Nat /\ Len(wire[p]) \in Nat
    BY <1>1, LenProperties
  <1>3. now \in Nat /\ now <= Len(units) /\ Len(wire[p]) + now <= Capacity
    <2>1. Room(p) \in Nat /\ Len(wire[p]) + Room(p) <= Capacity
      <3>1. Capacity \in Nat /\ Chunk \in Nat
        BY BoundsAssumption
      <3>2. \/ Room(p) = Capacity - Len(wire[p]) \/ Room(p) = 0
            \/ Room(p) = Chunk /\ Chunk < Capacity - Len(wire[p])
        BY DEF Room
      <3>. QED
        BY <3>1, <3>2, <1>1, <1>2
    <2>2. now \in Nat /\ now <= Len(units) /\ now <= Room(p)
      BY <2>1, <1>2 DEF Fits
    <2>. HIDE DEF now
    <2>. QED
      BY <2>1, <2>2, <1>2, BoundsAssumption
  <1>4. /\ sent \in Seq(UnitsOf(p)) /\ Len(sent) = now
        /\ \A i \in 1..now : sent[i] = units[i]
        /\ kept \in Seq(UnitsOf(p)) /\ Len(kept) = Len(units) - now
    <2>1. \A i \in 1..Len(units) : units[i] \in UnitsOf(p)
      BY <1>2
    <2>2. \A i \in 1..now : units[i] \in UnitsOf(p)
      BY <2>1, <1>2, <1>3
    <2>3. \A i \in (now + 1)..Len(units) : units[i] \in UnitsOf(p)
      BY <2>1, <1>2, <1>3
    <2>4. sent \in Seq(UnitsOf(p)) /\ Len(sent) = now /\ \A i \in 1..now : sent[i] = units[i]
      <3>. HIDE DEF now
      <3>1. /\ SubSeq(units, 1, now) \in Seq(UnitsOf(p))
            /\ Len(SubSeq(units, 1, now)) = IF 1 <= now THEN now - 1 + 1 ELSE 0
            /\ \A i \in 1..now - 1 + 1 : SubSeq(units, 1, now)[i] = units[1 + i - 1]
        BY <2>2, <1>3, SubSeqProperties
      <3>. QED
        BY <3>1, <1>3
    <2>5. kept \in Seq(UnitsOf(p)) /\ Len(kept) = Len(units) - now
      <3>. HIDE DEF now
      <3>1. /\ SubSeq(units, now + 1, Len(units)) \in Seq(UnitsOf(p))
            /\ Len(SubSeq(units, now + 1, Len(units))) =
                  IF now + 1 <= Len(units) THEN Len(units) - (now + 1) + 1 ELSE 0
        BY <2>3, <1>2, <1>3, SubSeqProperties
      <3>. QED
        BY <3>1, <1>2, <1>3
    <2>. QED
      BY <2>4, <2>5
  <1>5. /\ wire' = [wire EXCEPT ![p] = wire[p] \o sent]
        /\ unsent' = [unsent EXCEPT ![p] = unsent[p] \o kept]
    BY DEF AsyncWrite
  <1>. HIDE DEF now, sent, kept
  <1>6. /\ wire[p] \o sent \in Seq(UnitsOf(p))
        /\ Len(wire[p] \o sent) = Len(wire[p]) + now
        /\ \A i \in 1..Len(wire[p]) : (wire[p] \o sent)[i] = wire[p][i]
        /\ \A i \in 1..now : (wire[p] \o sent)[Len(wire[p]) + i] = sent[i]
        /\ unsent[p] \o kept \in Seq(UnitsOf(p))
        /\ Len(unsent[p] \o kept) = Len(unsent[p]) + Len(kept)
    <2>0. wire[p] \in Seq(UnitsOf(p)) /\ sent \in Seq(UnitsOf(p))
      BY <1>1, <1>4
    <2>1. /\ wire[p] \o sent \in Seq(UnitsOf(p))
          /\ Len(wire[p] \o sent) = Len(wire[p]) + Len(sent)
          /\ \A i \in 1..Len(wire[p]) + Len(sent) : (wire[p] \o sent)[i] =
                IF i <= Len(wire[p]) THEN wire[p][i] ELSE sent[i - Len(wire[p])]
      BY ONLY <2>0, ConcatProperties, Zenon
    <2>2. /\ unsent[p] \o kept \in Seq(UnitsOf(p))
          /\ Len(unsent[p] \o kept) = Len(unsent[p]) + Len(kept)
      BY <1>1, <1>4, ConcatProperties
    <2>3. \A i \in 1..Len(wire[p]) : (wire[p] \o sent)[i] = wire[p][i]
      BY <2>1, <1>2, <1>3, <1>4
    <2>4. \A i \in 1..now : (wire[p] \o sent)[Len(wire[p]) + i] = sent[i]
      <3>. TAKE i \in 1..now
      <3>1. Len(wire[p]) + i \in 1..Len(wire[p]) + Len(sent)
        BY <1>2, <1>3, <1>4
      <3>2. ~(Len(wire[p]) + i <= Len(wire[p])) /\ Len(wire[p]) + i - Len(wire[p]) = i
        BY <1>2, <1>3
      <3>. QED
        BY <2>1, <3>1, <3>2
    <2>. QED
      BY <2>1, <2>2, <2>3, <2>4, <1>4
  <1>7. ASSUME unsent[p] = <<>>, Fits(p, units)
        PROVE  now = Len(units) /\ unsent[p] \o kept = <<>>
    <2>1. now = Len(units)
      BY <1>7 DEF now
    <2>2. Len(unsent[p] \o kept) = 0
      BY <2>1, <1>7, <1>4, <1>6, <1>2
    <2>. QED
      BY <2>1, <2>2, <1>6, EmptySeq
  <1>8. wire'[p] = wire[p] \o sent /\ unsent'[p] = unsent[p] \o kept
    BY <1>5 DEF TypeOK
  <1>9. ASSUME unsent[p] = <<>>, Fits(p, units)
        PROVE  \A i \in 1..Len(units) : wire'[p][Len(wire[p]) + i] = units[i]
    BY <1>9, <1>7, <1>8, <1>4, <1>6
  <1>10. Len(wire'[p]) <= Capacity
    BY <1>8, <1>6, <1>3, <1>2, BoundsAssumption
  <1>11. /\ wire' \in [Peers -> Seq(Units)] /\ wire'[p] \in Seq(UnitsOf(p))
         /\ unsent' \in [Peers -> Seq(Units)] /\ unsent'[p] \in Seq(UnitsOf(p))
         /\ \A q \in Peers \ {p} : wire'[q] = wire[q] /\ unsent'[q] = unsent[q]
    BY <1>5, <1>6, UnitsOfAreUnits DEF TypeOK
  <1>. QED
    BY <1>6, <1>7, <1>8, <1>9, <1>10, <1>11

-----------------------------------------------------------------------------
(***************************************************************************)
(* Types: a unit read as a header names a message that exists, so that the *)
(* length read is one of the lengths.                                      *)
(***************************************************************************)

LEMMA TypeInit == Init => TypeOK
  <1>. SUFFICES ASSUME Init PROVE TypeOK
    OBVIOUS
  <1>1. \A p \in Peers : Len(Lengths[p]) \in Nat
    BY LengthsAssumption
  <1>2. Capacity \in Nat
    BY BoundsAssumption
  <1>. QED
    BY <1>1, <1>2 DEF Init, TypeOK, AtHeader

LEMMA SocketClosed ==
    ASSUME TypeOK, NEW p \in Peers, CloseSocket(p)
    PROVE  TypeOK'
  <1>1. PICK left \in {wire[p], <<>>} : wire' = [wire EXCEPT ![p] = left]
    BY DEF CloseSocket
  <1>2. left \in Seq(UnitsOf(p)) /\ left \in Seq(Units) /\ Len(left) <= Capacity
    <2>1. CASE left = wire[p]
      BY <2>1 DEF TypeOK
    <2>2. CASE left = <<>>
      BY <2>2, BoundsAssumption
    <2>. QED
      BY <2>1, <2>2
  <1>3. /\ wire' \in [Peers -> Seq(Units)]
        /\ \A q \in Peers : wire'[q] \in Seq(UnitsOf(q)) /\ Len(wire'[q]) <= Capacity
    BY <1>1, <1>2 DEF TypeOK
  <1>4. /\ unsent' \in [Peers -> Seq(Units)]
        /\ \A q \in Peers : unsent'[q] \in Seq(UnitsOf(q))
    BY DEF CloseSocket, TypeOK
  <1>5. /\ reading' \in [Peers -> [part : {"header", "body", "none"},
                                   length : Nat, data : Seq(Units)]]
        /\ open' \in [Peers -> BOOLEAN]
        /\ \A q \in Peers : open'[q] <=> reading'[q].part # "none"
    BY DEF CloseSocket, TypeOK, Closed
  <1>. QED
    BY <1>3, <1>4, <1>5 DEF CloseSocket, TypeOK

LEMMA LengthsReadAreLengths ==
    ASSUME NEW p \in Peers, NEW u \in UnitsOf(p), NEW n \in LengthsRead(p, u)
    PROVE  n \in Nat
  <1>1. CASE u = Garbage
    BY <1>1, BoundsAssumption DEF LengthsRead
  <1>2. CASE u # Garbage
    <2>1. u.msg \in Messages(p)
      BY <1>2 DEF UnitsOf
    <2>2. Lengths[p][u.msg] \in Nat
      BY <2>1, LengthsAssumption DEF Messages
    <2>. QED
      BY <1>2, <2>2, BoundsAssumption DEF LengthsRead
  <1>. QED
    BY <1>1, <1>2

\* Taking the first unit from the wire.
LEMMA WireTaken ==
    ASSUME TypeOK, NEW q \in Peers, wire[q] # <<>>,
           wire' = [wire EXCEPT ![q] = Tail(@)]
    PROVE  /\ Head(wire[q]) \in UnitsOf(q)
           /\ Head(wire[q]) = wire[q][1]
           /\ Len(wire[q]) \in Nat \ {0}
           /\ Len(wire'[q]) = Len(wire[q]) - 1
           /\ \A i \in 1..Len(wire'[q]) : wire'[q][i] = wire[q][i + 1]
           /\ wire' \in [Peers -> Seq(Units)]
           /\ \A p \in Peers : wire'[p] \in Seq(UnitsOf(p)) /\ Len(wire'[p]) <= Capacity
           /\ \A p \in Peers \ {q} : wire'[p] = wire[p]
  <1>1. wire[q] \in Seq(UnitsOf(q)) /\ wire[q] \in Seq(Units) /\ Len(wire[q]) <= Capacity
    BY DEF TypeOK
  <1>2. /\ Head(wire[q]) \in UnitsOf(q)
        /\ Head(wire[q]) = wire[q][1]
        /\ Len(wire[q]) \in Nat \ {0}
        /\ Tail(wire[q]) \in Seq(UnitsOf(q))
        /\ Len(Tail(wire[q])) = Len(wire[q]) - 1
        /\ \A i \in 1..Len(Tail(wire[q])) : Tail(wire[q])[i] = wire[q][i + 1]
    BY <1>1, HeadTailProperties
  <1>3. wire'[q] = Tail(wire[q]) /\ \A p \in Peers \ {q} : wire'[p] = wire[p]
    BY DEF TypeOK
  <1>4. wire' \in [Peers -> Seq(Units)]
    BY <1>2, UnitsOfAreUnits DEF TypeOK
  <1>5. Len(wire'[q]) <= Capacity
    BY <1>1, <1>2, <1>3, BoundsAssumption
  <1>. QED
    BY <1>2, <1>3, <1>4, <1>5 DEF TypeOK

LEMMA TypeStep ==
    ASSUME TypeOK, NEW p \in Peers, WriteMessage(p) \/ Step(p) \/ Stop(p)
    PROVE  TypeOK'
  <1>. DEFINE q == Other[p]
  <1>0. q \in Peers /\ q # p /\ \A x \in Peers : Len(Lengths[x]) \in Nat
    BY PeersAssumption, LengthsAssumption
  <1>1. CASE WriteMessage(p)
    <2>1. /\ posted' \in [Peers -> Nat]
          /\ \A x \in Peers : headers[x] <= posted'[x] /\ posted'[x] <= Len(Lengths[x])
      <3>1. \A x \in Peers : /\ posted[x] \in Nat /\ headers[x] \in Nat
                             /\ headers[x] <= posted[x] /\ posted[x] <= Len(Lengths[x])
        BY DEF TypeOK
      <3>2. posted[p] < Len(Lengths[p]) /\ posted' = [posted EXCEPT ![p] = posted[p] + 1]
        BY <1>1 DEF WriteMessage
      <3>3. posted' \in [Peers -> Nat]
        BY <3>1, <3>2 DEF TypeOK
      <3>4. \A x \in Peers : posted'[x] = posted[x] \/ (x = p /\ posted'[x] = posted[x] + 1)
        BY <3>2 DEF TypeOK
      <3>. QED
        BY <3>1, <3>2, <3>3, <3>4, <1>0
    <2>. QED
      BY <1>1, <2>1 DEF WriteMessage, reader, TypeOK
  <1>2. CASE WriteMessageHeader(p)
    <2>1. headers[p] + 1 \in Messages(p) /\ AsyncWrite(p, <<Header(headers[p] + 1)>>)
      BY <1>2, <1>0 DEF WriteMessageHeader, TypeOK, Messages
    <2>2. /\ wire' \in [Peers -> Seq(Units)]
          /\ unsent' \in [Peers -> Seq(Units)]
          /\ \A x \in Peers : /\ wire'[x] \in Seq(UnitsOf(x)) /\ Len(wire'[x]) <= Capacity
                              /\ unsent'[x] \in Seq(UnitsOf(x))
      BY <2>1, HeaderIsUnit, AsyncWriteSplits DEF TypeOK
    <2>3. /\ headers' \in [Peers -> Nat]
          /\ intact' \in [Peers -> BOOLEAN]
          /\ \A x \in Peers : bodies[x] <= headers'[x] /\ headers'[x] <= posted[x]
      BY <1>2 DEF WriteMessageHeader, TypeOK
    <2>. QED
      BY <1>2, <2>2, <2>3 DEF WriteMessageHeader, reader, TypeOK
  <1>3. CASE WriteMessageBody(p)
    <2>1. bodies[p] + 1 \in Messages(p) /\ AsyncWrite(p, Body(p, bodies[p] + 1))
      BY <1>3, <1>0 DEF WriteMessageBody, TypeOK, Messages
    <2>2. /\ wire' \in [Peers -> Seq(Units)]
          /\ unsent' \in [Peers -> Seq(Units)]
          /\ \A x \in Peers : /\ wire'[x] \in Seq(UnitsOf(x)) /\ Len(wire'[x]) <= Capacity
                              /\ unsent'[x] \in Seq(UnitsOf(x))
      <3>1. Body(p, bodies[p] + 1) \in Seq(UnitsOf(p))
        BY <2>1, BodyIsSequence
      <3>. QED
        BY <2>1, <3>1, AsyncWriteSplits DEF TypeOK
    <2>3. /\ bodies' \in [Peers -> Nat]
          /\ intact' \in [Peers -> BOOLEAN]
          /\ \A x \in Peers : bodies'[x] <= headers[x]
      BY <1>3 DEF WriteMessageBody, TypeOK
    <2>. QED
      BY <1>3, <2>2, <2>3 DEF WriteMessageBody, reader, TypeOK
  <1>4. CASE Transfer(p)
    <2>1. unsent[p] \in Seq(UnitsOf(p)) /\ unsent[p] # <<>>
          /\ wire[p] \in Seq(UnitsOf(p)) /\ Len(wire[p]) < Capacity
      BY <1>4 DEF Transfer, TypeOK
    <2>2. Head(unsent[p]) \in UnitsOf(p) /\ Tail(unsent[p]) \in Seq(UnitsOf(p))
      BY <2>1, HeadTailProperties
    <2>3. PICK u \in UnitsOf(p) : wire' = [wire EXCEPT ![p] = Append(wire[p], u)]
      BY <1>4, <2>2 DEF Transfer, UnitsOf
    <2>4. Append(wire[p], u) \in Seq(UnitsOf(p)) /\ Len(Append(wire[p], u)) = Len(wire[p]) + 1
      BY <2>1, AppendProperties
    <2>5. Len(Append(wire[p], u)) <= Capacity
      BY <2>1, <2>4, BoundsAssumption, LenProperties
    <2>6. /\ wire' \in [Peers -> Seq(Units)]
          /\ \A x \in Peers : wire'[x] \in Seq(UnitsOf(x)) /\ Len(wire'[x]) <= Capacity
      BY <2>3, <2>4, <2>5, UnitsOfAreUnits DEF TypeOK
    <2>7. /\ unsent' \in [Peers -> Seq(Units)]
          /\ \A x \in Peers : unsent'[x] \in Seq(UnitsOf(x))
      BY <1>4, <2>2, UnitsOfAreUnits DEF Transfer, TypeOK
    <2>. QED
      BY <1>4, <2>6, <2>7 DEF Transfer, reader, TypeOK
  <1>5. CASE WriteFails(p) \/ ReadFails(p) \/ Stop(p)
    BY <1>5, SocketClosed DEF WriteFails, ReadFails, Stop
  <1>6. CASE ReadMessageHeader(p)
    <2>1. PICK n \in LengthsRead(q, Head(wire[q])) :
              reading' = [reading EXCEPT ![p] = InBody(n)]
      BY <1>6 DEF ReadMessageHeader
    <2>2. wire[q] # <<>> /\ wire' = [wire EXCEPT ![q] = Tail(@)]
      BY <1>6 DEF ReadMessageHeader
    <2>3. n \in Nat
      BY <1>0, <2>1, <2>2, WireTaken, LengthsReadAreLengths
    <2>4. /\ reading' \in [Peers -> [part : {"header", "body", "none"},
                                     length : Nat, data : Seq(Units)]]
          /\ \A x \in Peers : open[x] <=> reading'[x].part # "none"
      BY <1>6, <2>1, <2>3 DEF ReadMessageHeader, InBody, TypeOK
    <2>. QED
      BY <1>0, <1>6, <2>2, <2>4, WireTaken DEF ReadMessageHeader, writer, TypeOK
  <1>7. CASE ReceiveBody(p)
    <2>1. wire[q] # <<>> /\ wire' = [wire EXCEPT ![q] = Tail(@)]
      BY <1>7 DEF ReceiveBody
    <2>2. Head(wire[q]) \in Units
      BY <1>0, <2>1, WireTaken, UnitsOfAreUnits
    <2>3. Append(reading[p].data, Head(wire[q])) \in Seq(Units)
      BY <2>2, AppendProperties DEF TypeOK
    <2>4. /\ reading' \in [Peers -> [part : {"header", "body", "none"},
                                     length : Nat, data : Seq(Units)]]
          /\ \A x \in Peers : open[x] <=> reading'[x].part # "none"
      BY <1>7, <2>3 DEF ReceiveBody, TypeOK
    <2>. QED
      BY <1>0, <1>7, <2>1, <2>4, WireTaken DEF ReceiveBody, writer, TypeOK
  <1>8. CASE ReadMessageBody(p)
    <2>1. delivered' \in [Peers -> Seq(Seq(Units))]
      BY <1>8, AppendProperties DEF ReadMessageBody, TypeOK
    <2>2. /\ reading' \in [Peers -> [part : {"header", "body", "none"},
                                     length : Nat, data : Seq(Units)]]
          /\ \A x \in Peers : open[x] <=> reading'[x].part # "none"
      BY <1>8 DEF ReadMessageBody, BodyComplete, AtHeader, TypeOK
    <2>. QED
      BY <1>8, <2>1, <2>2 DEF ReadMessageBody, writer, TypeOK
  <1>. QED
    BY <1>1, <1>2, <1>3, <1>4, <1>5, <1>6, <1>7, <1>8 DEF Step

\* The types, for all lengths of messages and capacities.
THEOREM TypeInvariance == Spec => []TypeOK
  <1>1. TypeOK /\ [Next]_vars => TypeOK'
    <2>. SUFFICES ASSUME TypeOK, [Next]_vars PROVE TypeOK'
      OBVIOUS
    <2>1. CASE UNCHANGED vars
      BY <2>1 DEF vars, writer, reader, TypeOK
    <2>. QED
      BY <2>1, TypeStep DEF Next
  <1>. QED
    BY TypeInit, <1>1, PTL DEF Spec

-----------------------------------------------------------------------------
(***************************************************************************)
(* The stream from q to the process at its other end.                      *)
(***************************************************************************)

\* What InOrder(q) speaks of: steps of others do not disturb it.
LEMMA OthersKeepOrder ==
    ASSUME NEW q \in Peers, InOrder(q),
           unsent'[q] = unsent[q], headers'[q] = headers[q], bodies'[q] = bodies[q],
           wire'[q] = wire[q],
           delivered'[Other[q]] = delivered[Other[q]],
           reading'[Other[q]] = reading[Other[q]],
           open'[q] => open[q], open'[Other[q]] => open[Other[q]]
    PROVE  InOrder(q)'
  BY DEF InOrder, ReadInOrder, WireInOrder, Expected, ToSend, After, BodyComplete

\* Numbers and lengths that belong to a stream.
LEMMA StreamTypes ==
    ASSUME TypeOK, NEW q \in Peers
    PROVE  /\ Other[q] \in Peers
           /\ headers[q] \in Nat /\ bodies[q] \in Nat /\ bodies[q] <= headers[q]
           /\ headers[q] <= Len(Lengths[q]) /\ Len(Lengths[q]) \in Nat
           /\ Len(wire[q]) \in Nat
           /\ wire[q] \in Seq(UnitsOf(q))
           /\ \A k \in 1..headers[q] : k \in Messages(q) /\ Lengths[q][k] \in Nat
           /\ \A i \in 1..Len(wire[q]) : wire[q][i] \in UnitsOf(q)
           /\ delivered[Other[q]] \in Seq(Seq(Units))
           /\ Len(delivered[Other[q]]) \in Nat
           /\ reading[Other[q]] \in [part : {"header", "body", "none"},
                                     length : Nat, data : Seq(Units)]
           /\ Len(reading[Other[q]].data) \in Nat
  <1>1. Other[q] \in Peers /\ Len(Lengths[q]) \in Nat
    BY PeersAssumption, LengthsAssumption
  <1>2. /\ headers[q] \in Nat /\ bodies[q] \in Nat /\ bodies[q] <= headers[q]
        /\ headers[q] <= Len(Lengths[q])
    BY <1>1 DEF TypeOK
  <1>3. \A k \in 1..headers[q] : k \in Messages(q) /\ Lengths[q][k] \in Nat
    BY <1>1, <1>2, LengthsAssumption DEF Messages
  <1>4. /\ wire[q] \in Seq(UnitsOf(q)) /\ delivered[Other[q]] \in Seq(Seq(Units))
        /\ reading[Other[q]] \in [part : {"header", "body", "none"},
                                  length : Nat, data : Seq(Units)]
    BY <1>1 DEF TypeOK
  <1>. QED
    BY <1>1, <1>2, <1>3, <1>4, LenProperties

\* The header of the next message continues the stream.
LEMMA HeaderKeepsOrder ==
    ASSUME TypeOK, NEW q \in Peers, InOrder(q), WriteMessageHeader(q), intact'[q]
    PROVE  InOrder(q)'
  <1>. DEFINE p == Other[q]
              next == headers[q] + 1
              n == Len(wire[q])
  <1>1. /\ intact[q] /\ bodies[q] = headers[q] /\ open[q]
        /\ Fits(q, <<Header(next)>>) /\ AsyncWrite(q, <<Header(next)>>)
        /\ headers'[q] = next
        /\ UNCHANGED <<bodies, reading, delivered, open>>
    BY DEF WriteMessageHeader, TypeOK, reader
  <1>2. next \in Messages(q) /\ next \in Nat /\ Lengths[q][next] \in Nat
    <2>1. headers[q] \in Nat /\ posted[q] \in Nat /\ headers[q] < posted[q]
          /\ posted[q] <= Len(Lengths[q]) /\ Len(Lengths[q]) \in Nat
      BY LengthsAssumption DEF WriteMessageHeader, TypeOK
    <2>2. next \in 1..Len(Lengths[q])
      BY <2>1
    <2>. QED
      BY <2>2, LengthsAssumption DEF Messages
  <1>3. /\ unsent'[q] = <<>>
        /\ Len(wire'[q]) = n + 1 /\ n \in Nat
        /\ \A i \in 1..n : wire'[q][i] = wire[q][i]
        /\ wire'[q][n + 1] = Header(next)
    <2>1. /\ <<Header(next)>> \in Seq(UnitsOf(q)) /\ Len(<<Header(next)>>) = 1
          /\ <<Header(next)>>[1] = Header(next)
      BY <1>2, HeaderIsUnit
    <2>2. /\ unsent'[q] = <<>>
          /\ Len(wire'[q]) = n + Len(<<Header(next)>>)
          /\ \A i \in 1..n : wire'[q][i] = wire[q][i]
          /\ \A i \in 1..Len(<<Header(next)>>) : wire'[q][n + i] = <<Header(next)>>[i]
      BY <1>1, <2>1, AsyncWriteSplits DEF InOrder
    <2>. QED
      BY <2>1, <2>2, StreamTypes
  <1>4. ReadInOrder(p, q)'
    <2>1. ReadInOrder(p, q)
      BY DEF InOrder
    <2>2. \A i \in Nat : i <= headers[q] => i <= next
      BY StreamTypes
    <2>3. Len(delivered[p]) \in Nat
      BY StreamTypes
    <2>4. \A i \in 1..Len(delivered[p]) : i <= next /\ delivered[p][i] = Body(q, i)
      BY <2>1, <2>2, <2>3 DEF ReadInOrder
    <2>5. reading[p].part = "body" => Len(delivered[p]) + 1 <= next
      BY <2>1, <2>2, <2>3 DEF ReadInOrder
    <2>. QED
      BY <1>1, <2>1, <2>4, <2>5 DEF ReadInOrder, Body
  <1>5. ASSUME open'[p] PROVE WireInOrder(p, q)'
    <2>1. WireInOrder(p, q) /\ Expected(p)' = Expected(p)
      BY <1>1, <1>5 DEF InOrder, Expected, BodyComplete
    <2>2. ToSend(q) = Header(next) /\ Header(next).msg = next /\ Header(next).at = 0
      BY <1>1, StreamTypes DEF ToSend, Header
    <2>3. ToSend(q)' = After(q, Header(next))
      BY <1>1, <1>2, <2>2, StreamTypes DEF ToSend, After, Header
    <2>4. \A i \in 1..(n + 1) : wire'[q][i].msg \in 1..next
      <3>. TAKE i \in 1..(n + 1)
      <3>1. CASE i = n + 1
        <4>1. next \in 1..next
          BY <1>2, StreamTypes
        <4>. QED
          BY <3>1, <4>1, <1>3, <2>2
      <3>2. CASE i \in 1..n
        <4>1. wire[q][i].msg \in 1..headers[q]
          BY <3>2, <2>1 DEF WireInOrder
        <4>. QED
          BY <3>2, <4>1, <1>3, StreamTypes
      <3>. QED
        BY <3>1, <3>2, <1>3
    <2>5. \A i \in 1..n : wire'[q][i + 1] = After(q, wire'[q][i])
      <3>. TAKE i \in 1..n
      <3>1. CASE i = n
        BY <3>1, <1>1, <1>3, <2>1, <2>2 DEF WireInOrder
      <3>2. CASE i < n
        BY <3>2, <1>3, <2>1 DEF WireInOrder
      <3>. QED
        BY <3>1, <3>2, <1>3
    <2>6. wire'[q][1] = Expected(p)
      BY <1>1, <1>3, <2>1, <2>2 DEF WireInOrder
    <2>. QED
      BY <1>1, <1>3, <2>1, <2>3, <2>4, <2>5, <2>6 DEF WireInOrder, After
  <1>6. headers'[q] <= bodies'[q] + 1
    BY <1>1, StreamTypes
  <1>. QED
    BY <1>3, <1>4, <1>5, <1>6 DEF InOrder

\* So does its body, which may be empty.
LEMMA BodyKeepsOrder ==
    ASSUME TypeOK, NEW q \in Peers, InOrder(q), WriteMessageBody(q), intact'[q]
    PROVE  InOrder(q)'
  <1>. DEFINE p == Other[q]
              k == headers[q]
              len == Lengths[q][k]
              n == Len(wire[q])
  <1>1. /\ intact[q] /\ open[q] /\ bodies[q] < k
        /\ Fits(q, Body(q, bodies[q] + 1)) /\ AsyncWrite(q, Body(q, bodies[q] + 1))
        /\ bodies'[q] = bodies[q] + 1
        /\ UNCHANGED <<headers, reading, delivered, open>>
    BY DEF WriteMessageBody, TypeOK, reader
  <1>2. k = bodies[q] + 1 /\ k \in Messages(q) /\ k \in Nat /\ k \in 1..k /\ len \in Nat
    <2>1. k = bodies[q] + 1
      BY <1>1, StreamTypes DEF InOrder
    <2>2. k \in 1..k
      BY <2>1, StreamTypes
    <2>. QED
      BY <2>1, <2>2, StreamTypes
  <1>3. /\ unsent'[q] = <<>>
        /\ Len(wire'[q]) = n + len /\ n \in Nat
        /\ \A i \in 1..n : wire'[q][i] = wire[q][i]
        /\ \A i \in 1..len : wire'[q][n + i] = [msg |-> k, at |-> i]
    <2>1. /\ Body(q, k) \in Seq(UnitsOf(q)) /\ Len(Body(q, k)) = len
          /\ \A i \in 1..len : Body(q, k)[i] = [msg |-> k, at |-> i]
      BY <1>2, BodyIsSequence
    <2>2. Fits(q, Body(q, k)) /\ AsyncWrite(q, Body(q, k)) /\ unsent[q] = <<>>
      BY <1>1, <1>2 DEF InOrder
    <2>3. /\ unsent'[q] = <<>>
          /\ Len(wire'[q]) = n + Len(Body(q, k))
          /\ \A i \in 1..n : wire'[q][i] = wire[q][i]
          /\ \A i \in 1..Len(Body(q, k)) : wire'[q][n + i] = Body(q, k)[i]
      BY <2>1, <2>2, AsyncWriteSplits
    <2>. QED
      BY <2>1, <2>3, StreamTypes
  <1>4. ReadInOrder(p, q)'
    BY <1>1 DEF InOrder, ReadInOrder, Body
  <1>5. ASSUME open'[p] PROVE WireInOrder(p, q)'
    <2>1. WireInOrder(p, q) /\ Expected(p)' = Expected(p)
      BY <1>1, <1>5 DEF InOrder, Expected, BodyComplete
    <2>2. /\ \A i \in 1..n : wire[q][i].msg \in 1..k
          /\ \A i \in 1..(n - 1) : wire[q][i + 1] = After(q, wire[q][i])
          /\ n > 0 => wire[q][1] = Expected(p)
          /\ ToSend(q) = IF n = 0 THEN Expected(p) ELSE After(q, wire[q][n])
      BY <1>1, <2>1 DEF WireInOrder
    <2>3. ToSend(q)' = Header(k + 1)
      BY <1>1, <1>2 DEF ToSend
    <2>. DEFINE m == Len(wire'[q])
    <2>4. /\ \A i \in 1..m : wire'[q][i].msg \in 1..k
          /\ \A i \in 1..(m - 1) : wire'[q][i + 1] = After(q, wire'[q][i])
          /\ m > 0 => wire'[q][1] = Expected(p)
          /\ Header(k + 1) = IF m = 0 THEN Expected(p) ELSE After(q, wire'[q][m])
      <3>1. CASE len = 0
        <4>1. ToSend(q) = Header(k + 1) /\ m = n
          BY <1>1, <1>2, <1>3, <3>1 DEF ToSend
        <4>. HIDE DEF m, n, k
        <4>. QED
          BY <4>1, <2>2, <1>3
      <3>2. CASE len > 0
        <4>1. ToSend(q) = [msg |-> k, at |-> 1]
          BY <1>1, <3>2 DEF ToSend
        <4>3. m = n + len /\ n \in Nat /\ m \in Nat
          BY <1>2, <1>3
        <4>. HIDE DEF m, n, len
        <4>2. \A i \in 1..m :
                 \/ i \in 1..n /\ wire'[q][i] = wire[q][i]
                 \/ i - n \in 1..len /\ wire'[q][i] = [msg |-> k, at |-> i - n]
          <5>. TAKE i \in 1..m
          <5>1. CASE i <= n
            BY <5>1, <4>3, <1>3 DEF n
          <5>2. CASE i > n
            <6>1. i - n \in 1..len /\ n + (i - n) = i
              BY <5>2, <4>3, <1>2 DEF len
            <6>2. wire'[q][n + (i - n)] = [msg |-> k, at |-> i - n]
              BY <6>1, <1>3 DEF n, len
            <6>. QED
              BY <6>1, <6>2
          <5>. QED
            BY <5>1, <5>2, <4>3
        <4>4. \A i \in 1..m : wire'[q][i].msg \in 1..k
          <5>. TAKE i \in 1..m
          <5>1. CASE i \in 1..n /\ wire'[q][i] = wire[q][i]
            BY <5>1, <2>2
          <5>2. CASE wire'[q][i] = [msg |-> k, at |-> i - n]
            BY <5>2, <1>2
          <5>. QED
            BY <5>1, <5>2, <4>2
        <4>5. \A i \in 1..(m - 1) : wire'[q][i + 1] = After(q, wire'[q][i])
          <5>. TAKE i \in 1..(m - 1)
          <5>0. i \in 1..m /\ i + 1 \in 1..m
            BY <4>3
          <5>4. \/ i + 1 \in 1..n /\ wire'[q][i + 1] = wire[q][i + 1]
                \/ /\ i + 1 - n \in 1..len
                   /\ wire'[q][i + 1] = [msg |-> k, at |-> i + 1 - n]
            BY <5>0, <4>2, <4>3, SMTT(30)
          <5>1. CASE i < n
            <6>1. ~(i - n \in 1..len) /\ ~(i + 1 - n \in 1..len) /\ i \in 1..(n - 1)
              BY <5>1, <4>3
            <6>2. wire'[q][i] = wire[q][i] /\ wire'[q][i + 1] = wire[q][i + 1]
              BY <6>1, <5>0, <5>4, <4>2
            <6>. QED
              BY <6>1, <6>2, <2>2
          <5>2. CASE i = n
            <6>1. ~(i - n \in 1..len) /\ ~(i + 1 \in 1..n) /\ i + 1 - n = 1 /\ n # 0
              BY <5>2, <4>3
            <6>2. wire'[q][i] = wire[q][n]
              BY <5>2, <6>1, <5>0, <4>2
            <6>3. wire'[q][i + 1] = [msg |-> k, at |-> i + 1 - n]
              BY <6>1, <5>0, <5>4, <4>2
            <6>. QED
              BY <6>1, <6>2, <6>3, <4>1, <2>2
          <5>3. CASE i > n
            <6>1. ~(i \in 1..n) /\ ~(i + 1 \in 1..n) /\ i + 1 - n = (i - n) + 1
              BY <5>3, <4>3
            <6>2. wire'[q][i] = [msg |-> k, at |-> i - n]
              BY <6>1, <5>0, <4>2
            <6>3. i + 1 - n \in 1..len /\ wire'[q][i + 1] = [msg |-> k, at |-> i + 1 - n]
              BY <6>1, <5>0, <5>4, <4>2
            <6>4. i - n < len
              BY <6>1, <6>3, <4>3, <1>2 DEF len
            <6>5. After(q, wire'[q][i]) = [msg |-> k, at |-> (i - n) + 1]
              BY <6>2, <6>4 DEF After, len
            <6>. QED
              BY <6>1, <6>3, <6>5
          <5>. QED
            BY <5>1, <5>2, <5>3, <4>3
        <4>6. m > 0 => wire'[q][1] = Expected(p)
          <5>1. 1 \in 1..m
            BY <4>3, <3>2, <1>2 DEF len
          <5>2. CASE n = 0
            <6>1. ~(1 \in 1..n) /\ 1 - n = 1
              BY <5>2
            <6>2. wire'[q][1] = [msg |-> k, at |-> 1 - n]
              BY <5>1, <6>1, <4>2
            <6>. QED
              BY <5>2, <6>1, <6>2, <4>1, <2>2
          <5>3. CASE n > 0
            <6>1. ~(1 - n \in 1..len)
              BY <5>3, <4>3, <1>2 DEF len
            <6>2. wire'[q][1] = wire[q][1]
              BY <5>1, <6>1, <4>2
            <6>. QED
              BY <5>3, <6>2, <2>2
          <5>. QED
            BY <5>2, <5>3, <4>3
        <4>7. m # 0 /\ After(q, wire'[q][m]) = Header(k + 1)
          <5>1. m \in 1..m /\ ~(m \in 1..n) /\ m - n = len /\ m # 0
            BY <4>3, <3>2, <1>2 DEF len
          <5>2. wire'[q][m] = [msg |-> k, at |-> m - n]
            BY <4>2, <5>1
          <5>3. wire'[q][m].at = len /\ wire'[q][m].msg = k
            BY <5>1, <5>2
          <5>. QED
            BY <5>1, <5>3, <1>2 DEF After, len
        <4>. QED
          BY <4>4, <4>5, <4>6, <4>7
      <3>. QED
        BY <3>1, <3>2, <1>2
    <2>. QED
      BY <1>1, <2>1, <2>3, <2>4 DEF WireInOrder, After
  <1>6. headers'[q] <= bodies'[q] + 1
    BY <1>1, <1>2, StreamTypes
  <1>. QED
    BY <1>3, <1>4, <1>5, <1>6 DEF InOrder

\* When the reader has taken the first unit and expects the one after it, the
\* rest of the wire is in order for it.
LEMMA TakingKeepsWireInOrder ==
    ASSUME TypeOK, NEW q \in Peers, WireInOrder(Other[q], q),
           wire[q] # <<>>, wire' = [wire EXCEPT ![q] = Tail(@)],
           headers'[q] = headers[q], bodies'[q] = bodies[q], open'[q] = open[q],
           Expected(Other[q])' = After(q, wire[q][1])
    PROVE  WireInOrder(Other[q], q)'
  <1>. DEFINE last == Len(wire[q])
  <1>1. /\ last \in Nat \ {0} /\ Len(wire'[q]) = last - 1
        /\ \A i \in 1..(last - 1) : wire'[q][i] = wire[q][i + 1]
    BY WireTaken
  <1>2. /\ \A i \in 1..last : wire[q][i].msg \in 1..headers[q]
        /\ \A i \in 1..(last - 1) : wire[q][i + 1] = After(q, wire[q][i])
        /\ open[q] => ToSend(q) = After(q, wire[q][last])
    BY <1>1 DEF WireInOrder
  <1>. DEFINE m == Len(wire'[q])
  <1>3. m = last - 1 /\ m \in Nat /\ last = m + 1
    BY <1>1
  <1>. HIDE DEF last, m
  <1>4. \A i \in 1..m : wire'[q][i] = wire[q][i + 1] /\ i + 1 \in 1..last
    BY <1>1, <1>3
  <1>5. \A i \in 1..m : wire'[q][i].msg \in 1..headers[q]
    BY <1>2, <1>4
  <1>6. \A i \in 1..(m - 1) : wire'[q][i + 1] = After(q, wire'[q][i])
    <2>. TAKE i \in 1..(m - 1)
    <2>1. i \in 1..m /\ i + 1 \in 1..m /\ i + 1 \in 1..(last - 1)
      BY <1>3
    <2>. QED
      BY <2>1, <1>2, <1>4
  <1>7. m > 0 => wire'[q][1] = After(q, wire[q][1])
    <2>. SUFFICES ASSUME m > 0 PROVE wire'[q][1] = After(q, wire[q][1])
      OBVIOUS
    <2>1. 1 \in 1..m /\ 1 \in 1..(last - 1) /\ 1 + 1 = 2
      BY <1>3
    <2>. QED
      BY <2>1, <1>2, <1>4
  <1>8. open[q] => ToSend(q) = IF m = 0 THEN After(q, wire[q][1]) ELSE After(q, wire'[q][m])
    <2>1. CASE m = 0
      BY <2>1, <1>2, <1>3
    <2>2. CASE m # 0
      <3>1. m \in 1..m
        BY <2>2, <1>3
      <3>. QED
        BY <2>2, <3>1, <1>2, <1>3, <1>4
    <2>. QED
      BY <2>1, <2>2
  <1>9. ToSend(q)' = ToSend(q)
    BY DEF ToSend
  <1>. QED
    BY <1>5, <1>6, <1>7, <1>8, <1>9 DEF WireInOrder, After, m

\* The reader at the other end of q takes a header.
LEMMA ReadingHeaderKeepsOrder ==
    ASSUME TypeOK, NEW q \in Peers, InOrder(q), ReadMessageHeader(Other[q])
    PROVE  InOrder(q)'
  <1>. DEFINE p == Other[q]
              next == Len(delivered[p]) + 1
  <1>1. /\ p \in Peers /\ Other[p] = q
        /\ reading[p].part = "header" /\ open[p] /\ wire[q] # <<>>
        /\ wire' = [wire EXCEPT ![q] = Tail(@)]
        /\ UNCHANGED <<writer, delivered, open>>
    BY PeersAssumption DEF ReadMessageHeader, TypeOK
  <1>2. WireInOrder(p, q) /\ ReadInOrder(p, q)
    BY <1>1 DEF InOrder
  <1>3. Expected(p) = Header(next)
    BY <1>1 DEF Expected
  <1>4. /\ Head(wire[q]) = Header(next) /\ wire[q][1] = Header(next)
        /\ next \in 1..headers[q]
    <2>1. Head(wire[q]) = wire[q][1] /\ Len(wire[q]) \in Nat \ {0}
      BY <1>1, WireTaken
    <2>2. wire[q][1] = Header(next) /\ wire[q][1].msg \in 1..headers[q]
      BY <2>1, <1>2, <1>3 DEF WireInOrder
    <2>. QED
      BY <2>1, <2>2 DEF Header
  <1>5. reading'[p] = InBody(Lengths[q][next]) /\ Lengths[q][next] \in Nat
    <2>1. LengthsRead(q, Header(next)) = {Lengths[q][next]}
      BY <1>4, StreamTypes DEF LengthsRead, Header, Garbage
    <2>2. \E n \in LengthsRead(q, Head(wire[q])) : reading' = [reading EXCEPT ![p] = InBody(n)]
      BY <1>1 DEF ReadMessageHeader
    <2>. QED
      <3>1. reading' = [reading EXCEPT ![p] = InBody(Lengths[q][next])]
        BY <1>4, <2>1, <2>2
      <3>2. Lengths[q][next] \in Nat
        BY <1>4, StreamTypes
      <3>. QED
        BY <1>1, <3>1, <3>2 DEF TypeOK
  <1>6. ReadInOrder(p, q)'
    <2>1. delivered' = delivered /\ headers' = headers
      BY <1>1 DEF writer
    <2>2. \A i \in 1..Len(delivered'[p]) :
              i <= headers'[q] /\ delivered'[p][i] = Body(q, i)
      BY <1>2, <2>1 DEF ReadInOrder
    <2>3. /\ reading'[p].length = Lengths[q][next]
          /\ reading'[p].data = <<>>
      BY <1>5 DEF InBody
    <2>4. /\ Len(delivered'[p]) + 1 = next /\ next <= headers'[q]
          /\ Len(reading'[p].data) <= reading'[p].length
          /\ 1..Len(reading'[p].data) = {}
      BY <1>4, <1>5, <2>1, <2>3
    <2>. QED
      BY <2>2, <2>3, <2>4 DEF ReadInOrder
  <1>7. Expected(p)' = After(q, wire[q][1])
    <2>1. CASE Lengths[q][next] = 0
      BY <2>1, <1>1, <1>4, <1>5, StreamTypes DEF Expected, BodyComplete, InBody, After, Header
    <2>2. CASE Lengths[q][next] > 0
      BY <2>2, <1>1, <1>4, <1>5, StreamTypes DEF Expected, BodyComplete, InBody, After, Header
    <2>. QED
      BY <2>1, <2>2, <1>5
  <1>8. WireInOrder(p, q)'
    BY <1>1, <1>2, <1>7, TakingKeepsWireInOrder DEF writer
  <1>. QED
    BY <1>1, <1>6, <1>8 DEF InOrder, writer

\* It takes a unit of a body.
LEMMA ReceivingKeepsOrder ==
    ASSUME TypeOK, NEW q \in Peers, InOrder(q), ReceiveBody(Other[q])
    PROVE  InOrder(q)'
  <1>. DEFINE p == Other[q]
              next == Len(delivered[p]) + 1
              n == Len(reading[p].data)
              u == [msg |-> next, at |-> n + 1]
  <1>1. /\ p \in Peers /\ Other[p] = q
        /\ reading[p].part = "body" /\ ~BodyComplete(p) /\ open[p] /\ wire[q] # <<>>
        /\ reading' = [reading EXCEPT ![p].data = Append(reading[p].data, Head(wire[q]))]
        /\ wire' = [wire EXCEPT ![q] = Tail(@)]
        /\ UNCHANGED <<writer, delivered, open>>
    BY PeersAssumption DEF ReceiveBody, TypeOK
  <1>2. WireInOrder(p, q) /\ ReadInOrder(p, q)
    BY <1>1 DEF InOrder
  <1>3. /\ next <= headers[q] /\ reading[p].length = Lengths[q][next]
        /\ n \in Nat /\ n < reading[p].length /\ reading[p].length \in Nat
        /\ \A i \in 1..n : reading[p].data[i] = [msg |-> next, at |-> i]
    BY <1>1, <1>2, StreamTypes DEF ReadInOrder, BodyComplete
  <1>4. wire[q][1] = u /\ Head(wire[q]) = u
    BY <1>1, <1>2, WireTaken DEF WireInOrder, Expected
  <1>5. /\ reading'[p].part = "body" /\ reading'[p].length = reading[p].length
        /\ Len(reading'[p].data) = n + 1
        /\ \A i \in 1..n + 1 : reading'[p].data[i] = [msg |-> next, at |-> i]
    <2>1. /\ reading'[p].part = "body" /\ reading'[p].length = reading[p].length
          /\ reading'[p].data = Append(reading[p].data, u)
      BY <1>1, <1>4 DEF TypeOK
    <2>2. reading[p].data \in Seq(Units) /\ Head(wire[q]) \in Units
      BY <1>1, StreamTypes, WireTaken, UnitsOfAreUnits
    <2>3. /\ Len(reading'[p].data) = n + 1
          /\ \A i \in 1..n : reading'[p].data[i] = reading[p].data[i]
          /\ reading'[p].data[n + 1] = u
      BY <2>1, <2>2, <1>4, AppendProperties
    <2>. QED
      BY <2>1, <2>3, <1>3
  <1>6. ReadInOrder(p, q)'
    BY <1>1, <1>2, <1>3, <1>5 DEF ReadInOrder, writer, Body
  <1>7. Expected(p)' = After(q, wire[q][1])
    <2>1. Expected(p)' = IF n + 1 = reading[p].length THEN Header(next + 1)
                         ELSE [msg |-> next, at |-> (n + 1) + 1]
      BY <1>1, <1>5 DEF Expected, BodyComplete
    <2>2. After(q, u) = IF n + 1 < reading[p].length
                        THEN [msg |-> next, at |-> (n + 1) + 1] ELSE Header(next + 1)
      BY <1>3 DEF After
    <2>. QED
      BY <1>3, <1>4, <2>1, <2>2
  <1>8. WireInOrder(p, q)'
    BY <1>1, <1>2, <1>7, TakingKeepsWireInOrder DEF writer
  <1>. QED
    BY <1>1, <1>6, <1>8 DEF InOrder, writer

\* What the reader hands out is the next message, whole.
LEMMA CompleteBodyIsMessage ==
    ASSUME TypeOK, NEW q \in Peers, InOrder(q), BodyComplete(Other[q])
    PROVE  /\ Len(delivered[Other[q]]) + 1 <= headers[q]
           /\ reading[Other[q]].data = Body(q, Len(delivered[Other[q]]) + 1)
  <1>. DEFINE p == Other[q]
              next == Len(delivered[p]) + 1
              data == reading[p].data
  <1>1. /\ next <= headers[q] /\ next \in Messages(q)
        /\ data \in Seq(Units) /\ Len(data) = Lengths[q][next]
        /\ \A i \in 1..Len(data) : data[i] = [msg |-> next, at |-> i]
    BY StreamTypes DEF InOrder, ReadInOrder, BodyComplete
  <1>2. /\ Body(q, next) \in Seq(Units) /\ Len(Body(q, next)) = Lengths[q][next]
        /\ \A i \in 1..Lengths[q][next] : Body(q, next)[i] = [msg |-> next, at |-> i]
    BY <1>1, BodyIsSequence, UnitsOfAreUnits
  <1>. HIDE DEF next, data
  <1>3. \A i \in 1..Len(data) : data[i] = Body(q, next)[i]
    BY <1>1, <1>2
  <1>4. data = Body(q, next)
    BY <1>1, <1>2, <1>3, SeqEqual
  <1>. QED
    BY <1>1, <1>4 DEF next, data

LEMMA ReadingBodyKeepsOrder ==
    ASSUME TypeOK, NEW q \in Peers, InOrder(q), ReadMessageBody(Other[q])
    PROVE  InOrder(q)'
  <1>. DEFINE p == Other[q]
              n == Len(delivered[p])
  <1>1. /\ p \in Peers /\ Other[p] = q /\ BodyComplete(p) /\ reading[p].part = "body"
        /\ delivered' = [delivered EXCEPT ![p] = Append(delivered[p], reading[p].data)]
        /\ reading' = [reading EXCEPT ![p] = AtHeader]
        /\ UNCHANGED <<writer, wire, open>>
    BY PeersAssumption DEF ReadMessageBody, BodyComplete
  <1>2. n + 1 <= headers[q] /\ reading[p].data = Body(q, n + 1)
    BY <1>1, CompleteBodyIsMessage
  <1>3. /\ Len(delivered'[p]) = n + 1 /\ n \in Nat
        /\ \A i \in 1..n : delivered'[p][i] = delivered[p][i]
        /\ delivered'[p][n + 1] = Body(q, n + 1)
    <2>1. /\ delivered[p] \in Seq(Seq(Units)) /\ reading[p].data \in Seq(Units)
          /\ delivered'[p] = Append(delivered[p], reading[p].data)
      BY <1>1, StreamTypes DEF TypeOK
    <2>. QED
      BY <2>1, <1>2, AppendProperties, LenProperties
  <1>4. reading'[p] = AtHeader
    BY <1>1 DEF TypeOK
  <1>5. ReadInOrder(p, q)'
    <2>1. \A i \in 1..n + 1 : i <= headers[q] /\ delivered'[p][i] = Body(q, i)
      <3>1. \A i \in 1..n : i <= headers[q] /\ delivered[p][i] = Body(q, i)
        BY DEF InOrder, ReadInOrder
      <3>2. \A i \in 1..n + 1 : i \in 1..n \/ i = n + 1
        BY <1>3
      <3>. HIDE DEF n
      <3>. QED
        BY <1>2, <1>3, <3>1, <3>2
    <2>. QED
      BY <2>1, <1>1, <1>3, <1>4 DEF ReadInOrder, AtHeader, writer, Body
  <1>6. Expected(p)' = Expected(p)
    BY <1>1, <1>3, <1>4 DEF Expected, AtHeader
  <1>7. ASSUME open'[p] PROVE WireInOrder(p, q)'
    BY <1>1, <1>6, <1>7 DEF InOrder, WireInOrder, After, ToSend, writer
  <1>. QED
    BY <1>1, <1>5, <1>7 DEF InOrder, writer

\* An end that closes takes nothing more from the stream and adds nothing.
LEMMA ClosingKeepsOrder ==
    ASSUME TypeOK, NEW q \in Peers, InOrder(q), NEW p \in Peers, CloseSocket(p)
    PROVE  InOrder(q)'
  <1>1. CASE p = q
    <2>1. PICK left \in {wire[q], <<>>} : wire' = [wire EXCEPT ![q] = left]
      BY <1>1 DEF CloseSocket
    <2>2. /\ wire'[q] = left /\ Other[q] # q /\ Other[q] \in Peers
          /\ unsent'[q] = <<>> /\ ~open'[q]
          /\ reading'[Other[q]] = reading[Other[q]] /\ open'[Other[q]] = open[Other[q]]
          /\ UNCHANGED <<headers, bodies, delivered>>
      BY <1>1, <2>1, PeersAssumption DEF CloseSocket, TypeOK
    <2>3. ReadInOrder(Other[q], q)'
      BY <2>2 DEF InOrder, ReadInOrder, Body
    <2>4. ASSUME open'[Other[q]] PROVE WireInOrder(Other[q], q)'
      <3>1. WireInOrder(Other[q], q) /\ Expected(Other[q])' = Expected(Other[q])
        BY <2>2, <2>4 DEF InOrder, Expected, BodyComplete
      <3>2. CASE left = wire[q]
        BY <2>2, <3>1, <3>2 DEF WireInOrder, After
      <3>3. CASE left = <<>>
        BY <2>2, <3>1, <3>3 DEF WireInOrder, After
      <3>. QED
        BY <3>2, <3>3
    <2>. QED
      BY <2>2, <2>3, <2>4 DEF InOrder
  <1>2. CASE p = Other[q]
    <2>1. /\ p # q /\ ~open'[p] /\ reading'[p].part = "none"
          /\ unsent'[q] = unsent[q]
          /\ UNCHANGED <<headers, bodies, delivered>>
      BY <1>2, PeersAssumption DEF CloseSocket, Closed, TypeOK
    <2>2. ReadInOrder(p, q)'
      BY <1>2, <2>1 DEF InOrder, ReadInOrder, Body
    <2>. QED
      BY <1>2, <2>1, <2>2 DEF InOrder
  <1>3. CASE p # q /\ p # Other[q]
    <2>1. Other[q] \in Peers
      BY PeersAssumption
    <2>2. wire'[q] = wire[q] /\ unsent'[q] = unsent[q]
      BY <1>3 DEF CloseSocket, TypeOK
    <2>3. reading'[Other[q]] = reading[Other[q]]
          /\ open'[q] = open[q] /\ open'[Other[q]] = open[Other[q]]
      BY <1>3, <2>1 DEF CloseSocket, TypeOK
    <2>. QED
      BY <2>2, <2>3, OthersKeepOrder DEF CloseSocket
  <1>. QED
    BY <1>1, <1>2, <1>3

-----------------------------------------------------------------------------
(***************************************************************************)
(* Every step of every process keeps every stream.                         *)
(***************************************************************************)

LEMMA StepKeepsOrder ==
    ASSUME TypeOK, NEW q \in Peers, intact[q] => InOrder(q), intact'[q],
           NEW p \in Peers, WriteMessage(p) \/ Step(p) \/ Stop(p)
    PROVE  InOrder(q)'
  <1>0. /\ Other[q] \in Peers /\ Other[q] # q /\ Other[Other[q]] = q
        /\ Other[p] \in Peers /\ Other[p] # p /\ Other[Other[p]] = p
    BY PeersAssumption
  <1>1. CASE WriteMessage(p)
    BY <1>1, OthersKeepOrder DEF WriteMessage, reader
  <1>2. CASE WriteMessageHeader(p)
    <2>1. CASE p = q
      <3>1. intact[q]
        BY <1>2, <2>1 DEF WriteMessageHeader, TypeOK
      <3>. QED
        BY <1>2, <2>1, <3>1, HeaderKeepsOrder
    <2>2. CASE p # q
      <3>1. /\ unsent'[q] = unsent[q] /\ wire'[q] = wire[q]
            /\ headers'[q] = headers[q] /\ intact[q]
        BY <1>2, <2>2 DEF WriteMessageHeader, AsyncWrite, TypeOK
      <3>. QED
        BY <1>2, <3>1, OthersKeepOrder DEF WriteMessageHeader, reader
    <2>. QED
      BY <2>1, <2>2
  <1>3. CASE WriteMessageBody(p)
    <2>1. CASE p = q
      <3>1. intact[q]
        BY <1>3, <2>1 DEF WriteMessageBody, TypeOK
      <3>. QED
        BY <1>3, <2>1, <3>1, BodyKeepsOrder
    <2>2. CASE p # q
      <3>1. /\ unsent'[q] = unsent[q] /\ wire'[q] = wire[q]
            /\ bodies'[q] = bodies[q] /\ intact[q]
        BY <1>3, <2>2 DEF WriteMessageBody, AsyncWrite, TypeOK
      <3>. QED
        BY <1>3, <3>1, OthersKeepOrder DEF WriteMessageBody, reader
    <2>. QED
      BY <2>1, <2>2
  <1>4. CASE Transfer(p)
    <2>1. intact[q] /\ p # q
      BY <1>4 DEF Transfer, InOrder
    <2>2. unsent'[q] = unsent[q] /\ wire'[q] = wire[q]
      BY <1>4, <2>1 DEF Transfer, TypeOK
    <2>. QED
      BY <1>4, <2>1, <2>2, OthersKeepOrder DEF Transfer, reader
  <1>5. CASE WriteFails(p) \/ ReadFails(p) \/ Stop(p)
    <2>1. CloseSocket(p)
      BY <1>5 DEF WriteFails, ReadFails, Stop
    <2>2. intact[q]
      BY <2>1 DEF CloseSocket
    <2>. QED
      BY <2>1, <2>2, ClosingKeepsOrder
  <1>6. CASE ReadMessageHeader(p)
    <2>1. CASE p = Other[q]
      BY <1>6, <2>1, ReadingHeaderKeepsOrder DEF ReadMessageHeader
    <2>2. CASE p # Other[q]
      <3>1. wire'[q] = wire[q] /\ reading'[Other[q]] = reading[Other[q]]
        <4>1. Other[p] # q
          BY <1>0, <2>2
        <4>2. wire' = [wire EXCEPT ![Other[p]] = Tail(@)]
              /\ \E n \in LengthsRead(Other[p], Head(wire[Other[p]])) :
                    reading' = [reading EXCEPT ![p] = InBody(n)]
          BY <1>6 DEF ReadMessageHeader
        <4>3. wire'[q] = wire[q]
          BY <4>1, <4>2 DEF TypeOK
        <4>4. PICK n \in LengthsRead(Other[p], Head(wire[Other[p]])) :
                 reading' = [reading EXCEPT ![p] = InBody(n)]
          BY <4>2
        <4>5. reading'[Other[q]] = reading[Other[q]]
          BY <1>0, <2>2, <4>4 DEF TypeOK
        <4>. QED
          BY <4>3, <4>5
      <3>. QED
        BY <1>6, <3>1, OthersKeepOrder DEF ReadMessageHeader, writer
    <2>. QED
      BY <2>1, <2>2
  <1>7. CASE ReceiveBody(p)
    <2>1. CASE p = Other[q]
      BY <1>7, <2>1, ReceivingKeepsOrder DEF ReceiveBody
    <2>2. CASE p # Other[q]
      <3>1. wire'[q] = wire[q] /\ reading'[Other[q]] = reading[Other[q]]
        BY <1>0, <1>7, <2>2 DEF ReceiveBody, TypeOK
      <3>. QED
        BY <1>7, <3>1, OthersKeepOrder DEF ReceiveBody, writer
    <2>. QED
      BY <2>1, <2>2
  <1>8. CASE ReadMessageBody(p)
    <2>1. CASE p = Other[q]
      BY <1>8, <2>1, ReadingBodyKeepsOrder DEF ReadMessageBody
    <2>2. CASE p # Other[q]
      <3>1. /\ reading'[Other[q]] = reading[Other[q]]
            /\ delivered'[Other[q]] = delivered[Other[q]]
        BY <1>0, <1>8, <2>2 DEF ReadMessageBody, TypeOK
      <3>. QED
        BY <1>8, <3>1, OthersKeepOrder DEF ReadMessageBody, writer
    <2>. QED
      BY <2>1, <2>2
  <1>. QED
    BY <1>1, <1>2, <1>3, <1>4, <1>5, <1>6, <1>7, <1>8 DEF Step

LEMMA OrderInit == Init => StreamInOrder
  <1>. SUFFICES ASSUME Init, NEW q \in Peers PROVE InOrder(q)
    BY DEF StreamInOrder
  <1>1. Other[q] \in Peers
    BY PeersAssumption
  <1>2. Len(<<>>) = 0
    OBVIOUS
  <1>3. ReadInOrder(Other[q], q)
    BY <1>1, <1>2 DEF Init, ReadInOrder, AtHeader
  <1>4. WireInOrder(Other[q], q)
    BY <1>1, <1>2 DEF Init, WireInOrder, AtHeader, ToSend, Expected
  <1>. QED
    BY <1>3, <1>4 DEF Init, InOrder

\* Reader and writer agree on the stream of every process whose messages did
\* not overlap and were sent at once, whatever the lengths, capacity and order
\* of the steps, whoever closes and whenever.
THEOREM StreamInvariance == Spec => []StreamInOrder
  <1>1. TypeOK /\ StreamInOrder /\ [Next]_vars => StreamInOrder'
    <2>. SUFFICES ASSUME TypeOK, StreamInOrder, [Next]_vars,
                         NEW q \in Peers, intact'[q]
                  PROVE  InOrder(q)'
      BY DEF StreamInOrder
    <2>1. CASE UNCHANGED vars
      BY <2>1, OthersKeepOrder DEF vars, writer, reader, StreamInOrder
    <2>2. CASE Next
      BY <2>2, StepKeepsOrder DEF Next, StreamInOrder
    <2>. QED
      BY <2>1, <2>2
  <1>. QED
    BY OrderInit, TypeInvariance, <1>1, PTL DEF Spec

-----------------------------------------------------------------------------
(***************************************************************************)
(* Refinement of MessageChannel.                                           *)
(***************************************************************************)

Numbers(p) == [i \in 1..Len(delivered[p]) |-> NumberOf(p, i)]

\* Handing out what has been read is a delivery of the abstract channel: of the
\* next message that was written, as long as the writer's messages are intact.
LEMMA ReadingDelivers ==
    ASSUME TypeOK, StreamInOrder, NEW p \in Peers, ReadMessageBody(p)
    PROVE  Channel!Deliver(p)
  <1>. DEFINE q == Other[p]
              n == Len(delivered[p])
              numbers == [x \in Peers |-> Numbers(x)]
  <1>1. /\ q \in Peers /\ Other[q] = p /\ BodyComplete(p)
        /\ delivered' = [delivered EXCEPT ![p] = Append(delivered[p], reading[p].data)]
        /\ UNCHANGED <<posted, headers, intact>>
    BY PeersAssumption DEF ReadMessageBody, writer
  <1>2. /\ n \in Nat /\ Len(delivered'[p]) = n + 1
        /\ \A i \in 1..n : delivered'[p][i] = delivered[p][i]
        /\ delivered'[p][n + 1] = reading[p].data
        /\ \A x \in Peers \ {p} : delivered'[x] = delivered[x]
    <2>1. /\ delivered[p] \in Seq(Seq(Units)) /\ reading[p].data \in Seq(Units)
          /\ delivered'[p] = Append(delivered[p], reading[p].data)
          /\ \A x \in Peers \ {p} : delivered'[x] = delivered[x]
      BY <1>1 DEF TypeOK
    <2>. QED
      BY <2>1, AppendProperties, LenProperties
  <1>k. PICK k \in Nat : k = n + 1
    BY <1>2
  <1>. DEFINE m == NumberOf(p, k)'
  <1>3. Numbers(p) \in Seq(Nat) /\ Len(Numbers(p)) = n /\ m \in 0..(n + 1)
    <2>1. \A i \in 1..n : NumberOf(p, i) \in Nat
      BY <1>2 DEF NumberOf
    <2>2. Numbers(p) \in [1..n -> Nat]
      BY <2>1 DEF Numbers
    <2>3. m = k \/ m = 0
      BY DEF NumberOf
    <2>. QED
      BY <1>k, <1>2, <2>2, <2>3, IsASeq, LenProperties
  <1>4. Numbers(p)' = Append(Numbers(p), m)
    <2>1. \A i \in 1..n : NumberOf(p, i)' = NumberOf(p, i)
      BY <1>2 DEF NumberOf, Body, Messages
    <2>2. Numbers(p)' = [i \in 1..n + 1 |-> NumberOf(p, i)']
      BY <1>2 DEF Numbers
    <2>3. m \in Nat
      BY <1>2, <1>3
    <2>4. /\ Append(Numbers(p), m) \in Seq(Nat)
          /\ Len(Append(Numbers(p), m)) = n + 1
          /\ \A i \in 1..n : Append(Numbers(p), m)[i] = Numbers(p)[i]
          /\ Append(Numbers(p), m)[n + 1] = m
      BY <1>3, <2>3, AppendProperties
    <2>5. \A i \in 1..n + 1 : Append(Numbers(p), m)[i] = NumberOf(p, i)'
      <3>. TAKE i \in 1..n + 1
      <3>1. CASE i \in 1..n
        BY <3>1, <2>1, <2>4 DEF Numbers
      <3>2. CASE i = k
        BY <1>k, <3>2, <2>4
      <3>3. i \in 1..n \/ i = k
        BY <1>k, <1>2
      <3>. QED
        BY <3>1, <3>2, <3>3
    <2>6. Append(Numbers(p), m) \in [1..n + 1 -> Nat]
      BY <2>4, LenProperties
    <2>. HIDE DEF m, n
    <2>. QED
      BY <2>2, <2>5, <2>6
  <1>5. ASSUME intact[q] PROVE m = n + 1 /\ m <= posted[q]
    <2>1. InOrder(q)
      BY <1>1, <1>5 DEF StreamInOrder
    <2>2. n + 1 <= headers[q] /\ reading[p].data = Body(q, n + 1)
      BY <1>1, <2>1, CompleteBodyIsMessage
    <2>3. n + 1 \in Messages(q) /\ n + 1 <= posted[q]
      BY <1>1, <1>2, <2>2, LengthsAssumption DEF TypeOK, Messages
    <2>. QED
      BY <1>k, <1>1, <1>2, <2>2, <2>3 DEF NumberOf, Body, Messages
  <1>6. [x \in Peers |-> Numbers(x)]' =
            [numbers EXCEPT ![p] = Append(numbers[p], m)]
    <2>1. \A x \in Peers \ {p} : Numbers(x)' = Numbers(x)
      BY <1>2 DEF Numbers, NumberOf, Body, Messages
    <2>. QED
      BY <1>4, <2>1
  <1>. QED
    BY <1>1, <1>3, <1>5, <1>6 DEF Channel!Deliver, Numbers

\* A session implements the channel, for all messages and capacities.
THEOREM SessionImplementsChannel == Spec => ImplementsChannel
  <1>1. Init => Channel!Init
    <2>. SUFFICES ASSUME Init PROVE Channel!Init
      OBVIOUS
    <2>1. \A p \in Peers : [i \in 1..Len(delivered[p]) |-> NumberOf(p, i)] = <<>>
      BY DEF Init
    <2>. QED
      BY <2>1 DEF Init, Channel!Init
  <1>2. TypeOK /\ StreamInOrder /\ [Next]_vars => [Channel!Next]_(Channel!vars)
    <2>. SUFFICES ASSUME TypeOK, StreamInOrder, [Next]_vars
                  PROVE  [Channel!Next]_(Channel!vars)
      OBVIOUS
    <2>. DEFINE numbers == [p \in Peers |-> [i \in 1..Len(delivered[p]) |-> NumberOf(p, i)]]
                broken == [p \in Peers |-> ~intact[p]]
    <2>1. UNCHANGED delivered => UNCHANGED numbers
      BY DEF NumberOf, Body, Messages
    <2>2. UNCHANGED <<posted, delivered, intact>> => UNCHANGED Channel!vars
      BY <2>1 DEF Channel!vars
    <2>3. CASE UNCHANGED vars
      BY <2>2, <2>3 DEF vars, writer, reader
    <2>4. ASSUME NEW p \in Peers, WriteMessage(p)
          PROVE  Channel!Write(p)
      BY <2>1, <2>4 DEF WriteMessage, reader, Channel!Write
    <2>5. ASSUME NEW p \in Peers, WriteMessageHeader(p) \/ WriteMessageBody(p)
          PROVE  Channel!Break(p) \/ UNCHANGED Channel!vars
      <3>1. UNCHANGED <<posted, delivered>>
        BY <2>5 DEF WriteMessageHeader, WriteMessageBody, reader
      <3>2. intact' = intact \/ intact' = [intact EXCEPT ![p] = FALSE]
        <4>1. PICK b \in BOOLEAN : intact' = [intact EXCEPT ![p] = @ /\ b]
          BY <2>5 DEF WriteMessageHeader, WriteMessageBody
        <4>2. CASE b
          BY <4>1, <4>2 DEF TypeOK
        <4>3. CASE ~b
          BY <4>1, <4>3 DEF TypeOK
        <4>. QED
          BY <4>2, <4>3
      <3>3. CASE intact' = intact
        BY <2>2, <3>1, <3>3
      <3>4. CASE intact' = [intact EXCEPT ![p] = FALSE]
        <4>1. broken' = [broken EXCEPT ![p] = TRUE]
          BY <3>4 DEF TypeOK
        <4>. QED
          BY <2>1, <3>1, <4>1 DEF Channel!Break
      <3>. QED
        BY <3>2, <3>3, <3>4
    <2>6. ASSUME NEW p \in Peers,
                 \/ Transfer(p) \/ WriteFails(p) \/ ReadFails(p) \/ Stop(p)
                 \/ ReadMessageHeader(p) \/ ReceiveBody(p)
          PROVE  UNCHANGED Channel!vars
      BY <2>2, <2>6 DEF Transfer, WriteFails, ReadFails, Stop, CloseSocket,
                        ReadMessageHeader, ReceiveBody, reader, writer
    <2>7. ASSUME NEW p \in Peers, ReadMessageBody(p)
          PROVE  Channel!Deliver(p)
      BY <2>7, ReadingDelivers
    <2>. QED
      BY <2>3, <2>4, <2>5, <2>6, <2>7 DEF Next, Step, Channel!Next
  <1>. QED
    BY <1>1, <1>2, TypeInvariance, StreamInvariance, PTL DEF Spec, ImplementsChannel, Channel!Spec
=============================================================================
