---------------------------- MODULE TcpConnProofs ----------------------------
(***************************************************************************)
(* A connection implements WriteStream for every set of messages, capacity *)
(* of the channel and number of writes.  What makes it so is where the     *)
(* accepted messages are: the socket has the first of them, then comes the *)
(* one in the writer's hands, then those in the channel, and a nil can     *)
(* only be the last entry there.                                           *)
(***************************************************************************)
EXTENDS TcpConn, SequenceTheorems, TLAPS

HasNil == writeChan # <<>> /\ writeChan[Len(writeChan)] = Nil
Queued == IF HasNil THEN Len(writeChan) - 1 ELSE Len(writeChan)
Behind == Len(wire) + Len(held)    (* accepted messages ahead of the channel *)

(* Nil is the last entry of the channel, and the flag is set by then.      *)
NilIsLast ==
  \A i \in 1..Len(writeChan) : writeChan[i] = Nil => i = Len(writeChan) /\ closeFlag

(* Where the accepted messages are.                                        *)
Places ==
  /\ Len(accepted) = Behind + Queued
  /\ \A i \in 1..Len(wire) : accepted[i] = wire[i]
  /\ \A i \in 1..Len(held) : accepted[Len(wire) + i] = held[i]
  /\ \A i \in 1..Queued : accepted[Behind + i] = writeChan[i]

(* What the writer knows at each of its steps.                             *)
WriterAt ==
  /\ chanClosed => closeFlag
  /\ writer = "range" => held = <<>>
  /\ writer = "write" => Len(held) = 1
  /\ conn = "closed" => writer \in {"flag", "done"}
  /\ writer \in {"close", "flag", "done"} /\ conn \in {"open", "closed"}
       => held = <<>> /\ writeChan = <<>> /\ closeFlag

ConnInv == TypeOK /\ NilIsLast /\ Places /\ WriterAt

-----------------------------------------------------------------------------
(* What Tail does, entry by entry.                                         *)
LEMMA TailFacts ==
  ASSUME NEW S, NEW s \in Seq(S), s # <<>>
  PROVE  /\ Tail(s) \in Seq(S)
         /\ Len(s) > 0 /\ Head(s) = s[1] /\ Len(Tail(s)) = Len(s) - 1
         /\ \A i \in 1..Len(Tail(s)) : Tail(s)[i] = s[i + 1]
OBVIOUS

LEMMA LastFacts ==
  ASSUME NEW S, NEW s \in Seq(S), NEW t \in Seq(S), Len(t) = 1
  PROVE  s \o t = Append(s, t[1])
<1>1. t = <<t[1]>> /\ t[1] \in S
  OBVIOUS
<1> QED
  BY <1>1, AppendIsConcat

(* Destroying the connection moves no message.                             *)
LEMMA DestroyInv ==
  ASSUME ConnInv, DoDestroy, UNCHANGED <<writer, held, wire>>
  PROVE  ConnInv'
<1> USE DEF ConnInv, DoDestroy
<1>1. TypeOK'
  BY CapAssumption DEF TypeOK
<1>2. NilIsLast'
  BY DEF NilIsLast
<1>3. Places'
  BY DEF Places, Queued, HasNil, Behind
<1>4. WriterAt'
  BY DEF WriterAt, TypeOK
<1> QED
  BY <1>1, <1>2, <1>3, <1>4

(* A message that is accepted takes the place behind all others.           *)
LEMMA WriteInv ==
  ASSUME ConnInv, NEW m \in Msgs, Write(m)
  PROVE  ConnInv'
<1>1. CASE Full
  BY <1>1, DestroyInv DEF Write
<1>2. CASE ~Full
  <2>1. ConnInv /\ TypeOK /\ ~closeFlag /\ Len(writeChan) < Cap /\ m # Nil
    BY <1>2, NilAssumption, CapAssumption DEF ConnInv, TypeOK, Write, Full
  <2>2. UNCHANGED <<chanClosed, closeFlag, conn, writer, held, wire>>
    BY <1>2 DEF Write, Put
  <2>3. /\ writeChan' \in Seq(Msgs \cup {Nil})
        /\ Len(writeChan') = Len(writeChan) + 1
        /\ writeChan'[Len(writeChan) + 1] = m
        /\ \A i \in 1..Len(writeChan) : writeChan'[i] = writeChan[i]
    <3> DEFINE S == Msgs \cup {Nil}
    <3>1. writeChan' = Append(writeChan, m) /\ writeChan \in Seq(S) /\ m \in S
      BY <1>2, <2>1 DEF Write, Put, TypeOK
    <3> QED
      BY <3>1, AppendProperties
  <2>4. /\ accepted' \in Seq(Msgs)
        /\ Len(accepted') = Len(accepted) + 1
        /\ accepted'[Len(accepted) + 1] = m
        /\ \A i \in 1..Len(accepted) : accepted'[i] = accepted[i]
    <3>1. accepted' = Append(accepted, m) /\ accepted \in Seq(Msgs)
      BY <1>2, <2>1 DEF Write, TypeOK
    <3> QED
      BY <3>1, AppendProperties
  <2>5. TypeOK'
    BY <2>1, <2>2, <2>3, <2>4, CapAssumption DEF TypeOK
  <2>6. NilIsLast' /\ WriterAt'
    <3>1. ASSUME NEW i \in 1..Len(writeChan'), writeChan'[i] = Nil
          PROVE  i = Len(writeChan') /\ closeFlag'
      <4>1. Len(writeChan) \in Nat
        BY <2>1 DEF TypeOK
      <4>2. i \notin 1..Len(writeChan)
        BY <2>1, <2>3, <3>1 DEF ConnInv, NilIsLast
      <4> QED
        BY <2>1, <2>3, <3>1, <4>1, <4>2
    <3>2. WriterAt'
      BY <2>1, <2>2 DEF ConnInv, WriterAt
    <3> QED
      BY <3>1, <3>2 DEF NilIsLast
  <2>7. /\ ~HasNil /\ ~HasNil' /\ Queued' = Queued + 1 /\ Queued = Len(writeChan)
        /\ Behind' = Behind /\ Behind \in Nat
    BY <2>1, <2>2, <2>3 DEF ConnInv, NilIsLast, HasNil, Queued, Behind, TypeOK
  <2>8. Places'
    <3>1. Len(accepted') = Behind' + Queued'
      BY <2>1, <2>4, <2>7 DEF ConnInv, Places, TypeOK
    <3>2. \A i \in 1..Len(wire') : accepted'[i] = wire'[i]
      BY <2>1, <2>2, <2>4, <2>7 DEF ConnInv, Places, TypeOK, Behind
    <3>3. ASSUME NEW i \in 1..Len(held')
          PROVE  accepted'[Len(wire') + i] = held'[i]
      <4>1. Len(wire) + i \in 1..Len(accepted)
        BY <2>1, <2>2, <2>7 DEF ConnInv, Places, TypeOK, Behind
      <4>2. accepted[Len(wire) + i] = held[i]
        BY <2>1, <2>2 DEF ConnInv, Places
      <4> QED
        BY <2>2, <2>4, <4>1, <4>2
    <3>4. ASSUME NEW i \in 1..Queued'
          PROVE  accepted'[Behind' + i] = writeChan'[i]
      <4>1. Len(accepted) = Behind + Queued
        BY <2>1 DEF ConnInv, Places
      <4>2. CASE i = Queued + 1
        BY <2>1, <2>3, <2>4, <2>7, <4>1, <4>2 DEF TypeOK
      <4>3. CASE i # Queued + 1
        <5>1. i \in 1..Queued /\ i \in 1..Len(writeChan) /\ Behind + i \in 1..Len(accepted)
          BY <2>1, <2>7, <4>1, <4>3 DEF TypeOK
        <5>2. accepted[Behind + i] = writeChan[i]
          BY <2>1, <5>1 DEF ConnInv, Places
        <5> QED
          BY <2>3, <2>4, <2>7, <5>1, <5>2
      <4> QED
        BY <4>2, <4>3
    <3> QED
      BY <3>1, <3>2, <3>3, <3>4 DEF Places
  <2> QED
    BY <2>5, <2>6, <2>8 DEF ConnInv
<1> QED
  BY <1>1, <1>2

(* Close puts its nil behind all messages.                                 *)
LEMMA CloseInv ==
  ASSUME ConnInv, Close
  PROVE  ConnInv'
<1>1. CASE Full
  BY <1>1, DestroyInv DEF Close
<1>2. CASE ~Full
  <2>1. ConnInv /\ TypeOK /\ ~closeFlag /\ Len(writeChan) < Cap
    BY <1>2, CapAssumption DEF ConnInv, TypeOK, Close, Full
  <2>2. closeFlag' /\ UNCHANGED <<chanClosed, conn, writer, held, wire, accepted>>
    BY <1>2 DEF Close, Put
  <2>3. /\ writeChan' \in Seq(Msgs \cup {Nil})
        /\ Len(writeChan') = Len(writeChan) + 1
        /\ writeChan'[Len(writeChan) + 1] = Nil
        /\ \A i \in 1..Len(writeChan) : writeChan'[i] = writeChan[i]
    <3> DEFINE S == Msgs \cup {Nil}
    <3>1. writeChan' = Append(writeChan, Nil) /\ writeChan \in Seq(S) /\ Nil \in S
      BY <1>2, <2>1 DEF Close, Put, TypeOK
    <3> QED
      BY <3>1, AppendProperties
  <2>4. closeFlag' = TRUE
    BY <1>2 DEF Close, Put
  <2>5. TypeOK'
    BY <2>1, <2>2, <2>3, <2>4, CapAssumption DEF TypeOK
  <2>6. NilIsLast' /\ WriterAt'
    <3>1. ASSUME NEW i \in 1..Len(writeChan'), writeChan'[i] = Nil
          PROVE  i = Len(writeChan') /\ closeFlag'
      <4>1. Len(writeChan) \in Nat
        BY <2>1 DEF TypeOK
      <4>2. i \notin 1..Len(writeChan)
        BY <2>1, <2>3, <3>1 DEF ConnInv, NilIsLast
      <4> QED
        BY <2>3, <2>4, <4>1, <4>2
    <3>2. WriterAt'
      BY <2>1, <2>2 DEF ConnInv, WriterAt
    <3> QED
      BY <3>1, <3>2 DEF NilIsLast
  <2>7. /\ HasNil' /\ Queued' = Queued /\ Queued = Len(writeChan)
        /\ Behind' = Behind
    BY <2>1, <2>2, <2>3 DEF ConnInv, NilIsLast, HasNil, Queued, Behind, TypeOK
  <2>8. Places'
    BY <2>1, <2>2, <2>3, <2>7 DEF ConnInv, Places, TypeOK
  <2> QED
    BY <2>5, <2>6, <2>8 DEF ConnInv
<1> QED
  BY <1>1, <1>2

(* The writer takes the message that is next, or the last entry, nil.      *)
LEMMA TakeInv ==
  ASSUME ConnInv, Take
  PROVE  ConnInv'
<1>1. TypeOK /\ NilIsLast /\ Places /\ WriterAt /\ writer = "range" /\ held = <<>>
  BY DEF ConnInv, Take, WriterAt
<1>2. UNCHANGED <<chanClosed, closeFlag, conn, accepted, wire>>
  BY DEF Take
<1>3. /\ writeChan' \in Seq(Msgs \cup {Nil})
      /\ Len(writeChan) > 0 /\ Head(writeChan) = writeChan[1]
      /\ Len(writeChan') = Len(writeChan) - 1
      /\ \A i \in 1..Len(writeChan') : writeChan'[i] = writeChan[i + 1]
  <2> DEFINE S == Msgs \cup {Nil}
  <2>1. writeChan' = Tail(writeChan) /\ writeChan \in Seq(S) /\ writeChan # <<>>
    BY <1>1 DEF Take, TypeOK
  <2> QED
    BY <2>1, TailFacts
<1>4. CASE writeChan[1] = Nil
  <2>1. Len(writeChan) = 1 /\ closeFlag
    BY <1>1, <1>3, <1>4 DEF NilIsLast, TypeOK
  <2>2. writeChan' = <<>> /\ HasNil /\ writer' = "close" /\ held' = <<>>
    BY <1>1, <1>3, <1>4, <2>1 DEF HasNil, Take, TypeOK
  <2>3. TypeOK'
    BY <1>1, <1>2, <1>3, <2>2, CapAssumption DEF TypeOK
  <2>4. NilIsLast' /\ WriterAt'
    BY <1>1, <1>2, <2>1, <2>2 DEF NilIsLast, WriterAt, TypeOK
  <2>5. Queued = 0 /\ Queued' = 0 /\ Behind' = Behind
    BY <1>1, <1>2, <2>1, <2>2 DEF Queued, HasNil, Behind
  <2>6. Places'
    BY <1>1, <1>2, <2>2, <2>5 DEF Places, TypeOK
  <2> QED
    BY <2>3, <2>4, <2>6 DEF ConnInv
<1>5. CASE writeChan[1] # Nil
  <2>1. writer' = "write" /\ held' = <<writeChan[1]>> /\ writeChan[1] \in Msgs
    BY <1>1, <1>3, <1>5 DEF Take, TypeOK
  <2>2. Len(held) = 0 /\ held' \in Seq(Msgs) /\ Len(held') = 1 /\ held'[1] = writeChan[1]
    BY <1>1, <2>1
  <2>3. TypeOK'
    BY <1>1, <1>2, <1>3, <2>1, <2>2, CapAssumption DEF TypeOK
  <2>4. NilIsLast' /\ WriterAt'
    <3>1. NilIsLast'
      BY <1>1, <1>2, <1>3 DEF NilIsLast, TypeOK
    <3>2. WriterAt'
      BY <1>1, <1>2, <2>1, <2>2 DEF WriterAt
    <3> QED
      BY <3>1, <3>2
  <2>5. /\ Queued' = Queued - 1 /\ Queued \in Nat /\ Queued > 0
        /\ Queued <= Len(writeChan)
        /\ Behind = Len(wire) /\ Behind' = Behind + 1 /\ Behind \in Nat
    BY <1>1, <1>2, <1>3, <1>5, <2>2 DEF Queued, HasNil, Behind, TypeOK
  <2>6. Places'
    <3>1. Len(accepted') = Behind' + Queued'
      <4>1. Len(accepted) = Behind + Queued
        BY <1>1 DEF Places
      <4> QED
        BY <1>2, <2>5, <4>1
    <3>2. \A i \in 1..Len(wire') : accepted'[i] = wire'[i]
      BY <1>1, <1>2 DEF Places
    <3>3. \A i \in 1..Len(held') : accepted'[Len(wire') + i] = held'[i]
      BY <1>1, <1>2, <2>2, <2>5 DEF Places, TypeOK
    <3>4. ASSUME NEW i \in 1..Queued'
          PROVE  accepted'[Behind' + i] = writeChan'[i]
      <4>1. i + 1 \in 1..Queued /\ i \in 1..Len(writeChan')
        BY <1>1, <1>3, <2>5 DEF TypeOK
      <4>2. accepted[Behind + (i + 1)] = writeChan[i + 1]
        BY <1>1, <4>1 DEF Places
      <4>3. Behind + (i + 1) = Behind' + i
        BY <2>5, <4>1
      <4> QED
        BY <1>2, <1>3, <4>1, <4>2, <4>3
    <3> QED
      BY <3>1, <3>2, <3>3, <3>4 DEF Places
  <2> QED
    BY <2>3, <2>4, <2>6 DEF ConnInv
<1> QED
  BY <1>4, <1>5

(* The socket gets the message in the writer's hands.                      *)
LEMMA WrittenInv ==
  ASSUME ConnInv, Written
  PROVE  /\ ConnInv'
         /\ Len(wire) < Len(accepted)
         /\ wire' = Append(wire, accepted[Len(wire) + 1])
<1>0. TypeOK /\ NilIsLast /\ Places /\ WriterAt /\ writer = "write" /\ conn = "open"
  BY DEF ConnInv, Written
<1>a. Len(held) = 1 /\ held \in Seq(Msgs)
  BY <1>0 DEF WriterAt, TypeOK
<1>1. /\ TypeOK /\ NilIsLast /\ Places /\ WriterAt /\ writer = "write"
      /\ Len(held) = 1 /\ held[1] \in Msgs /\ conn = "open"
  BY <1>0, <1>a
<1>2. /\ UNCHANGED <<writeChan, chanClosed, closeFlag, conn, accepted>>
      /\ held' = <<>> /\ writer' = "range"
  BY DEF Written
<1>3. wire' = Append(wire, held[1])
  BY <1>0, <1>a, LastFacts DEF Written, TypeOK
<1>4. /\ wire' \in Seq(Msgs) /\ Len(wire') = Len(wire) + 1
      /\ wire'[Len(wire) + 1] = held[1]
      /\ \A i \in 1..Len(wire) : wire'[i] = wire[i]
  BY <1>1, <1>3, AppendProperties DEF TypeOK
<1>5. Queued' = Queued /\ Behind' = Behind /\ Queued \in Nat /\ Behind = Len(wire) + 1
  BY <1>1, <1>2, <1>4 DEF Queued, HasNil, Behind, TypeOK
<1>6. accepted[Len(wire) + 1] = held[1] /\ Len(wire) < Len(accepted)
  BY <1>1, <1>5 DEF Places, TypeOK
<1>7. TypeOK' /\ NilIsLast' /\ WriterAt'
  <2>1. TypeOK'
    BY <1>1, <1>2, <1>4 DEF TypeOK
  <2>2. NilIsLast' /\ WriterAt'
    BY <1>1, <1>2 DEF NilIsLast, WriterAt
  <2> QED
    BY <2>1, <2>2
<1>8. Places'
  <2>1. Len(accepted') = Behind' + Queued'
    BY <1>1, <1>2, <1>5 DEF Places
  <2>2. ASSUME NEW i \in 1..Len(wire')
        PROVE  accepted'[i] = wire'[i]
    <3>1. CASE i \in 1..Len(wire)
      BY <1>1, <1>2, <1>4, <3>1 DEF Places
    <3>2. CASE i \notin 1..Len(wire)
      <4>1. i = Len(wire) + 1
        BY <1>1, <1>4, <3>2 DEF TypeOK
      <4> QED
        BY <1>2, <1>4, <1>6, <4>1
    <3> QED
      BY <3>1, <3>2
  <2>3. \A i \in 1..Len(held') : accepted'[Len(wire') + i] = held'[i]
    BY <1>2
  <2>4. \A i \in 1..Queued' : accepted'[Behind' + i] = writeChan'[i]
    BY <1>1, <1>2, <1>5 DEF Places
  <2> QED
    BY <2>1, <2>2, <2>3, <2>4 DEF Places
<1> QED
  BY <1>3, <1>6, <1>7, <1>8 DEF ConnInv

(* Steps that move no message and leave the flag or raise it.              *)
LEMMA QuietInv ==
  ASSUME ConnInv, Lose \/ RangeEnds \/ WriteFails \/ CloseConn \/ SetFlag
  PROVE  ConnInv'
<1> USE DEF ConnInv, Lose, RangeEnds, WriteFails, CloseConn, SetFlag
<1>1. TypeOK'
  BY DEF TypeOK
<1>2. NilIsLast'
  BY DEF NilIsLast
<1>3. Places'
  BY DEF Places, Queued, HasNil, Behind
<1>4. WriterAt'
  BY DEF WriterAt, TypeOK
<1> QED
  BY <1>1, <1>2, <1>3, <1>4

LEMMA InitInv == Init => ConnInv
<1> SUFFICES ASSUME Init PROVE ConnInv
  OBVIOUS
<1>1. TypeOK
  <2>1. Len(writeChan) <= Cap /\ Len(held) <= 1
    BY CapAssumption DEF Init
  <2>2. writeChan \in Seq(Msgs \cup {Nil}) /\ held \in Seq(Msgs) /\ accepted \in Seq(Msgs) /\ wire \in Seq(Msgs)
    BY DEF Init
  <2> QED
    BY <2>1, <2>2 DEF Init, TypeOK
<1>4. NilIsLast /\ WriterAt
  BY DEF Init, NilIsLast, WriterAt
<1>2. Queued = 0 /\ Behind = 0 /\ Len(accepted) = 0
  BY DEF Init, Queued, HasNil, Behind
<1>3. Places
  BY <1>2 DEF Init, Places
<1> QED
  BY <1>1, <1>3, <1>4 DEF ConnInv

LEMMA NextInv ==
  ASSUME ConnInv, [Next]_vars
  PROVE  ConnInv'
<1>1. CASE UNCHANGED vars
  BY <1>1 DEF vars, ConnInv, TypeOK, NilIsLast, Places, Queued, HasNil, Behind, WriterAt
<1>2. CASE Next
  BY <1>2, WriteInv, CloseInv, DestroyInv, TakeInv, WrittenInv, QuietInv
     DEF Next, Writer, Destroy
<1> QED
  BY <1>1, <1>2

(* The invariant: every accepted message is on the socket, in the writer's *)
(* hands or in the channel of newTCPConn, in this order.                   *)
THEOREM ConnInvariant == Spec => []ConnInv
<1>1. ConnInv /\ [Next]_vars => ConnInv'
  BY NextInv
<1> QED
  BY InitInv, <1>1, PTL DEF Spec

(* Types, and the channel keeps its capacity.                              *)
THEOREM ConnTypes == Spec => []TypeOK
<1>1. ConnInv => TypeOK
  BY DEF ConnInv
<1> QED
  BY ConnInvariant, <1>1, PTL

-----------------------------------------------------------------------------
(* Every step of the connection is a step of WriteStream or none.          *)
LEMMA NextMaps ==
  ASSUME ConnInv, [Next]_vars
  PROVE  [Stream!Next]_<<accepted, wire, closeFlag, StreamEnd>>
<1> USE DEF Stream!Next, StreamEnd
<1>1. CASE UNCHANGED vars
  BY <1>1 DEF vars
<1>2. ASSUME DoDestroy, UNCHANGED wire
      PROVE  Stream!Cut \/ Stream!Close \/ UNCHANGED <<accepted, wire, closeFlag, StreamEnd>>
  BY <1>2 DEF DoDestroy, Stream!Cut, Stream!Close, ConnInv, TypeOK
<1>3. ASSUME NEW m \in Msgs, Write(m)
      PROVE  [Stream!Next]_<<accepted, wire, closeFlag, StreamEnd>>
  BY <1>2, <1>3 DEF Write, Put, Stream!Accept
<1>4. CASE Close
  BY <1>2, <1>4 DEF Close, Put, Stream!Close
<1>5. CASE Destroy
  BY <1>2, <1>5 DEF Destroy
<1>6. CASE Lose
  BY <1>6 DEF Lose, Stream!Cut
<1>7. CASE Written
  <2>1. Stream!Send
    BY <1>7, WrittenInv DEF Written, Stream!Send
  <2> QED
    BY <2>1
<1>8. CASE Take \/ RangeEnds \/ WriteFails
  BY <1>8 DEF Take, RangeEnds, WriteFails
<1>9. CASE CloseConn
  <2>1. CASE conn = "open"
    <3>1. wire = accepted /\ closeFlag
      BY <1>9, <2>1 DEF CloseConn, ConnInv, TypeOK, WriterAt, Places, Queued, HasNil, Behind
    <3> QED
      BY <1>9, <2>1, <3>1 DEF CloseConn, Stream!Drained
  <2>2. CASE conn # "open"
    BY <1>9, <2>2 DEF CloseConn
  <2> QED
    BY <2>1, <2>2
<1>10. CASE SetFlag
  BY <1>10 DEF SetFlag, Stream!Close, ConnInv, TypeOK
<1> QED
  BY <1>1, <1>3, <1>4, <1>5, <1>6, <1>7, <1>8, <1>9, <1>10 DEF Next, Writer

(* A connection implements WriteStream: messages reach the socket in the   *)
(* order of their writes, and all of them unless the connection is cut.    *)
THEOREM StreamImplemented == Spec => ImplementsStream
<1>1. Init => Stream!Init
  BY DEF Init, Stream!Init, StreamEnd
<1>2. ConnInv /\ [Next]_vars => [Stream!Next]_<<accepted, wire, closeFlag, StreamEnd>>
  BY NextMaps
<1> QED
  BY ConnInvariant, <1>1, <1>2, PTL DEF Spec, ImplementsStream, Stream!Spec

(* Nothing is sent to a closed channel of newTCPConn, nor behind its nil.  *)
THEOREM ChannelStaysFinal == Spec => ChannelIsFinal
<1> DEFINE Ended == chanClosed \/ (\E i \in DOMAIN writeChan : writeChan[i] = Nil)
           Final == Ended => Len(writeChan') <= Len(writeChan) /\ closeFlag
<1>1. ASSUME ConnInv, [Next]_vars, Ended
      PROVE  Len(writeChan') <= Len(writeChan) /\ closeFlag
  <2>1. closeFlag
    BY <1>1 DEF ConnInv, NilIsLast, WriterAt, TypeOK
  <2>2. writeChan' = writeChan \/ Take
    BY <1>1, <2>1 DEF vars, Next, Writer, Write, Close, Destroy, DoDestroy, Lose, Written,
         RangeEnds, WriteFails, CloseConn, SetFlag
  <2>3. CASE Take
    <3> DEFINE S == Msgs \cup {Nil}
    <3>1. writeChan \in Seq(S) /\ writeChan # <<>> /\ writeChan' = Tail(writeChan)
      BY <1>1, <2>3 DEF Take, ConnInv, TypeOK
    <3>2. Len(writeChan') = Len(writeChan) - 1 /\ Len(writeChan) \in Nat
      BY <3>1, TailFacts
    <3> QED
      BY <2>1, <3>2
  <2>4. CASE writeChan' = writeChan
    BY <1>1, <2>1, <2>4 DEF ConnInv, TypeOK
  <2> QED
    BY <2>2, <2>3, <2>4
<1>2. ConnInv /\ [Next]_vars => [Final]_vars
  BY <1>1
<1> QED
  BY ConnInvariant, <1>2, PTL DEF Spec, ChannelIsFinal
=============================================================================
