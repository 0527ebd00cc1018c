------------------------------- MODULE TcpConn -------------------------------
(***************************************************************************)
(* A connection of the server (leaf/network/tcp_conn.go; ws_conn.go is the *)
(* same program over a websocket): a bounded channel of messages between   *)
(* the goroutines that call Write, Close and Destroy, all under one mutex, *)
(* and a writer goroutine that hands the messages to the socket.           *)
(*                                                                         *)
(* Write, Close and Destroy are one step each: they hold the mutex, only   *)
(* its holder sends to the channel, and it sends only after it has seen    *)
(* room there, so it never waits.  The writer takes the mutex only for its *)
(* last step.                                                              *)
(***************************************************************************)
EXTENDS Integers, Sequences

CONSTANTS Msgs,
          Nil,      (* the message that tells the writer to stop             *)
          Cap,      (* PendingWriteNum                                       *)
          MaxWrites (* BOUND: messages accepted by the connection            *)

ASSUME NilAssumption  == Nil \notin Msgs
ASSUME CapAssumption  == Cap \in Nat \ {0}
ASSUME WritesAssumption == MaxWrites \in Nat

VARIABLES
  writeChan, (* the channel                                                  *)
  chanClosed,(* has it been closed                                           *)
  closeFlag,
  conn,      (* the socket: "open", "lost" by the network, "destroyed", or   *)
             (* "closed" by the writer                                       *)
  writer,    (* the writer: "range", "write", "close", "flag", "done"        *)
  held,      (* <<>> or the message the writer took and has not written      *)
  accepted,  (* HISTORY: the messages that went into the channel             *)
  wire       (* HISTORY: the messages the socket took                        *)

vars == <<writeChan, chanClosed, closeFlag, conn, writer, held, accepted, wire>>

Init ==
  /\ writeChan = <<>> /\ chanClosed = FALSE /\ closeFlag = FALSE
  /\ conn = "open" /\ writer = "range" /\ held = <<>>
  /\ accepted = <<>> /\ wire = <<>>

-----------------------------------------------------------------------------
(* The callers.                                                            *)

(* MUTANT: leaves the channel open.                                        *)
DestroyKeepsChannel ==
  /\ conn' = IF conn = "closed" THEN conn ELSE "destroyed"
  /\ closeFlag' = TRUE
  /\ UNCHANGED <<writeChan, chanClosed, accepted>>
DoDestroy ==
  /\ conn' = IF conn = "closed" THEN conn ELSE "destroyed"
  /\ chanClosed' = (chanClosed \/ ~closeFlag)
  /\ closeFlag' = TRUE
  /\ UNCHANGED <<writeChan, accepted>>

Full == Len(writeChan) = Cap

(* doWrite: a full channel destroys the connection.                        *)
Put(b) ==
  /\ writeChan' = Append(writeChan, b)
  /\ UNCHANGED <<conn, chanClosed>>

Write(m) ==
  /\ ~closeFlag /\ Len(accepted) < MaxWrites
  /\ IF Full THEN DoDestroy
     ELSE /\ Put(m) /\ accepted' = Append(accepted, m)
          /\ UNCHANGED closeFlag
  /\ UNCHANGED <<writer, held, wire>>

(* MUTANTS: does not look at closeFlag; nil jumps the queue.               *)
CloseTwice ==
  /\ IF Full THEN DoDestroy
     ELSE Put(Nil) /\ closeFlag' = TRUE /\ UNCHANGED accepted
  /\ UNCHANGED <<writer, held, wire>>
CloseJumps ==
  /\ ~closeFlag
  /\ IF Full THEN DoDestroy
     ELSE /\ writeChan' = <<Nil>> \o writeChan /\ closeFlag' = TRUE
          /\ UNCHANGED <<conn, chanClosed, accepted>>
  /\ UNCHANGED <<writer, held, wire>>
Close ==
  /\ ~closeFlag
  /\ IF Full THEN DoDestroy
     ELSE Put(Nil) /\ closeFlag' = TRUE /\ UNCHANGED accepted
  /\ UNCHANGED <<writer, held, wire>>

Destroy == DoDestroy /\ UNCHANGED <<writer, held, wire>>

-----------------------------------------------------------------------------
(* The writer goroutine, and the network.                                  *)

Lose ==
  /\ conn = "open" /\ conn' = "lost"
  /\ UNCHANGED <<writeChan, chanClosed, closeFlag, writer, held, accepted, wire>>

Take ==
  /\ writer = "range" /\ writeChan # <<>>
  /\ writeChan' = Tail(writeChan)
  /\ IF Head(writeChan) = Nil THEN writer' = "close" /\ held' = <<>>
     ELSE writer' = "write" /\ held' = <<Head(writeChan)>>
  /\ UNCHANGED <<chanClosed, closeFlag, conn, accepted, wire>>

RangeEnds ==
  /\ writer = "range" /\ writeChan = <<>> /\ chanClosed
  /\ writer' = "close"
  /\ UNCHANGED <<writeChan, chanClosed, closeFlag, conn, held, accepted, wire>>

(* The socket takes the message; it may make the writer wait for that.     *)
Written ==
  /\ writer = "write" /\ conn = "open"
  /\ wire' = wire \o held /\ held' = <<>>
  /\ writer' = "range"
  /\ UNCHANGED <<writeChan, chanClosed, closeFlag, conn, accepted>>

WriteFails ==
  /\ writer = "write" /\ conn # "open"
  /\ writer' = "close"
  /\ UNCHANGED <<writeChan, chanClosed, closeFlag, conn, held, accepted, wire>>

CloseConn ==
  /\ writer = "close"
  /\ conn' = IF conn = "open" THEN "closed" ELSE conn
  /\ writer' = "flag"
  /\ UNCHANGED <<writeChan, chanClosed, closeFlag, held, accepted, wire>>

SetFlag ==
  /\ writer = "flag"
  /\ closeFlag' = TRUE
  /\ writer' = "done"
  /\ UNCHANGED <<writeChan, chanClosed, conn, held, accepted, wire>>

Writer == Take \/ RangeEnds \/ WriteFails \/ CloseConn \/ SetFlag

Next == \/ \E m \in Msgs : Write(m)
        \/ Close \/ Destroy
        \/ Lose \/ Written \/ Writer

Spec == Init /\ [][Next]_vars

(* The writer runs; whether the socket ever takes a message is up to the   *)
(* peer.                                                                   *)
FairSpec == Spec /\ WF_vars(Writer)

-----------------------------------------------------------------------------
(* Properties.                                                             *)

(* Types; the channel never holds more than its capacity, so a sender that *)
(* holds the mutex never waits for the writer.                             *)
TypeOK ==
  /\ writeChan \in Seq(Msgs \cup {Nil}) /\ Len(writeChan) <= Cap
  /\ chanClosed \in BOOLEAN /\ closeFlag \in BOOLEAN
  /\ conn \in {"open", "lost", "destroyed", "closed"}
  /\ writer \in {"range", "write", "close", "flag", "done"}
  /\ held \in Seq(Msgs) /\ Len(held) <= 1
  /\ accepted \in Seq(Msgs) /\ wire \in Seq(Msgs)

(* What the accepted messages have come to is one of the two ends of       *)
(* WriteStream, whatever order Write, Close, Destroy, the writer and the   *)
(* network take their steps in: a prefix reaches the socket, and all of it *)
(* when the writer closes a socket that was still good.                    *)
StreamEnd == IF conn = "open" THEN "none"
             ELSE IF conn = "closed" THEN "drained" ELSE "cut"
Stream == INSTANCE WriteStream WITH sent <- wire, closing <- closeFlag, end <- StreamEnd
ImplementsStream == Stream!Spec

(* Nothing is sent to a closed channel and it is not closed again, which   *)
(* would end the program; nor does anything follow the nil of Close.       *)
ChannelIsFinal ==
  [][ chanClosed \/ (\E i \in DOMAIN writeChan : writeChan[i] = Nil)
        => /\ Len(writeChan') <= Len(writeChan)
           /\ closeFlag ]_vars

(* A destroyed connection gets rid of its writer even if the peer reads    *)
(* nothing; after Close that takes a peer that reads.                      *)
DestroyEndsWriter == conn = "destroyed" ~> writer = "done"
CloseEndsWriter   == WF_vars(Written) => (closeFlag ~> writer = "done")
WriterEnds        == DestroyEndsWriter /\ CloseEndsWriter
=============================================================================
