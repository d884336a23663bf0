-------------------------------- MODULE Codec --------------------------------
(***************************************************************************)
(* The frames of internal/protocol on one direction of a TCP connection: a *)
(* sender that writes what Encode returns, and a reader that calls         *)
(* ReadFrame in a loop.  TCP keeps the bytes in order and cuts them        *)
(* anywhere; a connection that breaks loses any number of the last ones.   *)
(***************************************************************************)
EXTENDS Naturals, SequencesExt

CONSTANTS Base,             \* values of a byte (256)
          LengthFieldSize,  \* 4 in the code
          TypeFieldSize,    \* 2 in the code
          MaxPacketSize,    \* 1 << 20 in the code
          MsgType, Body,    \* types and bodies that are sent
          MaxSent           \* bound: packets that are sent

Byte == 0 .. Base - 1

\* How many values the bytes of a field have.
Power[n \in 0 .. LengthFieldSize + TypeFieldSize] ==
  IF n = 0 THEN 1 ELSE Power[n - 1] * Base

ASSUME CodecAssumption ==
  /\ {Base, LengthFieldSize, TypeFieldSize, MaxPacketSize, MaxSent} \subseteq Nat \ {0}
  /\ Base > 1 /\ TypeFieldSize <= MaxPacketSize
  /\ MaxPacketSize < Power[LengthFieldSize]
  /\ MsgType \subseteq 0 .. Power[TypeFieldSize] - 1
  /\ \A body \in Body : body \in Seq(Byte)

VARIABLES sent,      \* the messages whose packets have been written
          open,      \* the connection has not been closed
          wire,      \* bytes on their way
          reader,    \* what ReadFrame waits for: "length", "payload"; or "failed"
          length,    \* the length that it has read last
          buf,       \* the buffer that io.ReadFull fills
          received   \* the messages that ReadFrame has returned

vars == <<sent, open, wire, reader, length, buf, received>>

Message == [type : MsgType, body : Body]

Need == IF reader = "payload" THEN length ELSE LengthFieldSize

TypeOK ==
  /\ sent \in Seq(Message) /\ Len(sent) <= MaxSent
  /\ open \in BOOLEAN
  /\ wire \in Seq(Byte)
  /\ reader \in {"length", "payload", "failed"}
  /\ length \in 0 .. MaxPacketSize
  /\ buf \in Seq(Byte) /\ Len(buf) <= Need
  /\ received \in Seq([type : 0 .. Power[TypeFieldSize] - 1, body : Seq(Byte)])

Init ==
  /\ sent = <<>> /\ wire = <<>> /\ received = <<>>
  /\ open = TRUE
  /\ reader = "length" /\ length = 0 /\ buf = <<>>

-----------------------------------------------------------------------------
\* binary.BigEndian: PutUint16 and PutUint32, and the way back.
Put(width, n) == [i \in 1 .. width |-> (n \div Power[width - i]) % Base]
Uint(bytes)   == FoldLeft(LAMBDA n, b : n * Base + b, 0, bytes)

PacketLength(msg) == TypeFieldSize + Len(msg.body)

\* MUTANT: the length counts its own field too.
EncodeWhole(msg) ==
  Put(LengthFieldSize, LengthFieldSize + PacketLength(msg))
    \o Put(TypeFieldSize, msg.type) \o msg.body

Encode(msg) ==
  Put(LengthFieldSize, PacketLength(msg)) \o Put(TypeFieldSize, msg.type) \o msg.body

\* A packet that Encode refuses is not sent.  A Write is not mixed with
\* another one: net.Conn sees to that.
Write(msg) ==
  /\ open /\ Len(sent) < MaxSent
  /\ PacketLength(msg) <= MaxPacketSize
  /\ sent' = Append(sent, msg)
  /\ wire' = wire \o Encode(msg)
  /\ UNCHANGED <<open, reader, length, buf, received>>

\* Either side closes the connection, or it breaks.
Break ==
  /\ open
  /\ open' = FALSE
  /\ \E n \in 0 .. Len(wire) : wire' = SubSeq(wire, 1, n)
  /\ UNCHANGED <<sent, reader, length, buf, received>>

-----------------------------------------------------------------------------
(* ReadFrame.                                                              *)

Waiting == reader # "failed" /\ Len(buf) < Need

\* MUTANT: a buffered reader that takes whatever there is.
ReadAhead ==
  /\ Waiting /\ wire # <<>>
  /\ buf' = buf \o wire
  /\ wire' = <<>>
  /\ UNCHANGED <<sent, open, reader, length, received>>

\* io.ReadFull calls Read until its buffer is full.
Read ==
  /\ Waiting
  /\ \E n \in 1 .. Len(wire) :
       /\ Len(buf) + n <= Need
       /\ buf' = buf \o SubSeq(wire, 1, n)
       /\ wire' = SubSeq(wire, n + 1, Len(wire))
  /\ UNCHANGED <<sent, open, reader, length, received>>

\* io.EOF or io.ErrUnexpectedEOF.
ReadFails ==
  /\ Waiting /\ wire = <<>> /\ ~open
  /\ reader' = "failed" /\ buf' = <<>>
  /\ UNCHANGED <<sent, open, wire, length, received>>

\* MUTANT: Read in the place of io.ReadFull.
FilledOnce == reader # "failed" /\ buf # <<>>

Filled == reader # "failed" /\ Len(buf) = Need

\* MUTANT: the largest packet is refused.
LegalBelow(n) == TypeFieldSize <= n /\ n < MaxPacketSize

Legal(n) == TypeFieldSize <= n /\ n <= MaxPacketSize

TakeLength ==
  /\ Filled /\ reader = "length"
  /\ IF Legal(Uint(buf))
     THEN reader' = "payload" /\ length' = Uint(buf)
     ELSE reader' = "failed" /\ UNCHANGED length
  /\ buf' = <<>>
  /\ UNCHANGED <<sent, open, wire, received>>

\* ReadFrame returns, and the loop around it calls it again.
TakeFrame ==
  /\ Filled /\ reader = "payload"
  /\ received' = Append(received,
                   [type |-> Uint(SubSeq(buf, 1, TypeFieldSize)),
                    body |-> SubSeq(buf, TypeFieldSize + 1, Len(buf))])
  /\ reader' = "length" /\ buf' = <<>>
  /\ UNCHANGED <<sent, open, wire, length>>

ReadFrame == Read \/ ReadFails \/ TakeLength \/ TakeFrame

\* The loop that calls ReadFrame ends with its first error.
Terminated == reader = "failed" /\ UNCHANGED vars

Next == (\E msg \in Message : Write(msg)) \/ Break \/ ReadFrame \/ Terminated

Spec == Init /\ [][Next]_vars

\* The reader's goroutine runs; nobody has to send anything.
FairSpec == Spec /\ WF_vars(ReadFrame)

-----------------------------------------------------------------------------
(***************************************************************************)
(* Properties                                                              *)
(***************************************************************************)

\* However the stream is cut, ReadFrame returns the messages that were sent,
\* in their order and with nothing in between.
ReadsWhatWasSent == IsPrefix(received, sent)

\* Whatever Encode accepts, the shortest and the longest packets included,
\* ReadFrame accepts too: it fails only when the connection has ended.
FailsOnlyWhenBroken == reader = "failed" => ~open

\* Each message is returned, an empty one too, and without the help of a later
\* one, unless the connection ends.
Delivered ==
  \A n \in 1 .. MaxSent : Len(sent) = n ~> Len(received) >= n \/ ~open
=============================================================================
