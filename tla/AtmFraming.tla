------------------------------- MODULE AtmFraming -------------------------------
(***************************************************************************)
(* send_message and receive_message of src/src/protocol.c: a message goes  *)
(* out as its length, most significant byte first, and its bytes.  One     *)
(* call of send takes any part of what is left to write, one call of recv  *)
(* returns any part of what has arrived, and either may fail; TCP keeps    *)
(* the order.  One direction of one connection.                            *)
(*                                                                         *)
(* Bytes are numbers below Base and the length field has LengthBytes of    *)
(* them: 256 and 4 in the code.  A definition named Slip... is the one     *)
(* after it with a mistake in it.                                          *)
(***************************************************************************)
EXTENDS Naturals, Sequences

CONSTANTS
  Base, LengthBytes,
  Texts,            \* messages: C strings, so no byte is 0
  BufferSize,       \* the receiver's buffer
  SocketBuffer,     \* bytes that may be under way
  MaxMessages       \* bound: messages ever sent

ASSUME BaseAssumption == Base \in Nat \ {0, 1} /\ LengthBytes \in Nat \ {0}
ASSUME TextsAssumption == Texts \subseteq Seq(1 .. Base - 1)
ASSUME BufferAssumption == BufferSize \in Nat \ {0} /\ SocketBuffer \in Nat \ {0}

VARIABLES
  put,              \* messages send_message was called for
  unsent,           \* bytes of the last one that send has not taken
  sending,          \* the sender's end is open
  wire,             \* bytes taken by send and not returned by recv
  part,             \* what receive_message reads: "length", "text", "drain", or
                    \* "ended" once it has returned 0
  left,             \* bytes of that part still to read
  buffer,           \* bytes of it that were read
  received          \* messages receive_message returned

senderVars == <<put, unsent, sending>>
receiverVars == <<part, left, buffer, received>>
vars == <<senderVars, wire, receiverVars>>

(* htonl and ntohl: Shifted(n)[k] is n without its k lowest bytes.         *)
Shifted(n) ==
  LET shifted[k \in 0 .. LengthBytes] == IF k = 0 THEN n ELSE shifted[k - 1] \div Base
  IN  shifted
FitsField(n) == Shifted(n)[LengthBytes] = 0
LengthField(n) == [k \in 1 .. LengthBytes |-> Shifted(n)[LengthBytes - k] % Base]
FieldValue(bytes) ==
  LET value[k \in 0 .. LengthBytes] == IF k = 0 THEN 0 ELSE value[k - 1] * Base + bytes[k]
  IN  value[LengthBytes]

Init ==
  /\ put = << >> /\ unsent = << >> /\ sending = TRUE
  /\ wire = << >>
  /\ part = "length" /\ left = LengthBytes /\ buffer = << >>
  /\ received = << >>

-------------------------------------------------------------------------------
SlipFrame(m) == LengthField(Len(m) + 1) \o m
Frame(m) == LengthField(Len(m)) \o m

(* A message too long for the length field is refused.                     *)
SendMessage(m) ==
  /\ sending
  /\ unsent = << >>
  /\ Len(put) < MaxMessages
  /\ FitsField(Len(m))
  /\ put' = Append(put, m)
  /\ unsent' = Frame(m)
  /\ UNCHANGED <<sending, wire, receiverVars>>

(* A short write taken for a whole one.                                    *)
SlipRest(bytes, n) == << >>
Rest(bytes, n) == SubSeq(bytes, n + 1, Len(bytes))

(* One call of send in write_all.                                          *)
Write ==
  /\ sending
  /\ unsent # << >>
  /\ \E n \in 1 .. Len(unsent) :
       /\ Len(wire) + n <= SocketBuffer
       /\ wire' = wire \o SubSeq(unsent, 1, n)
       /\ unsent' = Rest(unsent, n)
  /\ UNCHANGED <<put, sending, receiverVars>>

(* A send that fails, or a sender that is done: it closes, and what it     *)
(* wrote still arrives, or is lost if the connection was reset.            *)
Close ==
  /\ sending
  /\ sending' = FALSE
  /\ unsent' = << >>
  /\ wire' \in {wire, << >>}
  /\ UNCHANGED <<put, receiverVars>>

-------------------------------------------------------------------------------
SlipTooLong(length) == length > BufferSize
TooLong(length) == length >= BufferSize

(* The next message: its length first.                                     *)
NextMessage ==
  /\ part' = "length"
  /\ left' = LengthBytes
  /\ buffer' = << >>

(* read_all has all of the length, and decides how to read the text.       *)
LengthRead(bytes) ==
  LET length == FieldValue(bytes)
  IN  IF length = 0
        THEN NextMessage /\ received' = Append(received, << >>)
        ELSE /\ part' = IF TooLong(length) THEN "drain" ELSE "text"
             /\ left' = length
             /\ buffer' = << >>
             /\ UNCHANGED received

TextRead(bytes) == NextMessage /\ received' = Append(received, bytes)

(* drain_bytes has read the whole text, and receive_message returns 0.     *)
Drained ==
  /\ part' = "ended"
  /\ left' = 0
  /\ buffer' = << >>
  /\ UNCHANGED received

PartRead(bytes) ==
  \/ part = "length" /\ LengthRead(bytes)
  \/ part = "text" /\ TextRead(bytes)
  \/ part = "drain" /\ Drained

(* One call of recv in read_all; what is drained is not kept.              *)
Read ==
  /\ part # "ended"
  /\ \E n \in 1 .. Len(wire) :
       /\ n <= left
       /\ LET bytes == IF part = "drain" THEN << >> ELSE buffer \o SubSeq(wire, 1, n)
          IN  IF n = left
                THEN PartRead(bytes)
                ELSE /\ left' = left - n
                     /\ buffer' = bytes
                     /\ UNCHANGED <<part, received>>
       /\ wire' = SubSeq(wire, n + 1, Len(wire))
  /\ UNCHANGED senderVars

(* recv returns 0 or an error: receive_message returns 0, and the          *)
(* connection is closed.                                                   *)
ReadEnd ==
  /\ part # "ended"
  /\ wire = << >>
  /\ ~sending
  /\ part' = "ended"
  /\ left' = 0
  /\ buffer' = << >>
  /\ UNCHANGED <<senderVars, wire, received>>

Next ==
  \/ \E m \in Texts : SendMessage(m)
  \/ Write \/ Close \/ Read \/ ReadEnd

Spec == Init /\ [][Next]_vars

(* send and recv return once there is room or there are bytes, and both    *)
(* functions loop until they are done.                                     *)
FairSpec == Spec /\ WF_vars(Write) /\ WF_vars(Read) /\ WF_vars(ReadEnd)

-------------------------------------------------------------------------------
(* Types; the receiver never reads more of a part than is due, nor more    *)
(* than its buffer holds with the end of the string.                       *)
TypeOK ==
  /\ put \in Seq(Texts)
  /\ unsent \in Seq(0 .. Base - 1) /\ wire \in Seq(0 .. Base - 1)
  /\ Len(wire) <= SocketBuffer
  /\ sending \in BOOLEAN
  /\ part \in {"length", "text", "drain", "ended"}
  /\ part = "ended" <=> left = 0
  /\ part = "length" => Len(buffer) + left = LengthBytes
  /\ part = "text" => Len(buffer) + left + 1 <= BufferSize
  /\ received \in Seq(Seq(1 .. Base - 1))

(* However send and recv cut the bytes up, and wherever the connection     *)
(* breaks: messages arrive whole, in order and once.                       *)
Channel == INSTANCE AtmChannel WITH taken <- received, ended <- (part = "ended")

ImplementsChannel == Channel!Spec

(* A message that is sent arrives, unless the sender's end closes or the   *)
(* receiver has met a message too long for its buffer.                     *)
EveryMessageArrives ==
  \A k \in 1 .. MaxMessages :
    Len(put) >= k ~> Len(received) >= k \/ ~sending \/ part = "ended"
===============================================================================
