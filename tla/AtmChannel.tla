------------------------------- MODULE AtmChannel -------------------------------
(***************************************************************************)
(* What one direction of a connection promises: messages arrive whole, in  *)
(* order and once each, until the receiver ends; one that does not fit the *)
(* receiver's buffer is never taken, nor is anything behind it.            *)
(***************************************************************************)
EXTENDS Naturals, Sequences

CONSTANTS
  Texts,            \* messages
  BufferSize        \* bytes of the receiver's buffer

VARIABLES
  put,              \* messages the sender has begun to send
  taken,            \* messages the receiver has got
  ended             \* the receiver has given up the connection

channelVars == <<put, taken, ended>>

(* A byte is kept for the end of the string.                               *)
Fits(m) == Len(m) + 1 <= BufferSize

Init == put = << >> /\ taken = << >> /\ ended = FALSE

Put(m) == put' = Append(put, m) /\ UNCHANGED <<taken, ended>>

Take ==
  /\ ~ended
  /\ Len(taken) < Len(put)
  /\ Fits(put[Len(taken) + 1])
  /\ taken' = Append(taken, put[Len(taken) + 1])
  /\ UNCHANGED <<put, ended>>

End == ended' = TRUE /\ UNCHANGED <<put, taken>>

Next == (\E m \in Texts : Put(m)) \/ Take \/ End

Spec == Init /\ [][Next]_channelVars
===============================================================================
