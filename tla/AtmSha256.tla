------------------------------- MODULE AtmSha256 -------------------------------
(***************************************************************************)
(* What sha256 (src/src/sha256.c) feeds to its compression function when   *)
(* auth.c and account.c hash a salt, a user name and a password, or a salt *)
(* and the digits of a PIN: the input is put together in a buffer of fixed *)
(* size, absorbed byte by byte, and padded.  The state of the hash is the  *)
(* sequence of blocks compressed so far: with a compression function that  *)
(* has no collisions it determines the digest.                             *)
(*                                                                         *)
(* A byte of the input is named by the part it comes from and its place    *)
(* there; other bytes are numbers.  A definition named Slip... is the one  *)
(* after it with a mistake in it.                                          *)
(***************************************************************************)
EXTENDS Integers, SequencesExt

CONSTANTS
  BlockSize,        \* bytes of a block
  LengthSize,       \* bytes of the length at the end of the last block
  InputSize,        \* bytes of hash_input
  SaltSize,         \* bytes of a salt
  UserLengths, WordLengths,   \* lengths of user names, of passwords and PINs
  Garbage           \* a byte of the context nobody has written

ASSUME SizesAssumption ==
  /\ BlockSize \in Nat /\ InputSize \in Nat
  /\ LengthSize \in 1 .. BlockSize - 1
  /\ SaltSize \in 0 .. InputSize
ASSUME LengthsAssumption == UserLengths \union WordLengths \subseteq Nat

VARIABLES
  user, word,       \* the lengths of the two parts after the salt
  taken,            \* bytes of the input absorbed
  data, datalen, bitlen,    \* the fields of Sha256Ctx
  blocks,           \* its state: the blocks compressed
  done              \* sha256_final has run

parts == <<user, word>>
context == <<data, datalen, bitlen, blocks>>
vars == <<parts, taken, context, done>>

-------------------------------------------------------------------------------
(* The input.                                                              *)
Part(name, length) == [k \in 1 .. length |-> <<name, k>>]

(* A part that does not fit into the rest of hash_input is left out.       *)
AppendPart(input, part) ==
  IF Len(input) + Len(part) <= InputSize THEN input \o part ELSE input

HashInput ==
  AppendPart(AppendPart(AppendPart(<<>>, Part("salt", SaltSize)),
                        Part("user", user)),
             Part("word", word))

-------------------------------------------------------------------------------
Transform(compressed, block) == Append(compressed, block)

Init ==
  /\ user \in UserLengths
  /\ word \in WordLengths
  /\ taken = 0
  /\ data = [k \in 0 .. BlockSize - 1 |-> Garbage]
  /\ datalen = 0
  /\ bitlen = 0
  /\ blocks = <<>>
  /\ done = FALSE

SlipFull(length) == length > BlockSize
Full(length) == length = BlockSize

(* sha256_update takes the next byte.                                      *)
Update ==
  /\ taken < Len(HashInput)
  /\ taken' = taken + 1
  /\ data' = [data EXCEPT ![datalen] = HashInput[taken + 1]]
  /\ IF Full(datalen + 1)
       THEN /\ blocks' = Transform(blocks, data')
            /\ bitlen' = bitlen + 8 * BlockSize
            /\ datalen' = 0
       ELSE /\ datalen' = datalen + 1
            /\ UNCHANGED <<blocks, bitlen>>
  /\ UNCHANGED <<parts, done>>

LengthAt == BlockSize - LengthSize

SlipRoomForLength(length) == length <= LengthAt
(* The byte 0x80 and the length still fit into the block.                  *)
RoomForLength(length) == length < LengthAt

(* The bytes of n, the most significant first.                             *)
BigEndian(n) ==
  LET shifted[k \in 0 .. LengthSize] == IF k = 0 THEN n ELSE shifted[k - 1] \div 256
  IN  [k \in 1 .. LengthSize |-> shifted[LengthSize - k] % 256]

(* The buffer with 0x80 behind the data and zeros from there up to end.    *)
Ended(end) ==
  [k \in DOMAIN data |-> IF k = datalen THEN 128
                         ELSE IF k > datalen /\ k < end THEN 0 ELSE data[k]]
LengthWritten(buffer, bits) ==
  [k \in DOMAIN buffer |->
     IF k < LengthAt THEN buffer[k] ELSE BigEndian(bits)[k - LengthAt + 1]]

Final ==
  /\ ~done
  /\ taken = Len(HashInput)
  /\ done' = TRUE
  /\ bitlen' = bitlen + 8 * datalen
  /\ IF RoomForLength(datalen)
       THEN /\ data' = LengthWritten(Ended(LengthAt), bitlen')
            /\ blocks' = Transform(blocks, data')
       ELSE /\ data' = LengthWritten([k \in DOMAIN data |-> 0], bitlen')
            /\ blocks' = Transform(Transform(blocks, Ended(BlockSize)), data')
  /\ UNCHANGED <<parts, taken, datalen>>

Next == Update \/ Final

Spec == Init /\ [][Next]_vars

-------------------------------------------------------------------------------
(* The padded message as FIPS 180-4 defines it: the message, a bit 1, the  *)
(* fewest zeros that fill the last block, and the length in bits.          *)
Padded(message) ==
  LET zeros == CHOOSE n \in 0 .. BlockSize - 1 :
                 (Len(message) + 1 + n + LengthSize) % BlockSize = 0
  IN  message \o <<128>> \o [k \in 1 .. zeros |-> 0]
        \o BigEndian(8 * Len(message))

Bytes(block) == [k \in 1 .. BlockSize |-> block[k - 1]]

(* The buffer has room for the next byte, and the counted bits are those   *)
(* of the blocks compressed (the loop of sha256_update).                   *)
TypeOK ==
  /\ datalen \in 0 .. BlockSize - 1
  /\ DOMAIN data = 0 .. BlockSize - 1
  /\ ~done => /\ bitlen = 8 * BlockSize * Len(blocks)
              /\ taken = BlockSize * Len(blocks) + datalen

(* What is compressed is the padded message and nothing else, no byte an   *)
(* earlier block or nobody left in the context: for every length of the    *)
(* input around the boundaries of a block and of its length field.  If the *)
(* three parts fit into hash_input together the message is all of them, if *)
(* not it is made of the parts that fit (sha256_final; the hash inputs of  *)
(* auth.c).                                                                *)
HashesPaddedMessage ==
  done =>
    LET message == HashInput
        whole == Part("salt", SaltSize) \o Part("user", user) \o Part("word", word)
    IN  /\ FlattenSeq([n \in DOMAIN blocks |-> Bytes(blocks[n])]) = Padded(message)
        /\ Len(whole) <= InputSize => message = whole
===============================================================================
