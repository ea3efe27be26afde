---------------------------- MODULE AtmSha256Proofs ----------------------------
(***************************************************************************)
(* AtmSha256 for any sizes and any lengths of the parts: what sha256       *)
(* compresses is the padded message, block by block.                       *)
(*                                                                         *)
(* The blocks written one behind the other are a recursive function of     *)
(* their number.  The first part gives it a closed form, by division; the  *)
(* one induction it needs takes a smallest counterexample.                 *)
(***************************************************************************)
EXTENDS AtmSha256, SequenceTheorems, WellFoundedInduction, TLAPS

-------------------------------------------------------------------------------
(* Numbers.                                                                *)
LEMMA LessThan ==
  \E R : IsWellFoundedOn(R, Nat) /\ \A x, y \in Nat : <<x, y>> \in R <=> x < y
<1> DEFINE R == OpToRel(<, Nat)
<1>1. IsWellFoundedOn(R, Nat)
  BY NatLessThanWellFounded
<1>2. \A x, y \in Nat : <<x, y>> \in R <=> x < y
  BY DEF OpToRel
<1> HIDE DEF R
<1> QED
  BY <1>1, <1>2

LEMMA LeastNumber ==
  ASSUME NEW S, S \subseteq Nat, S # {}
  PROVE  \E m \in S : \A k \in S : m <= k
<1>1. PICK R : IsWellFoundedOn(R, Nat) /\ \A x, y \in Nat : <<x, y>> \in R <=> x < y
  BY LessThan
<1>2. IsWellFoundedOn(R, Nat)
  BY <1>1
<1>3. PICK m \in S : \A y \in S : ~ (<<y, m>> \in R)
  BY <1>2, WFMin, Zenon
<1>4. ASSUME NEW k \in S
      PROVE  m <= k
  <2>1. k \in Nat /\ m \in Nat
    OBVIOUS
  <2>2. <<k, m>> \in R <=> k < m
    BY <1>1, <2>1, Zenon
  <2>3. ~ (<<k, m>> \in R)
    BY <1>3, Zenon
  <2>4. ~ (k < m)
    BY <2>2, <2>3, Zenon
  <2> QED
    BY <2>1, <2>4
<1> QED
  BY <1>4

LEMMA Times ==
  ASSUME NEW B \in Nat, NEW a \in Nat, NEW b \in Nat, a <= b
  PROVE  B * a <= B * b
  OBVIOUS

LEMMA TimesNext ==
  ASSUME NEW B \in Nat, NEW n \in Nat
  PROVE  B * (n + 1) = B * n + B /\ B * n \in Nat
  OBVIOUS

(* The place of a byte: its block and where in the block.                  *)
LEMMA Divided ==
  ASSUME NEW x \in Nat, NEW B \in Nat \ {0}
  PROVE  /\ x \div B \in Nat
         /\ x % B \in 0 .. B - 1
         /\ x = B * (x \div B) + (x % B)
<1>1. x = B * (x \div B) + (x % B)
  OBVIOUS
<1>2. x % B \in 0 .. B - 1
  OBVIOUS
<1>3. x \div B \in Nat
  OBVIOUS
<1> QED
  BY <1>1, <1>2, <1>3

LEMMA PlaceUnique ==
  ASSUME NEW B \in Nat \ {0}, NEW p \in Nat, NEW q \in Nat,
         NEW k \in 0 .. B - 1, NEW j \in 0 .. B - 1, B * p + k = B * q + j
  PROVE  p = q /\ k = j
<1>1. B * p \in Nat /\ B * q \in Nat
  OBVIOUS
<1>2. ~ (p < q)
  <2>1. SUFFICES ASSUME p < q
                 PROVE  FALSE
    OBVIOUS
  <2>2. B * (p + 1) <= B * q
    BY <2>1, Times
  <2>3. B * (p + 1) = B * p + B
    BY TimesNext
  <2> QED
    BY <1>1, <2>2, <2>3
<1>3. ~ (q < p)
  <2>1. SUFFICES ASSUME q < p
                 PROVE  FALSE
    OBVIOUS
  <2>2. B * (q + 1) <= B * p
    BY <2>1, Times
  <2>3. B * (q + 1) = B * q + B
    BY TimesNext
  <2> QED
    BY <1>1, <2>2, <2>3
<1>4. p = q
  BY <1>2, <1>3
<1> QED
  BY <1>1, <1>4

LEMMA DividedBack ==
  ASSUME NEW B \in Nat \ {0}, NEW p \in Nat, NEW k \in 0 .. B - 1
  PROVE  (B * p + k) \div B = p /\ (B * p + k) % B = k
<1>1. B * p + k \in Nat
  OBVIOUS
<1>2. PICK x \in Nat : x = B * p + k
  BY <1>1
<1>3. x \div B \in Nat /\ x % B \in 0 .. B - 1 /\ x = B * (x \div B) + (x % B)
  BY Divided
<1>4. PICK q \in Nat, j \in 0 .. B - 1 : q = x \div B /\ j = x % B
  BY <1>3
<1>5. p = q /\ k = j
  BY <1>2, <1>3, <1>4, PlaceUnique
<1> QED
  BY <1>2, <1>4, <1>5
-------------------------------------------------------------------------------
(* Blocks one behind the other.                                            *)
LEMMA SizesPositive ==
  /\ BlockSize \in Nat \ {0} /\ InputSize \in Nat /\ SaltSize \in Nat
  /\ LengthSize \in Nat \ {0} /\ LengthSize <= BlockSize - 1
  /\ LengthAt \in Nat \ {0} /\ LengthAt = BlockSize - LengthSize
  BY SizesAssumption DEF LengthAt

(* The bytes of the first i blocks.                                        *)
Joined(list, i) ==
  [m \in 1 .. BlockSize * i |->
     list[((m - 1) \div BlockSize) + 1][(m - 1) % BlockSize]]

Listed(list) == [n \in DOMAIN list |-> Bytes(list[n])]

LEMMA JoinedFirst ==
  ASSUME NEW S, NEW list \in Seq(S), Len(list) >= 1
  PROVE  Joined(list, 1) = Bytes(list[1])
<1>1. BlockSize \in Nat \ {0} /\ BlockSize * 1 = BlockSize
  BY SizesPositive
<1>2. ASSUME NEW m \in 1 .. BlockSize
      PROVE  ((m - 1) \div BlockSize) + 1 = 1 /\ (m - 1) % BlockSize = m - 1
  <2>1. m - 1 \in 0 .. BlockSize - 1 /\ BlockSize * 0 + (m - 1) = m - 1
    BY <1>1
  <2>2. (BlockSize * 0 + (m - 1)) \div BlockSize = 0
        /\ (BlockSize * 0 + (m - 1)) % BlockSize = m - 1
    BY <1>1, <2>1, DividedBack
  <2> QED
    BY <2>1, <2>2
<1> QED
  BY <1>1, <1>2 DEF Joined, Bytes

LEMMA JoinedNext ==
  ASSUME NEW S, NEW list \in Seq(S), NEW i \in 1 .. Len(list), i # 1
  PROVE  Joined(list, i) = Joined(list, i - 1) \o Bytes(list[i])
<1> DEFINE before == Joined(list, i - 1)
           bytes == Bytes(list[i])
           start == BlockSize * (i - 1)
<1>1. BlockSize \in Nat \ {0} /\ i \in Nat /\ i - 1 \in Nat
  BY SizesPositive
<1>2. start \in Nat /\ BlockSize * i = start + BlockSize
  <2>1. BlockSize * ((i - 1) + 1) = BlockSize * (i - 1) + BlockSize
        /\ BlockSize * (i - 1) \in Nat
    BY <1>1, TimesNext
  <2> QED
    BY <1>1, <2>1
<1>3. before = [m \in 1 .. start |-> Joined(list, i)[m]]
      /\ DOMAIN Joined(list, i) = 1 .. start + BlockSize
  <2>1. \A m \in 1 .. start : m \in 1 .. BlockSize * i
    BY <1>1, <1>2
  <2> QED
    BY <1>2, <2>1 DEF Joined
<1>4. ASSUME NEW k \in 1 .. BlockSize
      PROVE  Joined(list, i)[start + k] = bytes[k]
  <2>1. start + k \in 1 .. BlockSize * i /\ k - 1 \in 0 .. BlockSize - 1
        /\ (start + k) - 1 = BlockSize * (i - 1) + (k - 1)
    BY <1>1, <1>2
  <2>2. (BlockSize * (i - 1) + (k - 1)) \div BlockSize = i - 1
        /\ (BlockSize * (i - 1) + (k - 1)) % BlockSize = k - 1
    BY <1>1, <2>1, DividedBack
  <2>3. Joined(list, i)[start + k] =
          list[(((start + k) - 1) \div BlockSize) + 1][((start + k) - 1) % BlockSize]
    BY <2>1 DEF Joined
  <2>4. Joined(list, i)[start + k] = list[(i - 1) + 1][k - 1]
    BY <2>1, <2>2, <2>3
  <2> QED
    BY <1>1, <2>4 DEF Bytes
<1>5. DOMAIN before = 1 .. start /\ DOMAIN bytes = 1 .. BlockSize
  BY <1>3 DEF Bytes
<1>11. /\ before = [m \in 1 .. start |-> before[m]]
       /\ bytes = [k \in 1 .. BlockSize |-> bytes[k]]
  BY <1>3 DEF Bytes
<1> HIDE DEF before, bytes, start
<1>6. Len(before) = start /\ Len(bytes) = BlockSize
  BY <1>1, <1>2, <1>5
<1>7. before \o bytes =
        [m \in 1 .. start + BlockSize |->
           IF m <= start THEN before[m] ELSE bytes[m - start]]
  <2> DEFINE T == {before[m] : m \in 1 .. start} \union {bytes[k] : k \in 1 .. BlockSize}
  <2>1. before \in [1 .. start -> T] /\ bytes \in [1 .. BlockSize -> T]
    <3>1. \A m \in 1 .. start : before[m] \in T
      OBVIOUS
    <3>2. \A k \in 1 .. BlockSize : bytes[k] \in T
      OBVIOUS
    <3>3. before = [m \in 1 .. start |-> before[m]] /\ bytes = [k \in 1 .. BlockSize |-> bytes[k]]
      BY <1>11
    <3> QED
      BY <3>1, <3>2, <3>3
  <2> HIDE DEF T
  <2>2. before \in Seq(T) /\ bytes \in Seq(T)
    BY <1>1, <1>2, <2>1
  <2>3. /\ Len(before \o bytes) = start + BlockSize
        /\ before \o bytes \in Seq(T)
        /\ \A m \in 1 .. start + BlockSize :
             (before \o bytes)[m] = IF m <= start THEN before[m] ELSE bytes[m - start]
    BY <1>6, <2>2, ConcatProperties
  <2>4. PICK s \in Seq(T) : s = before \o bytes
    BY <2>3
  <2>5. DOMAIN s = 1 .. start + BlockSize /\ s = [m \in DOMAIN s |-> s[m]]
    <3>1. Len(s) = start + BlockSize
      BY <2>3, <2>4
    <3>2. s \in [1 .. Len(s) -> T] /\ DOMAIN s = 1 .. Len(s)
      BY LenProperties
    <3> QED
      BY <3>1, <3>2
  <2> QED
    BY <2>3, <2>4, <2>5
<1>8. ASSUME NEW m \in 1 .. start + BlockSize
      PROVE  Joined(list, i)[m] = (before \o bytes)[m]
  <2>1. CASE m <= start
    BY <1>2, <1>3, <1>7, <2>1
  <2>2. CASE m > start
    <3>1. m - start \in 1 .. BlockSize /\ start + (m - start) = m
      BY <1>1, <1>2, <2>2
    <3>2. Joined(list, i)[start + (m - start)] = bytes[m - start]
      BY <1>4, <3>1
    <3> QED
      BY <1>2, <1>7, <2>2, <3>1, <3>2
  <2>3. m <= start \/ m > start
    BY <1>1, <1>2
  <2> QED
    BY <2>1, <2>2, <2>3
<1>9. DOMAIN (before \o bytes) = 1 .. start + BlockSize
  BY <1>7
<1>10. Joined(list, i) = [m \in 1 .. start + BlockSize |-> Joined(list, i)[m]]
  BY <1>2 DEF Joined
<1> QED
  BY <1>3, <1>7, <1>8, <1>10 DEF before, bytes

LEMMA FlattenIs ==
  ASSUME NEW S, NEW list \in Seq(S), Len(list) >= 1
  PROVE  FlattenSeq(Listed(list)) = Joined(list, Len(list))
<1> DEFINE N == Len(list)
           parts_ == Listed(list)
           Step(f) == [i \in 1 .. N |-> IF i = 1 THEN parts_[i] ELSE f[i - 1] \o parts_[i]]
           joined == [i \in 1 .. N |-> Joined(list, i)]
           flatten == CHOOSE f : f = Step(f)
<1>1. N \in Nat /\ N >= 1 /\ DOMAIN list = 1 .. N
  OBVIOUS
<1>2. DOMAIN parts_ = 1 .. N /\ \A i \in 1 .. N : parts_[i] = Bytes(list[i])
  BY <1>1 DEF Listed
<1>3. Len(parts_) = N
  BY <1>1, <1>2
<1>4. \A i \in 1 .. N :
        Joined(list, i) = IF i = 1 THEN parts_[i] ELSE Joined(list, i - 1) \o parts_[i]
  BY <1>1, <1>2, JoinedFirst, JoinedNext
<1>5. joined = Step(joined)
  <2> HIDE DEF parts_
  <2>1. \A i \in 1 .. N : i # 1 => i - 1 \in 1 .. N
    BY <1>1
  <2> QED
    BY <1>4, <2>1
<1>6. flatten = Step(flatten)
  <2> HIDE DEF joined, Step
  <2> QED
    BY <1>5, Zenon
<1>7. FlattenSeq(parts_) = flatten[N]
  <2> HIDE DEF parts_
  <2> QED
    BY <1>1, <1>3 DEF FlattenSeq
<1>8. \A i \in 1 .. N : flatten[i] = Joined(list, i)
  <2> HIDE DEF flatten, parts_, joined
  <2>1. \A i \in 1 .. N : flatten[i] = IF i = 1 THEN parts_[i] ELSE flatten[i - 1] \o parts_[i]
    BY <1>6
  <2> DEFINE bad == {i \in 1 .. N : flatten[i] # Joined(list, i)}
  <2>2. SUFFICES ASSUME bad # {}
                 PROVE  FALSE
    OBVIOUS
  <2>3. PICK least \in bad : \A i \in bad : least <= i
    <3>1. bad \subseteq Nat
      OBVIOUS
    <3> HIDE DEF bad
    <3> QED
      BY <2>2, <3>1, LeastNumber
  <2>4. least \in 1 .. N /\ flatten[least] # Joined(list, least)
    OBVIOUS
  <2>5. CASE least = 1
    BY <1>4, <2>1, <2>4, <2>5
  <2>6. CASE least # 1
    <3>1. least - 1 \in 1 .. N /\ ~ (least <= least - 1)
      BY <1>1, <2>4, <2>6
    <3>2. flatten[least - 1] = Joined(list, least - 1)
      BY <2>3, <3>1
    <3> QED
      BY <1>4, <2>1, <2>4, <2>6, <3>2
  <2> QED
    BY <2>5, <2>6
<1>9. N \in 1 .. N
  BY <1>1
<1> QED
  BY <1>7, <1>8, <1>9

(* The same, block by block.                                               *)
LEMMA FlattenBytes ==
  ASSUME NEW S, NEW list \in Seq(S), Len(list) >= 1
  PROVE  /\ DOMAIN FlattenSeq(Listed(list)) = 1 .. BlockSize * Len(list)
         /\ FlattenSeq(Listed(list)) \in [1 .. BlockSize * Len(list) ->
              {FlattenSeq(Listed(list))[m] : m \in 1 .. BlockSize * Len(list)}]
         /\ \A n \in 1 .. Len(list), k \in 0 .. BlockSize - 1 :
              FlattenSeq(Listed(list))[BlockSize * (n - 1) + k + 1] = list[n][k]
<1>1. FlattenSeq(Listed(list)) = Joined(list, Len(list))
  BY FlattenIs
<1>2. BlockSize \in Nat \ {0} /\ Len(list) \in Nat
  BY SizesPositive
<1>3. ASSUME NEW n \in 1 .. Len(list), NEW k \in 0 .. BlockSize - 1
      PROVE  Joined(list, Len(list))[BlockSize * (n - 1) + k + 1] = list[n][k]
  <2>1. n - 1 \in Nat /\ n \in Nat /\ n <= Len(list)
    BY <1>2
  <2>2. BlockSize * (n - 1) \in Nat /\ BlockSize * ((n - 1) + 1) = BlockSize * (n - 1) + BlockSize
    BY <1>2, <2>1, TimesNext
  <2>3. BlockSize * n <= BlockSize * Len(list)
    BY <1>2, <2>1, Times
  <2>4. BlockSize * n = BlockSize * (n - 1) + BlockSize
    BY <2>1, <2>2
  <2>5. PICK m \in Nat : m = BlockSize * (n - 1) + k + 1
    BY <2>2
  <2>6. m \in 1 .. BlockSize * Len(list) /\ m - 1 = BlockSize * (n - 1) + k
    BY <1>2, <2>2, <2>3, <2>4, <2>5
  <2>7. (BlockSize * (n - 1) + k) \div BlockSize = n - 1
        /\ (BlockSize * (n - 1) + k) % BlockSize = k
    BY <1>2, <2>1, DividedBack
  <2>8. Joined(list, Len(list))[m] = list[((m - 1) \div BlockSize) + 1][(m - 1) % BlockSize]
    BY <2>6 DEF Joined
  <2> QED
    BY <2>1, <2>5, <2>6, <2>7, <2>8
<1>4. DOMAIN Joined(list, Len(list)) = 1 .. BlockSize * Len(list)
  BY DEF Joined
<1> QED
  BY <1>1, <1>3, <1>4 DEF Joined
-------------------------------------------------------------------------------
(* The input.                                                              *)
InputBytes == {"salt", "user", "word"} \X Nat

LEMMA PartIs ==
  ASSUME NEW name \in {"salt", "user", "word"}, NEW length \in Nat
  PROVE  Part(name, length) \in Seq(InputBytes) /\ Len(Part(name, length)) = length
<1>1. Part(name, length) \in [1 .. length -> InputBytes]
  BY DEF Part, InputBytes
<1> QED
  BY <1>1

LEMMA AppendPartIs ==
  ASSUME NEW input \in Seq(InputBytes), NEW part \in Seq(InputBytes)
  PROVE  /\ AppendPart(input, part) \in Seq(InputBytes)
         /\ Len(input) + Len(part) <= InputSize => AppendPart(input, part) = input \o part
<1>1. input \o part \in Seq(InputBytes)
  BY ConcatProperties
<1> QED
  BY <1>1 DEF AppendPart

Whole == Part("salt", SaltSize) \o Part("user", user) \o Part("word", word)

LEMMA InputIs ==
  ASSUME user \in Nat, word \in Nat
  PROVE  /\ HashInput \in Seq(InputBytes)
         /\ Len(Whole) <= InputSize => HashInput = Whole
<1>1. PICK s \in Seq(InputBytes) : s = Part("salt", SaltSize) /\ Len(s) = SaltSize
  BY SizesPositive, PartIs
<1>2. PICK u \in Seq(InputBytes) : u = Part("user", user) /\ Len(u) = user
  BY PartIs
<1>3. PICK w \in Seq(InputBytes) : w = Part("word", word) /\ Len(w) = word
  BY PartIs
<1>4. AppendPart(<<>>, s) = s
  <2>1. Len(<<>>) + Len(s) <= InputSize /\ <<>> \in Seq(InputBytes)
    BY <1>1, SizesPositive, SizesAssumption
  <2>2. <<>> \o s = s
    BY ConcatEmptySeq
  <2> QED
    BY <2>1, <2>2, AppendPartIs
<1>5. PICK su \in Seq(InputBytes) : su = AppendPart(s, u)
  BY AppendPartIs
<1>6. HashInput = AppendPart(su, w)
  BY <1>1, <1>2, <1>3, <1>4, <1>5 DEF HashInput
<1>7. HashInput \in Seq(InputBytes)
  BY <1>6, AppendPartIs
<1>8. Whole = (s \o u) \o w
  BY <1>1, <1>2, <1>3 DEF Whole
<1>9. s \o u \in Seq(InputBytes) /\ Len(s \o u) = Len(s) + Len(u)
      /\ Len((s \o u) \o w) = (Len(s) + Len(u)) + Len(w)
  <2>1. s \o u \in Seq(InputBytes) /\ Len(s \o u) = Len(s) + Len(u)
    BY ConcatProperties
  <2>2. Len((s \o u) \o w) = Len(s \o u) + Len(w)
    BY <2>1, ConcatProperties
  <2> QED
    BY <2>1, <2>2
<1>10. ASSUME Len(Whole) <= InputSize
       PROVE  HashInput = Whole
  <2>1. Len(s) + Len(u) <= InputSize
    BY <1>1, <1>2, <1>3, <1>8, <1>9, <1>10, SizesPositive
  <2>2. su = s \o u
    BY <1>5, <2>1, AppendPartIs
  <2>3. Len(su) + Len(w) <= InputSize
    BY <1>8, <1>9, <1>10, <2>2
  <2>4. AppendPart(su, w) = su \o w
    BY <2>3, AppendPartIs
  <2> QED
    BY <1>6, <1>8, <2>2, <2>4
<1> QED
  BY <1>7, <1>10

-------------------------------------------------------------------------------
(* The padded message.                                                     *)
LEMMA BigEndianIs ==
  ASSUME NEW n
  PROVE  DOMAIN BigEndian(n) = 1 .. LengthSize
  BY DEF BigEndian

(* The zeros that fill the last block are the only ones.                   *)
LEMMA ZerosAre ==
  ASSUME NEW length \in Nat, NEW z \in 0 .. BlockSize - 1, NEW q \in Nat,
         length + 1 + z + LengthSize = BlockSize * q
  PROVE  (CHOOSE n \in 0 .. BlockSize - 1 :
            (length + 1 + n + LengthSize) % BlockSize = 0) = z
<1>1. BlockSize \in Nat \ {0} /\ LengthSize \in Nat
  BY SizesPositive
<1>2. (length + 1 + z + LengthSize) % BlockSize = 0
  <2>1. BlockSize * q \in Nat /\ 0 \in 0 .. BlockSize - 1
    BY <1>1
  <2>2. (BlockSize * q + 0) % BlockSize = 0
    BY <1>1, <2>1, DividedBack
  <2>3. length + 1 + z + LengthSize = BlockSize * q + 0
    BY <2>1
  <2> QED
    BY <2>2, <2>3
<1>3. ASSUME NEW n \in 0 .. BlockSize - 1,
             (length + 1 + n + LengthSize) % BlockSize = 0
      PROVE  n = z
  <2>1. PICK x \in Nat : x = length + 1 + n + LengthSize
    BY <1>1
  <2>2. x % BlockSize = 0
    BY <1>3, <2>1
  <2>3. PICK p \in Nat : p = x \div BlockSize
    BY <1>1, Divided
  <2>4. x = BlockSize * p
    <3>1. x = BlockSize * (x \div BlockSize) + (x % BlockSize)
      BY <1>1, Divided
    <3>2. BlockSize * p \in Nat
      BY <1>1
    <3> QED
      BY <2>2, <2>3, <3>1, <3>2
  <2>5. BlockSize * p \in Nat /\ BlockSize * q \in Nat
    BY <1>1
  <2>6. CASE z <= n
    <3>1. n - z \in 0 .. BlockSize - 1 /\ BlockSize * p + 0 = BlockSize * q + (n - z)
      BY <1>1, <2>1, <2>4, <2>5, <2>6
    <3>2. 0 \in 0 .. BlockSize - 1
      BY <1>1
    <3>3. 0 = n - z
      BY <1>1, <3>1, <3>2, PlaceUnique
    <3> QED
      BY <1>1, <3>3
  <2>7. CASE n < z
    <3>1. z - n \in 0 .. BlockSize - 1 /\ BlockSize * q + 0 = BlockSize * p + (z - n)
      BY <1>1, <2>1, <2>4, <2>5, <2>7
    <3>2. 0 \in 0 .. BlockSize - 1
      BY <1>1
    <3>3. 0 = z - n
      BY <1>1, <3>1, <3>2, PlaceUnique
    <3> QED
      BY <1>1, <3>3
  <2> QED
    BY <1>1, <2>6, <2>7
<1> QED
  BY <1>2, <1>3

(* Byte by byte.                                                           *)
PaddedByte(message, size, m) ==
  IF m <= Len(message) THEN message[m]
  ELSE IF m = Len(message) + 1 THEN 128
  ELSE IF m <= size - LengthSize THEN 0
  ELSE BigEndian(8 * Len(message))[m - (size - LengthSize)]

LEMMA PaddedIs ==
  ASSUME NEW message \in Seq(InputBytes), NEW z \in 0 .. BlockSize - 1, NEW q \in Nat,
         Len(message) + 1 + z + LengthSize = BlockSize * q
  PROVE  Padded(message) = [m \in 1 .. BlockSize * q |->
                              PaddedByte(message, BlockSize * q, m)]
<1>1. PICK length \in Nat : length = Len(message)
  OBVIOUS
<1>2. PICK size \in Nat : size = BlockSize * q /\ size = length + 1 + z + LengthSize
  BY <1>1, SizesPositive
<1>3. PICK be : be = BigEndian(8 * Len(message))
  OBVIOUS
<1> DEFINE T == InputBytes \union {128, 0} \union {be[k] : k \in 1 .. LengthSize}
           zeros == [k \in 1 .. z |-> 0]
<1>4. be \in Seq(T) /\ Len(be) = LengthSize
  <2>1. DOMAIN be = 1 .. LengthSize
    BY <1>3, BigEndianIs
  <2>2. be = [k \in 1 .. LengthSize |-> be[k]]
    BY <1>3, <2>1 DEF BigEndian
  <2>3. \A k \in 1 .. LengthSize : be[k] \in T
    OBVIOUS
  <2> HIDE DEF T
  <2>4. be \in [1 .. LengthSize -> T]
    BY <2>2, <2>3
  <2> QED
    BY <2>4, SizesPositive
<1>5. message \in Seq(T) /\ <<128>> \in Seq(T) /\ Len(<<128>>) = 1
  OBVIOUS
<1>6. zeros \in Seq(T) /\ Len(zeros) = z /\ \A k \in 1 .. z : zeros[k] = 0
  <2>1. zeros \in [1 .. z -> T]
    OBVIOUS
  <2> HIDE DEF T
  <2> QED
    BY <2>1, SizesPositive
<1>7. Padded(message) = ((message \o <<128>>) \o zeros) \o be
  <2>1. (CHOOSE n \in 0 .. BlockSize - 1 :
            (Len(message) + 1 + n + LengthSize) % BlockSize = 0) = z
    BY <1>1, ZerosAre
  <2> QED
    BY <1>3, <2>1 DEF Padded
<1> HIDE DEF T, zeros
<1>8. PICK a \in Seq(T) : a = message \o <<128>> /\ Len(a) = length + 1
  <2>1. message \in Seq(T) /\ <<128>> \in Seq(T)
    BY <1>1, <1>5
  <2>2. message \o <<128>> \in Seq(T) /\ Len(message \o <<128>>) = Len(message) + Len(<<128>>)
    BY <2>1, ConcatProperties
  <2>3. Len(message) + Len(<<128>>) = length + 1
    BY <1>1, <1>5
  <2> QED
    BY <2>2, <2>3
<1>9. \A m \in 1 .. length + 1 :
        a[m] = IF m <= length THEN message[m] ELSE 128
  <2>1. \A m \in 1 .. length + 1 :
          a[m] = IF m <= length THEN message[m] ELSE <<128>>[m - length]
    BY <1>1, <1>5, <1>8, ConcatProperties
  <2>2. \A m \in 1 .. length + 1 : m > length => m - length = 1
    BY <1>1
  <2> QED
    BY <1>1, <2>1, <2>2
<1>10. PICK b \in Seq(T) : b = a \o zeros /\ Len(b) = length + 1 + z
  <2>1. a \in Seq(T) /\ zeros \in Seq(T)
    BY <1>6, <1>8
  <2>2. a \o zeros \in Seq(T) /\ Len(a \o zeros) = Len(a) + Len(zeros)
    BY <2>1, ConcatProperties
  <2>3. Len(a) + Len(zeros) = length + 1 + z
    BY <1>6, <1>8
  <2> QED
    BY <2>2, <2>3
<1>11. \A m \in 1 .. length + 1 + z :
         b[m] = IF m <= length + 1 THEN a[m] ELSE 0
  <2>1. \A m \in 1 .. length + 1 + z :
          b[m] = IF m <= length + 1 THEN a[m] ELSE zeros[m - (length + 1)]
    BY <1>6, <1>8, <1>10, ConcatProperties
  <2>2. \A m \in 1 .. length + 1 + z : m > length + 1 => m - (length + 1) \in 1 .. z
    BY <1>1
  <2> QED
    BY <1>1, <1>6, <2>1, <2>2
<1>12. PICK c \in Seq(T) : c = b \o be /\ Len(c) = size
  <2>1. b \in Seq(T) /\ be \in Seq(T)
    BY <1>2, <1>4, <1>10
  <2>2. b \o be \in Seq(T) /\ Len(b \o be) = Len(b) + Len(be)
    BY <2>1, ConcatProperties
  <2>3. Len(b) + Len(be) = size
    BY <1>2, <1>4, <1>10
  <2> QED
    BY <2>2, <2>3
<1>13. \A m \in 1 .. size :
         c[m] = IF m <= length + 1 + z THEN b[m] ELSE be[m - (length + 1 + z)]
  BY <1>2, <1>4, <1>10, <1>12, ConcatProperties
<1>14. size - LengthSize = length + 1 + z
  BY <1>1, <1>2, SizesPositive
<1>15. ASSUME NEW m \in 1 .. size
       PROVE  c[m] = PaddedByte(message, size, m)
  <2>1. CASE m <= length
    BY <1>1, <1>9, <1>11, <1>13, <2>1 DEF PaddedByte
  <2>2. CASE m = length + 1
    BY <1>1, <1>9, <1>11, <1>13, <2>2 DEF PaddedByte
  <2>3. CASE m > length + 1 /\ m <= length + 1 + z
    BY <1>1, <1>11, <1>13, <1>14, <2>3 DEF PaddedByte
  <2>4. CASE m > length + 1 + z
    BY <1>1, <1>3, <1>13, <1>14, <2>4 DEF PaddedByte
  <2>5. \/ m <= length \/ m = length + 1 \/ (m > length + 1 /\ m <= length + 1 + z)
        \/ m > length + 1 + z
    BY <1>1
  <2> QED
    BY <2>1, <2>2, <2>3, <2>4, <2>5
<1>16. c = [m \in 1 .. size |-> c[m]]
  BY <1>12, LenProperties
<1>17. Padded(message) = c
  BY <1>7, <1>8, <1>10, <1>12
<1> QED
  BY <1>2, <1>15, <1>16, <1>17
(* Blocks whose bytes are those of the padded message are the padded       *)
(* message.                                                                *)
LEMMA SamePadded ==
  ASSUME NEW S, NEW list \in Seq(S), Len(list) >= 1,
         NEW input \in Seq(InputBytes), NEW z \in 0 .. BlockSize - 1,
         Len(input) + 1 + z + LengthSize = BlockSize * Len(list),
         \A n \in 1 .. Len(list), k \in 0 .. BlockSize - 1 :
           list[n][k] = PaddedByte(input, BlockSize * Len(list), BlockSize * (n - 1) + k + 1)
  PROVE  FlattenSeq(Listed(list)) = Padded(input)
<1>1. PICK size \in Nat, L \in Nat : size = BlockSize * L /\ L = Len(list)
  <2>1. PICK L \in Nat : L = Len(list)
    OBVIOUS
  <2>2. BlockSize * L \in Nat
    BY <2>1, SizesPositive
  <2> QED
    BY <2>1, <2>2
<1>2. PICK f : f = FlattenSeq(Listed(list))
  OBVIOUS
<1>3. /\ f = [m \in 1 .. size |-> f[m]]
      /\ \A n \in 1 .. L, k \in 0 .. BlockSize - 1 :
           f[BlockSize * (n - 1) + k + 1] = list[n][k]
  BY <1>1, <1>2, FlattenBytes
<1>4. Padded(input) = [m \in 1 .. size |-> PaddedByte(input, size, m)]
  BY <1>1, PaddedIs
<1>5. ASSUME NEW m \in 1 .. size
      PROVE  f[m] = PaddedByte(input, size, m)
  <2>1. m - 1 \in Nat /\ BlockSize \in Nat \ {0}
    BY <1>1, SizesPositive
  <2>2. PICK p \in Nat, k \in 0 .. BlockSize - 1 : m - 1 = BlockSize * p + k
    BY <2>1, Divided
  <2>3. BlockSize * p \in Nat
    BY <2>1
  <2>4. p < L
    <3>1. SUFFICES ASSUME L <= p
                   PROVE  FALSE
      BY <1>1
    <3>2. BlockSize * L <= BlockSize * p
      BY <2>1, <3>1, Times
    <3> QED
      BY <1>1, <2>1, <2>2, <2>3, <3>2
  <2>5. PICK n \in 1 .. L : n - 1 = p
    BY <1>1, <2>4
  <2>6. m = BlockSize * (n - 1) + k + 1
    BY <1>1, <2>2, <2>3, <2>5
  <2>7. f[BlockSize * (n - 1) + k + 1] = list[n][k]
    BY <1>3
  <2>8. list[n][k] = PaddedByte(input, size, BlockSize * (n - 1) + k + 1)
    BY <1>1
  <2> QED
    BY <2>6, <2>7, <2>8
<1> QED
  BY <1>2, <1>3, <1>4, <1>5

-------------------------------------------------------------------------------
(* What has been absorbed is in the blocks compressed and at the beginning *)
(* of the buffer, and nothing else is in those places.                     *)
Blocks == [0 .. BlockSize - 1 -> InputBytes \union {Garbage}]

Kept(input, buffer, length, compressed) ==
  /\ compressed \in Seq(Blocks)
  /\ buffer \in Blocks
  /\ \A n \in 1 .. Len(compressed), k \in 0 .. BlockSize - 1 :
       compressed[n][k] = input[BlockSize * (n - 1) + k + 1]
  /\ \A k \in 0 .. length - 1 : buffer[k] = input[BlockSize * Len(compressed) + k + 1]

LEMMA ByteKept ==
  ASSUME NEW input \in Seq(InputBytes), NEW c, NEW buffer, NEW d \in 0 .. BlockSize - 1,
         Kept(input, buffer, d, c), NEW p \in 1 .. Len(input),
         p = BlockSize * Len(c) + d + 1, NEW new, new = [buffer EXCEPT ![d] = input[p]]
  PROVE  /\ Kept(input, new, d + 1, c)
         /\ d + 1 = BlockSize => Kept(input, new, 0, Append(c, new))
<1>1. c \in Seq(Blocks) /\ buffer \in Blocks /\ BlockSize \in Nat \ {0}
  BY SizesPositive DEF Kept
<1>2. PICK L \in Nat : L = Len(c)
  BY <1>1
<1>3. BlockSize * L \in Nat
  BY <1>1
<1>4. new \in Blocks
  <2>1. input[p] \in InputBytes
    OBVIOUS
  <2> QED
    BY <1>1, <2>1 DEF Blocks
<1>5. \A k \in 0 .. d : new[k] = input[BlockSize * L + k + 1]
  <2>1. ASSUME NEW k \in 0 .. d
        PROVE  new[k] = input[BlockSize * L + k + 1]
    <3>1. CASE k = d
      BY <1>1, <1>2, <3>1 DEF Blocks
    <3>2. CASE k # d
      <4>1. k \in 0 .. d - 1 /\ k \in 0 .. BlockSize - 1
        BY <1>1, <3>2
      <4>2. new[k] = buffer[k]
        BY <1>1, <3>2, <4>1 DEF Blocks
      <4> QED
        BY <1>2, <4>1, <4>2 DEF Kept
    <3> QED
      BY <3>1, <3>2
  <2> QED
    BY <2>1
<1>6. Kept(input, new, d + 1, c)
  <2>1. \A k \in 0 .. (d + 1) - 1 : k \in 0 .. d
    OBVIOUS
  <2>2. \A k \in 0 .. (d + 1) - 1 : new[k] = input[BlockSize * Len(c) + k + 1]
    BY <1>2, <1>5, <2>1
  <2>3. \A n \in 1 .. Len(c), k \in 0 .. BlockSize - 1 :
          c[n][k] = input[BlockSize * (n - 1) + k + 1]
    BY DEF Kept
  <2> QED
    BY <1>1, <1>4, <2>2, <2>3 DEF Kept
<1>7. ASSUME d + 1 = BlockSize
      PROVE  Kept(input, new, 0, Append(c, new))
  <2>1. PICK more \in Seq(Blocks) : more = Append(c, new)
    <3>1. Append(c, new) \in Seq(Blocks)
      BY <1>1, <1>4
    <3> QED
      BY <3>1
  <2>2. Len(more) = L + 1 /\ more[L + 1] = new /\ \A n \in 1 .. L : more[n] = c[n]
    BY <1>1, <1>2, <1>4, <2>1
  <2>3. ASSUME NEW n \in 1 .. L + 1, NEW k \in 0 .. BlockSize - 1
        PROVE  more[n][k] = input[BlockSize * (n - 1) + k + 1]
    <3>1. CASE n <= L
      <4>1. n \in 1 .. L
        BY <1>2, <3>1
      <4> QED
        BY <1>2, <2>2, <4>1 DEF Kept
    <3>2. CASE n = L + 1
      <4>1. k \in 0 .. d /\ n - 1 = L
        BY <1>1, <1>2, <1>7, <3>2
      <4> QED
        BY <1>5, <2>2, <3>2, <4>1
    <3> QED
      BY <1>2, <3>1, <3>2
  <2>4. \A k \in 0 .. 0 - 1 : new[k] = input[BlockSize * Len(more) + k + 1]
    OBVIOUS
  <2> QED
    BY <1>4, <2>1, <2>2, <2>3, <2>4 DEF Kept
<1> QED
  BY <1>6, <1>7

(* The two ways to end a message (sha256_final).                           *)
EndedByte(buffer, d, k) == IF k = d THEN 128 ELSE IF k > d THEN 0 ELSE buffer[k]
LengthByte(input, k) == BigEndian(8 * Len(input))[k - LengthAt + 1]

LEMMA OneMoreBlock ==
  ASSUME NEW input \in Seq(InputBytes), NEW c, NEW buffer, NEW d \in 0 .. BlockSize - 1,
         Kept(input, buffer, d, c), Len(input) = BlockSize * Len(c) + d,
         d < LengthAt, NEW last,
         \A k \in 0 .. BlockSize - 1 :
           last[k] = IF k < LengthAt THEN EndedByte(buffer, d, k) ELSE LengthByte(input, k)
  PROVE  FlattenSeq(Listed(Append(c, last))) = Padded(input)
<1>1. /\ BlockSize \in Nat \ {0} /\ LengthAt \in Nat \ {0} /\ LengthSize \in Nat \ {0}
      /\ LengthAt = BlockSize - LengthSize
  BY SizesPositive
<1>2. c \in Seq(Blocks)
  BY DEF Kept
<1>3. PICK L \in Nat, size \in Nat : L = Len(c) /\ size = BlockSize * L
  BY <1>1, <1>2
<1> DEFINE S == Blocks \union {last}
<1>4. PICK list \in Seq(S) : list = Append(c, last)
  <2>1. c \in Seq(S) /\ last \in S
    BY <1>2
  <2>2. Append(c, last) \in Seq(S)
    BY <2>1
  <2> QED
    BY <2>2
<1>5. Len(list) = L + 1 /\ list[L + 1] = last /\ \A n \in 1 .. L : list[n] = c[n]
  BY <1>2, <1>3, <1>4
<1>6. BlockSize * Len(list) = size + BlockSize
  BY <1>1, <1>3, <1>5, TimesNext
<1>7. PICK z \in 0 .. BlockSize - 1 : Len(input) + 1 + z + LengthSize = size + BlockSize
  <2>1. LengthAt - d - 1 \in 0 .. BlockSize - 1
        /\ Len(input) + 1 + (LengthAt - d - 1) + LengthSize = size + BlockSize
    BY <1>1, <1>3
  <2> QED
    BY <2>1
<1>8. ASSUME NEW n \in 1 .. Len(list), NEW k \in 0 .. BlockSize - 1
      PROVE  list[n][k] = PaddedByte(input, size + BlockSize, BlockSize * (n - 1) + k + 1)
  <2>1. CASE n <= L
    <3>1. n \in 1 .. L /\ n - 1 \in Nat
      BY <1>3, <1>5, <2>1
    <3>2. BlockSize * (n - 1) \in Nat /\ BlockSize * ((n - 1) + 1) = BlockSize * (n - 1) + BlockSize
      BY <1>1, <3>1, TimesNext
    <3>3. (n - 1) + 1 = n /\ BlockSize * n <= BlockSize * L
      <4>1. n \in Nat /\ n <= L
        BY <2>1, <3>1
      <4> QED
        BY <1>1, <1>3, <4>1, Times
    <3>4. BlockSize * (n - 1) + k + 1 <= Len(input)
      BY <1>1, <1>3, <3>2, <3>3
    <3>5. list[n][k] = input[BlockSize * (n - 1) + k + 1]
      BY <1>3, <1>5, <3>1 DEF Kept
    <3> QED
      BY <3>4, <3>5 DEF PaddedByte
  <2>2. CASE n = L + 1
    <3>1. list[n][k] = last[k] /\ BlockSize * (n - 1) + k + 1 = size + k + 1
      BY <1>3, <1>5, <2>2
    <3>2. PICK m \in Nat : m = size + k + 1
      BY <1>3
    <3>3. Len(input) = size + d
      BY <1>3
    <3>4. CASE k < d
      <4>1. m <= Len(input) /\ k < LengthAt /\ k \in 0 .. d - 1
        BY <1>1, <1>3, <3>2, <3>3, <3>4
      <4>2. last[k] = buffer[k]
        BY <3>4, <4>1 DEF EndedByte
      <4>3. buffer[k] = input[m]
        BY <1>3, <3>2, <4>1 DEF Kept
      <4> QED
        BY <3>1, <3>2, <4>1, <4>2, <4>3 DEF PaddedByte
    <3>5. CASE k = d
      <4>1. m = Len(input) + 1 /\ ~ (m <= Len(input))
        BY <1>3, <3>2, <3>3, <3>5
      <4>2. last[k] = 128
        BY <3>5 DEF EndedByte
      <4> QED
        BY <3>1, <3>2, <4>1, <4>2 DEF PaddedByte
    <3>6. CASE k > d /\ k < LengthAt
      <4>1. m # Len(input) + 1 /\ ~ (m <= Len(input)) /\ m <= (size + BlockSize) - LengthSize
        BY <1>1, <1>3, <3>2, <3>3, <3>6
      <4>2. last[k] = 0
        BY <3>6 DEF EndedByte
      <4> QED
        BY <3>1, <3>2, <4>1, <4>2 DEF PaddedByte
    <3>7. CASE ~ (k < LengthAt)
      <4>1. /\ m # Len(input) + 1 /\ ~ (m <= Len(input))
            /\ ~ (m <= (size + BlockSize) - LengthSize)
            /\ m - ((size + BlockSize) - LengthSize) = k - LengthAt + 1
        BY <1>1, <1>3, <3>2, <3>3, <3>7
      <4>2. last[k] = BigEndian(8 * Len(input))[k - LengthAt + 1]
        BY <3>7 DEF LengthByte
      <4> QED
        BY <3>1, <3>2, <4>1, <4>2 DEF PaddedByte
    <3> QED
      BY <1>1, <3>4, <3>5, <3>6, <3>7
  <2> QED
    BY <1>3, <1>5, <2>1, <2>2
<1>9. Len(list) >= 1
  BY <1>3, <1>5
<1> HIDE DEF S
<1>10. FlattenSeq(Listed(list)) = Padded(input)
  BY <1>6, <1>7, <1>8, <1>9, SamePadded
<1> QED
  BY <1>4, <1>10

LEMMA TwoMoreBlocks ==
  ASSUME NEW input \in Seq(InputBytes), NEW c, NEW buffer, NEW d \in 0 .. BlockSize - 1,
         Kept(input, buffer, d, c), Len(input) = BlockSize * Len(c) + d,
         ~ (d < LengthAt), NEW end, NEW last,
         \A k \in 0 .. BlockSize - 1 : end[k] = EndedByte(buffer, d, k),
         \A k \in 0 .. BlockSize - 1 :
           last[k] = IF k < LengthAt THEN 0 ELSE LengthByte(input, k)
  PROVE  FlattenSeq(Listed(Append(Append(c, end), last))) = Padded(input)
<1>1. /\ BlockSize \in Nat \ {0} /\ LengthAt \in Nat \ {0} /\ LengthSize \in Nat \ {0}
      /\ LengthAt = BlockSize - LengthSize
  BY SizesPositive
<1>2. c \in Seq(Blocks)
  BY DEF Kept
<1>3. PICK L \in Nat, size \in Nat : L = Len(c) /\ size = BlockSize * L
  BY <1>1, <1>2
<1> DEFINE S == Blocks \union {end, last}
<1>4. PICK list \in Seq(S) : list = Append(Append(c, end), last)
  <2>1. c \in Seq(S) /\ end \in S /\ last \in S
    BY <1>2
  <2>2. Append(c, end) \in Seq(S)
    BY <2>1
  <2>3. Append(Append(c, end), last) \in Seq(S)
    BY <2>1, <2>2
  <2> QED
    BY <2>3
<1>5. /\ Len(list) = L + 2 /\ list[L + 1] = end /\ list[L + 2] = last
      /\ \A n \in 1 .. L : list[n] = c[n]
  <2>1. c \in Seq(S)
    BY <1>2
  <2>2. PICK one \in Seq(S) : one = Append(c, end)
    <3>1. Append(c, end) \in Seq(S)
      BY <2>1
    <3> QED
      BY <3>1
  <2>3. Len(one) = L + 1 /\ one[L + 1] = end /\ \A n \in 1 .. L : one[n] = c[n]
    BY <1>3, <2>1, <2>2
  <2>4. Len(list) = L + 2 /\ list[L + 2] = last /\ \A n \in 1 .. L + 1 : list[n] = one[n]
    BY <1>3, <1>4, <2>2, <2>3
  <2>5. L + 1 \in 1 .. L + 1 /\ \A n \in 1 .. L : n \in 1 .. L + 1
    BY <1>3
  <2> QED
    BY <2>3, <2>4, <2>5
<1>6. /\ BlockSize * Len(list) = size + BlockSize + BlockSize
      /\ BlockSize * (L + 1) = size + BlockSize
  <2>1. BlockSize * (L + 1) = size + BlockSize /\ L + 1 \in Nat
    BY <1>1, <1>3, TimesNext
  <2>2. BlockSize * ((L + 1) + 1) = BlockSize * (L + 1) + BlockSize
    BY <1>1, <2>1, TimesNext
  <2>3. (L + 1) + 1 = Len(list)
    BY <1>3, <1>5
  <2> QED
    BY <2>1, <2>2, <2>3
<1>7. PICK z \in 0 .. BlockSize - 1 :
        Len(input) + 1 + z + LengthSize = size + BlockSize + BlockSize
  <2>1. BlockSize + LengthAt - d - 1 \in 0 .. BlockSize - 1
        /\ Len(input) + 1 + (BlockSize + LengthAt - d - 1) + LengthSize
             = size + BlockSize + BlockSize
    BY <1>1, <1>3
  <2> QED
    BY <2>1
<1>8. ASSUME NEW n \in 1 .. Len(list), NEW k \in 0 .. BlockSize - 1
      PROVE  list[n][k] = PaddedByte(input, size + BlockSize + BlockSize,
                                     BlockSize * (n - 1) + k + 1)
  <2>1. CASE n <= L
    <3>1. n \in 1 .. L /\ n - 1 \in Nat
      BY <1>3, <1>5, <2>1
    <3>2. BlockSize * (n - 1) \in Nat /\ BlockSize * ((n - 1) + 1) = BlockSize * (n - 1) + BlockSize
      BY <1>1, <3>1, TimesNext
    <3>3. (n - 1) + 1 = n /\ BlockSize * n <= BlockSize * L
      <4>1. n \in Nat /\ n <= L
        BY <2>1, <3>1
      <4> QED
        BY <1>1, <1>3, <4>1, Times
    <3>4. BlockSize * (n - 1) + k + 1 <= Len(input)
      BY <1>1, <1>3, <3>2, <3>3
    <3>5. list[n][k] = input[BlockSize * (n - 1) + k + 1]
      BY <1>3, <1>5, <3>1 DEF Kept
    <3> QED
      BY <3>4, <3>5 DEF PaddedByte
  <2>2. CASE n = L + 1
    <3>1. list[n][k] = end[k] /\ BlockSize * (n - 1) + k + 1 = size + k + 1
      BY <1>3, <1>5, <2>2
    <3>2. PICK m \in Nat : m = size + k + 1
      BY <1>3
    <3>3. Len(input) = size + d
      BY <1>3
    <3>4. CASE k < d
      <4>1. m <= Len(input) /\ k \in 0 .. d - 1
        BY <1>1, <1>3, <3>2, <3>3, <3>4
      <4>2. end[k] = buffer[k]
        BY <3>4, <4>1 DEF EndedByte
      <4>3. buffer[k] = input[m]
        BY <1>3, <3>2, <4>1 DEF Kept
      <4> QED
        BY <3>1, <3>2, <4>1, <4>2, <4>3 DEF PaddedByte
    <3>5. CASE k = d
      <4>1. m = Len(input) + 1 /\ ~ (m <= Len(input))
        BY <1>3, <3>2, <3>3, <3>5
      <4>2. end[k] = 128
        BY <3>5 DEF EndedByte
      <4> QED
        BY <3>1, <3>2, <4>1, <4>2 DEF PaddedByte
    <3>6. CASE k > d
      <4>1. /\ m # Len(input) + 1 /\ ~ (m <= Len(input))
            /\ m <= (size + BlockSize + BlockSize) - LengthSize
        BY <1>1, <1>3, <3>2, <3>3, <3>6
      <4>2. end[k] = 0
        BY <3>6 DEF EndedByte
      <4> QED
        BY <3>1, <3>2, <4>1, <4>2 DEF PaddedByte
    <3> QED
      BY <1>1, <3>4, <3>5, <3>6
  <2>3. CASE n = L + 2
    <3>1. list[n][k] = last[k] /\ BlockSize * (n - 1) + k + 1 = size + BlockSize + k + 1
      <4>1. n - 1 = L + 1
        BY <1>3, <2>3
      <4> QED
        BY <1>5, <1>6, <2>3, <4>1
    <3>2. PICK m \in Nat : m = size + BlockSize + k + 1
      BY <1>1, <1>3
    <3>3. Len(input) = size + d
      BY <1>3
    <3>4. CASE k < LengthAt
      <4>1. /\ m # Len(input) + 1 /\ ~ (m <= Len(input))
            /\ m <= (size + BlockSize + BlockSize) - LengthSize
        BY <1>1, <1>3, <3>2, <3>3, <3>4
      <4>2. last[k] = 0
        BY <3>4
      <4> QED
        BY <3>1, <3>2, <4>1, <4>2 DEF PaddedByte
    <3>5. CASE ~ (k < LengthAt)
      <4>1. /\ m # Len(input) + 1 /\ ~ (m <= Len(input))
            /\ ~ (m <= (size + BlockSize + BlockSize) - LengthSize)
            /\ m - ((size + BlockSize + BlockSize) - LengthSize) = k - LengthAt + 1
        BY <1>1, <1>3, <3>2, <3>3, <3>5
      <4>2. last[k] = BigEndian(8 * Len(input))[k - LengthAt + 1]
        BY <3>5 DEF LengthByte
      <4> QED
        BY <3>1, <3>2, <4>1, <4>2 DEF PaddedByte
    <3> QED
      BY <3>4, <3>5
  <2>4. n <= L \/ n = L + 1 \/ n = L + 2
    BY <1>3, <1>5
  <2> QED
    BY <2>1, <2>2, <2>3, <2>4
<1>9. Len(list) >= 1
  BY <1>3, <1>5
<1> HIDE DEF S
<1>10. FlattenSeq(Listed(list)) = Padded(input)
  BY <1>6, <1>7, <1>8, <1>9, SamePadded
<1> QED
  BY <1>4, <1>10
-------------------------------------------------------------------------------
(* The invariant.                                                          *)
Absorbed ==
  /\ bitlen = 8 * BlockSize * Len(blocks)
  /\ taken = BlockSize * Len(blocks) + datalen
  /\ Kept(HashInput, data, datalen, blocks)

IInv ==
  /\ user \in Nat /\ word \in Nat
  /\ datalen \in 0 .. BlockSize - 1 /\ DOMAIN data = 0 .. BlockSize - 1
  /\ taken \in 0 .. Len(HashInput)
  /\ done \in BOOLEAN
  /\ ~done => Absorbed
  /\ done => taken = Len(HashInput)
  /\ HashesPaddedMessage

LEMMA Initial ==
  ASSUME Init
  PROVE  IInv
<1>1. user \in Nat /\ word \in Nat
  BY LengthsAssumption DEF Init
<1>2. HashInput \in Seq(InputBytes) /\ Len(HashInput) \in Nat
  BY <1>1, InputIs
<1>3. BlockSize \in Nat \ {0}
  BY SizesPositive
<1>4. data \in Blocks /\ DOMAIN data = 0 .. BlockSize - 1
  BY DEF Init, Blocks
<1>5. <<>> \in Seq(Blocks) /\ Len(<<>>) = 0
  OBVIOUS
<1>6. Kept(HashInput, data, datalen, blocks)
  BY <1>4, <1>5 DEF Init, Kept
<1>7. bitlen = 8 * BlockSize * Len(blocks) /\ taken = BlockSize * Len(blocks) + datalen
  BY <1>3, <1>5 DEF Init
<1>8. Absorbed /\ done = FALSE
  BY <1>6, <1>7 DEF Absorbed, Init
<1>9. taken \in 0 .. Len(HashInput) /\ datalen \in 0 .. BlockSize - 1
  BY <1>2, <1>3 DEF Init
<1>10. HashesPaddedMessage
  BY <1>8 DEF HashesPaddedMessage
<1> QED
  BY <1>1, <1>4, <1>8, <1>9, <1>10 DEF IInv

LEMMA UpdateInvariant ==
  ASSUME IInv, Update
  PROVE  IInv'
<1>1. PICK input \in Seq(InputBytes) : input = HashInput
  BY InputIs DEF IInv
<1>2. input = HashInput'
  BY <1>1 DEF Update, parts, HashInput
<1>3. /\ user' \in Nat /\ word' \in Nat /\ done' = FALSE /\ ~done
      /\ taken \in Nat /\ taken < Len(input) /\ taken' = taken + 1
      /\ datalen \in 0 .. BlockSize - 1 /\ BlockSize \in Nat \ {0}
  BY <1>1, SizesPositive DEF IInv, Update, parts
<1>4. /\ bitlen = 8 * BlockSize * Len(blocks) /\ taken = BlockSize * Len(blocks) + datalen
      /\ Kept(input, data, datalen, blocks)
  BY <1>1, <1>3 DEF IInv, Absorbed
<1>5. blocks \in Seq(Blocks)
  BY <1>4 DEF Kept
<1>6. PICK L \in Nat : L = Len(blocks)
  BY <1>5
<1>7. data' = [data EXCEPT ![datalen] = input[taken + 1]]
  BY <1>1 DEF Update
<1>8. PICK p \in 1 .. Len(input) : p = BlockSize * Len(blocks) + datalen + 1 /\ p = taken + 1
  <2>1. taken + 1 \in 1 .. Len(input) /\ taken + 1 = BlockSize * L + datalen + 1
    BY <1>3, <1>4, <1>6
  <2> QED
    BY <1>6, <2>1
<1>9. /\ Kept(input, data', datalen + 1, blocks)
      /\ datalen + 1 = BlockSize => Kept(input, data', 0, Append(blocks, data'))
  <2>1. data' = [data EXCEPT ![datalen] = input[p]]
    BY <1>7, <1>8
  <2> QED
    BY <1>3, <1>4, <1>8, <2>1, ByteKept
<1>10. DOMAIN data' = 0 .. BlockSize - 1 /\ taken' \in 0 .. Len(input)
  BY <1>3, <1>7 DEF IInv
<1>11. datalen' \in 0 .. BlockSize - 1 /\ Absorbed'
  <2>1. CASE datalen + 1 = BlockSize
    <3>1. blocks' = Append(blocks, data') /\ bitlen' = bitlen + 8 * BlockSize /\ datalen' = 0
      BY <2>1 DEF Update, Full, Transform
    <3>2. Len(blocks') = L + 1
      BY <1>5, <1>6, <3>1
    <3>3. BlockSize * (L + 1) = BlockSize * L + BlockSize /\ BlockSize * L \in Nat
      BY <1>3, TimesNext
    <3>4. taken' = BlockSize * (L + 1) + 0
      BY <1>3, <1>4, <1>6, <2>1, <3>3
    <3>5. bitlen' = 8 * BlockSize * (L + 1)
      <4>1. 8 * BlockSize * (L + 1) = 8 * BlockSize * L + 8 * BlockSize
        BY <1>3
      <4> QED
        BY <1>4, <1>6, <3>1, <4>1
    <3>6. Kept(HashInput', data', datalen', blocks')
      BY <1>2, <1>9, <2>1, <3>1
    <3>7. datalen' \in 0 .. BlockSize - 1
      BY <1>3, <3>1
    <3> QED
      BY <3>1, <3>2, <3>4, <3>5, <3>6, <3>7 DEF Absorbed
  <2>2. CASE datalen + 1 # BlockSize
    <3>1. blocks' = blocks /\ bitlen' = bitlen /\ datalen' = datalen + 1
      BY <2>2 DEF Update, Full
    <3>2. taken' = BlockSize * L + (datalen + 1)
      BY <1>3, <1>4, <1>6
    <3>3. Kept(HashInput', data', datalen', blocks')
      BY <1>2, <1>9, <3>1
    <3>4. datalen' \in 0 .. BlockSize - 1
      BY <1>3, <2>2, <3>1
    <3> QED
      BY <1>4, <1>6, <3>1, <3>2, <3>3, <3>4 DEF Absorbed
  <2> QED
    BY <2>1, <2>2
<1> QED
  BY <1>2, <1>3, <1>10, <1>11 DEF IInv, HashesPaddedMessage

LEMMA FinalInvariant ==
  ASSUME IInv, Final
  PROVE  IInv'
<1>1. PICK input \in Seq(InputBytes) : input = HashInput
  BY InputIs DEF IInv
<1>2. input = HashInput'
  BY <1>1 DEF Final, parts, HashInput
<1>3. PICK d \in 0 .. BlockSize - 1 : d = datalen
  BY DEF IInv
<1>4. /\ user' \in Nat /\ word' \in Nat /\ user' = user /\ word' = word
      /\ done' = TRUE /\ taken' = taken /\ datalen' = d
      /\ taken' = Len(input) /\ Len(input) \in Nat
  BY <1>1, <1>3 DEF IInv, Final, parts
<1>5. Absorbed
  BY DEF IInv, Final
<1>6. Kept(input, data, d, blocks) /\ Len(input) = BlockSize * Len(blocks) + d
  BY <1>1, <1>3, <1>4, <1>5 DEF Absorbed, Final
<1>7. BlockSize \in Nat \ {0} /\ LengthAt \in Nat
  BY SizesPositive
<1>8. PICK L \in Nat : L = Len(blocks)
  BY <1>6 DEF Kept
<1>9. bitlen' = 8 * Len(input)
  <2>1. bitlen' = 8 * BlockSize * L + 8 * d
    BY <1>3, <1>5, <1>8 DEF Absorbed, Final
  <2>2. 8 * (BlockSize * L + d) = 8 * BlockSize * L + 8 * d
    BY <1>7
  <2> QED
    BY <1>6, <1>8, <2>1, <2>2
<1>10. DOMAIN data = 0 .. BlockSize - 1
  BY DEF IInv
<1>11. ASSUME NEW end
       PROVE  /\ DOMAIN Ended(end) = 0 .. BlockSize - 1
              /\ \A k \in 0 .. BlockSize - 1 :
                   Ended(end)[k] = IF k = d THEN 128
                                   ELSE IF k > d /\ k < end THEN 0 ELSE data[k]
  BY <1>3, <1>10 DEF Ended
<1>12. ASSUME NEW buffer, DOMAIN buffer = 0 .. BlockSize - 1
       PROVE  /\ DOMAIN LengthWritten(buffer, bitlen') = 0 .. BlockSize - 1
              /\ \A k \in 0 .. BlockSize - 1 :
                   LengthWritten(buffer, bitlen')[k]
                     = IF k < LengthAt THEN buffer[k] ELSE LengthByte(input, k)
  BY <1>9, <1>12 DEF LengthWritten, LengthByte
<1>13. /\ DOMAIN data' = 0 .. BlockSize - 1
       /\ FlattenSeq(Listed(blocks')) = Padded(input)
  <2>1. CASE d < LengthAt
    <3>1. data' = LengthWritten(Ended(LengthAt), bitlen') /\ blocks' = Append(blocks, data')
      BY <1>3, <2>1 DEF Final, RoomForLength, Transform
    <3>2. /\ DOMAIN data' = 0 .. BlockSize - 1
          /\ \A k \in 0 .. BlockSize - 1 :
               data'[k] = IF k < LengthAt THEN Ended(LengthAt)[k] ELSE LengthByte(input, k)
      BY <1>11, <1>12, <3>1
    <3>3. ASSUME NEW k \in 0 .. BlockSize - 1
          PROVE  data'[k] = IF k < LengthAt THEN EndedByte(data, d, k)
                            ELSE LengthByte(input, k)
      BY <1>11, <3>2 DEF EndedByte
    <3>4. FlattenSeq(Listed(Append(blocks, data'))) = Padded(input)
      BY <1>6, <2>1, <3>3, OneMoreBlock
    <3> QED
      BY <3>1, <3>2, <3>4
  <2>2. CASE ~ (d < LengthAt)
    <3> DEFINE zeros == [k \in DOMAIN data |-> 0]
               end == Ended(BlockSize)
    <3>1. /\ data' = LengthWritten(zeros, bitlen')
          /\ blocks' = Append(Append(blocks, end), data')
      BY <1>3, <2>2 DEF Final, RoomForLength, Transform
    <3>2. DOMAIN zeros = 0 .. BlockSize - 1 /\ \A k \in 0 .. BlockSize - 1 : zeros[k] = 0
      BY <1>10
    <3>3. /\ DOMAIN data' = 0 .. BlockSize - 1
          /\ \A k \in 0 .. BlockSize - 1 :
               data'[k] = IF k < LengthAt THEN 0 ELSE LengthByte(input, k)
      <4> HIDE DEF zeros
      <4> QED
        BY <1>12, <3>1, <3>2
    <3>4. ASSUME NEW k \in 0 .. BlockSize - 1
          PROVE  end[k] = EndedByte(data, d, k)
      <4>1. k < BlockSize
        BY <1>7
      <4> QED
        BY <1>11, <4>1 DEF EndedByte
    <3> HIDE DEF end
    <3>5. /\ \A k \in 0 .. BlockSize - 1 : end[k] = EndedByte(data, d, k)
          /\ \A k \in 0 .. BlockSize - 1 :
               data'[k] = IF k < LengthAt THEN 0 ELSE LengthByte(input, k)
      BY <3>3, <3>4
    <3>6. FlattenSeq(Listed(Append(Append(blocks, end), data'))) = Padded(input)
      BY <1>6, <2>2, <3>5, TwoMoreBlocks
    <3> QED
      BY <3>1, <3>3, <3>6
  <2> QED
    BY <2>1, <2>2
<1>14. Len(Whole') <= InputSize => input = Whole'
  <2>1. Whole' = Whole
    BY <1>4 DEF Whole
  <2>2. Len(Whole) <= InputSize => HashInput = Whole
    BY InputIs DEF IInv
  <2> QED
    BY <1>1, <2>1, <2>2
<1>15. HashesPaddedMessage'
  BY <1>2, <1>13, <1>14 DEF HashesPaddedMessage, Listed, Whole
<1> QED
  BY <1>2, <1>3, <1>4, <1>13, <1>15 DEF IInv

LEMMA Stutter ==
  ASSUME IInv, UNCHANGED vars
  PROVE  IInv'
  BY DEF IInv, vars, parts, context, Absorbed, HashesPaddedMessage, HashInput, Kept

LEMMA Invariant == Spec => []IInv
<1>1. Init => IInv
  BY Initial
<1>2. IInv /\ [Next]_vars => IInv'
  BY UpdateInvariant, FinalInvariant, Stutter DEF Next
<1> QED
  BY <1>1, <1>2, PTL DEF Spec

(* The buffer has room for the next byte, and every byte taken is counted. *)
THEOREM TypeCorrect == Spec => []TypeOK
<1>1. IInv => TypeOK
  BY DEF IInv, Absorbed, TypeOK
<1> QED
  BY <1>1, Invariant, PTL

(* What is compressed is the padded message and nothing else, and the      *)
(* message is all of its parts if they fit into hash_input.                *)
THEOREM PaddingCorrect == Spec => []HashesPaddedMessage
<1>1. IInv => HashesPaddedMessage
  BY DEF IInv
<1> QED
  BY <1>1, Invariant, PTL
===============================================================================
