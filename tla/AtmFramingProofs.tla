---------------------------- MODULE AtmFramingProofs ----------------------------
(***************************************************************************)
(* AtmFraming for any messages, buffers and widths of the length field:    *)
(* however send and recv cut the bytes up, the receiver never reads more   *)
(* than its buffer holds, and messages arrive whole, in order and once.    *)
(*                                                                         *)
(* What is under way is a window of the stream of all bytes ever sent, and *)
(* the receiver stands in it at the message it reads next.  The stream is  *)
(* no variable: the invariant says that there is one.                      *)
(***************************************************************************)
EXTENDS AtmFraming, SequenceTheorems, WellFoundedInduction, TLAPS

Byte == 0 .. Base - 1

-------------------------------------------------------------------------------
(* ntohl gives back what htonl wrote.  Both are recursive functions of the *)
(* number of bytes; their induction takes a smallest counterexample.       *)
LEMMA LessThan ==
  \E R : IsWellFoundedOn(R, Nat) /\ \A x, y \in Nat : <<x, y>> \in R <=> x < y
<1> DEFINE R == OpToRel(<, Nat)
<1>1. IsWellFoundedOn(R, Nat)
  BY NatLessThanWellFounded
<1>2. \A x, y \in Nat : <<x, y>> \in R <=> x < y
  BY DEF OpToRel
<1> HIDE DEF R
<1> QED
  BY <1>1, <1>2

LEMMA LeastNumber ==
  ASSUME NEW S, S \subseteq Nat, S # {}
  PROVE  \E m \in S : \A k \in S : m <= k
<1>1. PICK R : IsWellFoundedOn(R, Nat) /\ \A x, y \in Nat : <<x, y>> \in R <=> x < y
  BY LessThan
<1>2. IsWellFoundedOn(R, Nat)
  BY <1>1
<1>3. PICK m \in S : \A y \in S : ~ (<<y, m>> \in R)
  BY <1>2, WFMin, Zenon
<1>4. ASSUME NEW k \in S
      PROVE  m <= k
  <2>1. k \in Nat /\ m \in Nat
    OBVIOUS
  <2>2. <<k, m>> \in R <=> k < m
    BY <1>1, <2>1, Zenon
  <2>3. ~ (<<k, m>> \in R)
    BY <1>3, Zenon
  <2>4. ~ (k < m)
    BY <2>2, <2>3, Zenon
  <2> QED
    BY <2>1, <2>4
<1> QED
  BY <1>4

Shifts(f, n, j) ==
  f = [k \in 0 .. j |-> IF k = 0 THEN n ELSE f[k - 1] \div Base]

(* There is such a function of any number of bytes.                        *)
LEMMA ShiftsExist ==
  ASSUME NEW n \in Nat, NEW j \in Nat
  PROVE  \E f : Shifts(f, n, j)
<1> DEFINE bad == {i \in Nat : ~ \E f : Shifts(f, n, i)}
<1>1. SUFFICES ASSUME bad # {}
               PROVE  FALSE
  OBVIOUS
<1>2. PICK least \in bad : \A i \in bad : least <= i
  <2>1. bad \subseteq Nat
    OBVIOUS
  <2> HIDE DEF bad
  <2> QED
    BY <1>1, <2>1, LeastNumber
<1>3. least \in Nat /\ ~ \E f : Shifts(f, n, least)
  OBVIOUS
<1>4. CASE least = 0
  <2> DEFINE g == [k \in 0 .. 0 |-> n]
  <2>1. g = [k \in 0 .. 0 |-> IF k = 0 THEN n ELSE g[k - 1] \div Base]
    <3>1. \A k \in 0 .. 0 : k = 0
      OBVIOUS
    <3> QED
      BY <3>1
  <2>2. Shifts(g, n, 0)
    BY <2>1 DEF Shifts
  <2> QED
    BY <1>3, <1>4, <2>2
<1>5. CASE least # 0
  <2>1. least - 1 \in Nat /\ ~ (least <= least - 1)
    BY <1>3, <1>5
  <2>2. PICK f : Shifts(f, n, least - 1)
    BY <1>2, <2>1
  <2> DEFINE g == [k \in 0 .. least |-> IF k = least THEN f[least - 1] \div Base ELSE f[k]]
  <2>3. ASSUME NEW k \in 0 .. least
        PROVE  g[k] = IF k = 0 THEN n ELSE g[k - 1] \div Base
    <3>1. CASE k = least
      <4>1. k - 1 \in 0 .. least /\ k - 1 # least /\ k - 1 = least - 1
        BY <1>3, <1>5, <3>1
      <4> QED
        BY <1>5, <3>1, <4>1
    <3>2. CASE k # least
      <4>1. k \in 0 .. least - 1
        BY <1>3, <3>2
      <4>2. f[k] = IF k = 0 THEN n ELSE f[k - 1] \div Base
        BY <2>2, <4>1 DEF Shifts
      <4>3. k # 0 => k - 1 \in 0 .. least /\ k - 1 # least
        BY <1>3, <3>2
      <4> QED
        BY <3>2, <4>2, <4>3
    <3> QED
      BY <3>1, <3>2
  <2>4. Shifts(g, n, least)
    <3>1. g = [k \in 0 .. least |-> g[k]]
      OBVIOUS
    <3> HIDE DEF g
    <3> QED
      BY <2>3, <3>1 DEF Shifts
  <2> QED
    BY <1>3, <2>4
<1> QED
  BY <1>4, <1>5

LEMMA Divided ==
  ASSUME NEW x \in Nat
  PROVE  /\ x \div Base \in Nat
         /\ x % Base \in Byte
         /\ x = (x \div Base) * Base + (x % Base)
<1>1. Base \in Nat \ {0}
  BY BaseAssumption
<1>2. x = (x \div Base) * Base + (x % Base)
  BY <1>1
<1>3. x % Base \in 0 .. Base - 1
  BY <1>1
<1>4. x \div Base \in Nat
  BY <1>1
<1> QED
  BY <1>2, <1>3, <1>4 DEF Byte

LEMMA ShiftedIs ==
  ASSUME NEW n \in Nat
  PROVE  /\ Shifted(n)[0] = n
         /\ \A k \in 0 .. LengthBytes : Shifted(n)[k] \in Nat
         /\ \A k \in 1 .. LengthBytes : Shifted(n)[k] = Shifted(n)[k - 1] \div Base
<1>1. LengthBytes \in Nat
  BY BaseAssumption
<1> DEFINE f == Shifted(n)
<1>2. f = [k \in 0 .. LengthBytes |-> IF k = 0 THEN n ELSE f[k - 1] \div Base]
  <2>1. \E g : Shifts(g, n, LengthBytes)
    BY <1>1, ShiftsExist
  <2>2. f = CHOOSE g : g = [k \in 0 .. LengthBytes |-> IF k = 0 THEN n ELSE g[k - 1] \div Base]
    BY DEF Shifted
  <2> HIDE DEF f
  <2> QED
    BY <2>1, <2>2, Zenon DEF Shifts
<1> HIDE DEF f
<1>3. f[0] = n /\ \A k \in 1 .. LengthBytes : f[k] = f[k - 1] \div Base
  <2>1. 0 \in 0 .. LengthBytes /\ \A k \in 1 .. LengthBytes : k \in 0 .. LengthBytes /\ k # 0
    BY <1>1
  <2> QED
    BY <1>2, <2>1
<1>4. \A k \in 0 .. LengthBytes : f[k] \in Nat
  <2> DEFINE bad == {k \in 0 .. LengthBytes : f[k] \notin Nat}
  <2>1. SUFFICES ASSUME bad # {}
                 PROVE  FALSE
    OBVIOUS
  <2>2. PICK least \in bad : \A i \in bad : least <= i
    <3>1. bad \subseteq Nat
      BY <1>1
    <3> HIDE DEF bad
    <3> QED
      BY <2>1, <3>1, LeastNumber
  <2>3. least \in 0 .. LengthBytes /\ f[least] \notin Nat
    OBVIOUS
  <2>4. least # 0
    BY <1>3, <2>3
  <2>5. least - 1 \in 0 .. LengthBytes /\ ~ (least <= least - 1) /\ least \in 1 .. LengthBytes
    BY <1>1, <2>3, <2>4
  <2>6. f[least - 1] \in Nat
    BY <2>2, <2>5
  <2>7. f[least - 1] \div Base \in Nat
    BY <2>6, Divided
  <2> QED
    BY <1>3, <2>3, <2>5, <2>7
<1> QED
  BY <1>3, <1>4 DEF f

LEMMA FieldGivesBack ==
  ASSUME NEW n \in Nat, FitsField(n)
  PROVE  /\ LengthField(n) \in [1 .. LengthBytes -> Byte]
         /\ FieldValue(LengthField(n)) = n
<1> DEFINE L == LengthBytes
           bytes == LengthField(n)
           Step(v) == [k \in 0 .. L |-> IF k = 0 THEN 0 ELSE v[k - 1] * Base + bytes[k]]
           value == CHOOSE v : v = Step(v)
<1>1. L \in Nat \ {0}
  BY BaseAssumption
<1>2. PICK f : /\ f = Shifted(n)
               /\ f[0] = n
               /\ \A k \in 0 .. L : f[k] \in Nat
               /\ \A k \in 1 .. L : f[k] = f[k - 1] \div Base
  BY ShiftedIs
<1>3. f[L] = 0
  BY <1>2 DEF FitsField
<1>4. bytes = [k \in 1 .. L |-> f[L - k] % Base]
  BY <1>2 DEF LengthField
<1>5. ASSUME NEW k \in 1 .. L
      PROVE  bytes[k] \in Byte /\ f[L - k] = f[(L - k) + 1] * Base + bytes[k]
  <2>1. L - k \in 0 .. L /\ (L - k) + 1 \in 1 .. L /\ ((L - k) + 1) - 1 = L - k
    BY <1>1
  <2>2. PICK x \in Nat : x = f[L - k]
    BY <1>2, <2>1
  <2>3. f[(L - k) + 1] = x \div Base
    BY <1>2, <2>1, <2>2
  <2>4. x % Base \in Byte /\ x = (x \div Base) * Base + (x % Base)
    BY Divided
  <2>5. bytes[k] = x % Base
    BY <1>4, <2>2
  <2> QED
    BY <2>2, <2>3, <2>4, <2>5
<1>6. bytes \in [1 .. L -> Byte]
  <2>1. bytes = [k \in 1 .. L |-> bytes[k]]
    BY <1>4
  <2> HIDE DEF bytes, L
  <2> QED
    BY <1>5, <2>1
<1> DEFINE upper == [k \in 0 .. L |-> f[L - k]]
<1>7. upper = Step(upper)
  <2> HIDE DEF bytes
  <2>1. ASSUME NEW k \in 0 .. L
        PROVE  upper[k] = IF k = 0 THEN 0 ELSE upper[k - 1] * Base + bytes[k]
    <3>1. CASE k = 0
      BY <1>1, <1>3, <3>1
    <3>2. CASE k # 0
      <4>1. k \in 1 .. L /\ k - 1 \in 0 .. L /\ L - (k - 1) = (L - k) + 1
        BY <1>1, <3>2
      <4> QED
        BY <1>5, <3>2, <4>1
    <3> QED
      BY <3>1, <3>2
  <2> QED
    BY <2>1
<1>8. value = Step(value)
  <2> HIDE DEF upper, Step
  <2> QED
    BY <1>7, Zenon
<1>9. FieldValue(bytes) = value[L]
  <2> HIDE DEF bytes
  <2> QED
    BY DEF FieldValue
<1>10. \A k \in 0 .. L : value[k] = f[L - k]
  <2> HIDE DEF value, bytes
  <2>1. \A k \in 0 .. L : value[k] = IF k = 0 THEN 0 ELSE value[k - 1] * Base + bytes[k]
    BY <1>8
  <2> DEFINE bad == {k \in 0 .. L : value[k] # f[L - k]}
  <2>2. SUFFICES ASSUME bad # {}
                 PROVE  FALSE
    OBVIOUS
  <2>3. PICK least \in bad : \A i \in bad : least <= i
    <3>1. bad \subseteq Nat
      BY <1>1
    <3> HIDE DEF bad
    <3> QED
      BY <2>2, <3>1, LeastNumber
  <2>4. least \in 0 .. L /\ value[least] # f[L - least]
    OBVIOUS
  <2>5. CASE least = 0
    BY <1>1, <1>3, <2>1, <2>4, <2>5
  <2>6. CASE least # 0
    <3>1. /\ least \in 1 .. L /\ least - 1 \in 0 .. L /\ ~ (least <= least - 1)
          /\ L - (least - 1) = (L - least) + 1
      BY <1>1, <2>4, <2>6
    <3>2. value[least - 1] = f[(L - least) + 1]
      BY <2>3, <3>1
    <3>3. f[L - least] = f[(L - least) + 1] * Base + bytes[least]
      BY <1>5, <3>1
    <3> QED
      BY <2>1, <2>4, <2>6, <3>2, <3>3
  <2> QED
    BY <2>5, <2>6
<1>11. L \in 0 .. L /\ L - L = 0
  BY <1>1
<1> QED
  BY <1>2, <1>6, <1>9, <1>10, <1>11

(* Whatever length fits the field, ntohl makes of it the number htonl got, *)
(* and the field is bytes (send_message, receive_message).                 *)
THEOREM LengthFieldCorrect ==
  \A m \in Texts : FitsField(Len(m)) =>
    /\ LengthField(Len(m)) \in [1 .. LengthBytes -> 0 .. Base - 1]
    /\ FieldValue(LengthField(Len(m))) = Len(m)
<1>1. \A m \in Texts : Len(m) \in Nat
  BY TextsAssumption
<1> QED
  BY <1>1, FieldGivesBack DEF Byte

-------------------------------------------------------------------------------

Types ==
  /\ put \in Seq(Texts)
  /\ unsent \in Seq(Byte) /\ wire \in Seq(Byte)
  /\ Len(wire) <= SocketBuffer
  /\ sending \in BOOLEAN
  /\ part \in {"length", "text", "drain", "ended"}
  /\ left \in Nat /\ (part = "ended" <=> left = 0)
  /\ buffer \in Seq(Byte)
  /\ received \in Seq(Seq(1 .. Base - 1))

(* The stream holds the frame of message k from start[k] on.               *)
Ascends(start, n) ==
  /\ start \in [1 .. n + 1 -> Nat]
  /\ start[1] = 0
  /\ \A j, k \in 1 .. n + 1 : j <= k => start[j] <= start[k]
Carries(stream, start) ==
  /\ Ascends(start, Len(put))
  /\ \A k \in 1 .. Len(put) :
       /\ FitsField(Len(put[k]))
       /\ start[k + 1] = start[k] + Len(Frame(put[k]))
       /\ \A p \in 1 .. Len(Frame(put[k])) : stream[start[k] + p] = Frame(put[k])[p]

(* What is on the wire comes next after the bytes taken, and then what is  *)
(* yet to be sent.                                                         *)
UnderWay(stream, start, taken) ==
  /\ taken \in Nat
  /\ \A p \in 1 .. Len(wire) : wire[p] = stream[taken + p]
  /\ sending =>
       /\ \A p \in 1 .. Len(unsent) : unsent[p] = stream[taken + Len(wire) + p]
       /\ taken + Len(wire) + Len(unsent) = start[Len(put) + 1]
  /\ ~sending => unsent = << >>
  /\ taken + Len(wire) <= start[Len(put) + 1]

(* Of the message after those received, the receiver has read a part.      *)
ReadFrom(stream, from, taken) ==
  /\ taken = from + Len(buffer)
  /\ \A p \in 1 .. Len(buffer) : buffer[p] = stream[from + p]

Reads(stream, start, taken) ==
  LET k == Len(received) + 1
  IN  /\ k <= Len(put) + 1
      /\ \A j \in 1 .. Len(received) : received[j] = put[j]
      /\ part = "length" =>
           /\ ReadFrom(stream, start[k], taken)
           /\ left = LengthBytes - Len(buffer)
      /\ part = "text" =>
           /\ k <= Len(put)
           /\ ReadFrom(stream, start[k] + LengthBytes, taken)
           /\ left = Len(put[k]) - Len(buffer)
           /\ Len(put[k]) + 1 <= BufferSize

Delivers(stream, start, taken) ==
  Carries(stream, start) /\ UnderWay(stream, start, taken) /\ Reads(stream, start, taken)

IInv == Types /\ \E stream, start, taken : Delivers(stream, start, taken)

-------------------------------------------------------------------------------
(* The first bytes of a sequence, and the rest.                            *)
LEMMA FirstBytes ==
  ASSUME NEW S, NEW s \in Seq(S), NEW n \in 0 .. Len(s)
  PROVE  /\ SubSeq(s, 1, n) \in Seq(S)
         /\ Len(SubSeq(s, 1, n)) = n
         /\ \A p \in 1 .. n : SubSeq(s, 1, n)[p] = s[p]
<1>1. Len(s) \in Nat /\ \A i \in 1 .. n : s[i] \in S
  BY LenProperties, ElementOfSeq
<1> QED
  BY <1>1, SubSeqProperties

LEMMA LastBytes ==
  ASSUME NEW S, NEW s \in Seq(S), NEW n \in 0 .. Len(s)
  PROVE  /\ SubSeq(s, n + 1, Len(s)) \in Seq(S)
         /\ Len(SubSeq(s, n + 1, Len(s))) = Len(s) - n
         /\ \A p \in 1 .. Len(s) - n : SubSeq(s, n + 1, Len(s))[p] = s[n + p]
<1>1. Len(s) \in Nat /\ \A i \in n + 1 .. Len(s) : s[i] \in S
  BY LenProperties, ElementOfSeq
<1>2. /\ SubSeq(s, n + 1, Len(s)) \in Seq(S)
      /\ Len(SubSeq(s, n + 1, Len(s))) = IF n + 1 <= Len(s) THEN Len(s) - (n + 1) + 1 ELSE 0
      /\ \A p \in 1 .. Len(s) - (n + 1) + 1 :
           SubSeq(s, n + 1, Len(s))[p] = s[(n + 1) + p - 1]
  BY <1>1, SubSeqProperties
<1> QED
  BY <1>1, <1>2

LEMMA TextIsBytes ==
  ASSUME NEW m \in Texts
  PROVE  /\ m \in Seq(1 .. Base - 1)
         /\ m \in Seq(Byte)
         /\ Len(m) \in Nat
<1>1. m \in Seq(1 .. Base - 1)
  BY TextsAssumption
<1>2. 1 .. Base - 1 \subseteq Byte
  BY BaseAssumption DEF Byte
<1> QED
  BY <1>1, <1>2, SeqMonotonic, LenProperties

LEMMA FieldIsBytes ==
  ASSUME NEW field \in [1 .. LengthBytes -> Byte]
  PROVE  field \in Seq(Byte) /\ Len(field) = LengthBytes
  BY BaseAssumption, SeqDef

LEMMA FrameBytes ==
  ASSUME NEW m \in Texts, FitsField(Len(m))
  PROVE  /\ Frame(m) \in Seq(Byte)
         /\ Len(Frame(m)) = LengthBytes + Len(m)
         /\ \A p \in 1 .. LengthBytes : Frame(m)[p] = LengthField(Len(m))[p]
         /\ \A p \in 1 .. Len(m) : Frame(m)[LengthBytes + p] = m[p]
<1> DEFINE field == LengthField(Len(m))
<1>1. field \in Seq(Byte) /\ Len(field) = LengthBytes
  <2>1. field \in [1 .. LengthBytes -> Byte]
    BY LengthFieldCorrect DEF Byte
  <2> HIDE DEF field
  <2> QED
    BY <2>1, FieldIsBytes
<1>2. Frame(m) = field \o m
  BY DEF Frame
<1>3. m \in Seq(Byte) /\ Len(m) \in Nat
  BY TextIsBytes
<1>4. LengthBytes \in Nat
  BY BaseAssumption
<1> HIDE DEF field
<1>5. /\ field \o m \in Seq(Byte)
      /\ Len(field \o m) = Len(field) + Len(m)
      /\ \A i \in 1 .. Len(field) + Len(m) :
           (field \o m)[i] = IF i <= Len(field) THEN field[i] ELSE m[i - Len(field)]
  BY <1>1, <1>3, ConcatProperties
<1>6. \A p \in 1 .. LengthBytes : (field \o m)[p] = field[p]
  BY <1>1, <1>3, <1>4, <1>5
<1>7. ASSUME NEW p \in 1 .. Len(m)
      PROVE  (field \o m)[LengthBytes + p] = m[p]
  <2>1. /\ LengthBytes + p \in 1 .. Len(field) + Len(m)
        /\ ~(LengthBytes + p <= Len(field))
        /\ (LengthBytes + p) - Len(field) = p
    BY <1>1, <1>3, <1>4
  <2> QED
    BY <1>5, <2>1
<1> QED
  BY <1>1, <1>2, <1>5, <1>6, <1>7 DEF field

LEMMA Lengths ==
  ASSUME Types
  PROVE  /\ Len(put) \in Nat /\ Len(wire) \in Nat /\ Len(unsent) \in Nat
         /\ Len(buffer) \in Nat /\ Len(received) \in Nat
         /\ \A k \in 1 .. Len(put) : put[k] \in Texts /\ Len(put[k]) \in Nat
         /\ LengthBytes \in Nat \ {0}
<1>1. /\ Len(put) \in Nat /\ Len(wire) \in Nat /\ Len(unsent) \in Nat
      /\ Len(buffer) \in Nat /\ Len(received) \in Nat
  BY LenProperties DEF Types
<1>2. \A k \in 1 .. Len(put) : put[k] \in Texts
  BY ElementOfSeq DEF Types
<1> QED
  BY <1>1, <1>2, TextIsBytes, BaseAssumption

-------------------------------------------------------------------------------
(* A stream that holds n frames is extended to hold one more.              *)
Extends(n, start, stream, frame, length, start2, stream2) ==
  /\ Ascends(start2, n + 1)
  /\ start2[n + 2] = start[n + 1] + length
  /\ \A k \in 1 .. n + 1 : start2[k] = start[k]
  /\ \A p \in 1 .. start[n + 1] : stream2[p] = stream[p]
  /\ \A p \in 1 .. length : stream2[start[n + 1] + p] = frame[p]

LEMMA StreamExtended ==
  ASSUME NEW n \in Nat, NEW start, NEW stream, Ascends(start, n), NEW frame, NEW length \in Nat
  PROVE  \E start2, stream2 : Extends(n, start, stream, frame, length, start2, stream2)
<1>1. /\ start \in [1 .. n + 1 -> Nat]
      /\ start[1] = 0
      /\ \A j, k \in 1 .. n + 1 : j <= k => start[j] <= start[k]
  BY DEF Ascends
<1>2. PICK end \in Nat : end = start[n + 1]
  BY <1>1
<1>3. PICK end2 \in Nat : end2 = end + length
  OBVIOUS
<1>4. PICK start2 : start2 = [k \in 1 .. n + 2 |-> IF k = n + 2 THEN end2 ELSE start[k]]
  OBVIOUS
<1>5. PICK stream2 : stream2 = [p \in 1 .. end2 |->
                                  IF p <= end THEN stream[p] ELSE frame[p - end]]
  OBVIOUS
<1>6. /\ start2 \in [1 .. n + 2 -> Nat]
      /\ \A k \in 1 .. n + 1 : start2[k] = start[k]
      /\ start2[n + 2] = end2
  BY <1>1, <1>4
<1>7. ASSUME NEW j \in 1 .. n + 2, NEW k \in 1 .. n + 2, j <= k
      PROVE  start2[j] <= start2[k]
  <2>1. CASE k \in 1 .. n + 1
    <3>1. j \in 1 .. n + 1
      BY <1>7, <2>1
    <3> QED
      BY <1>1, <1>6, <1>7, <2>1, <3>1
  <2>2. CASE k = n + 2 /\ j \in 1 .. n + 1
    <3>1. start[j] <= start[n + 1] /\ start[j] \in Nat
      BY <1>1, <2>2
    <3> QED
      BY <1>2, <1>3, <1>6, <2>2, <3>1
  <2>3. CASE k = n + 2 /\ j = n + 2
    BY <1>3, <1>6, <2>3
  <2> QED
    BY <1>7, <2>1, <2>2, <2>3
<1>8. Ascends(start2, n + 1)
  BY <1>1, <1>6, <1>7 DEF Ascends
<1>9. \A p \in 1 .. end : stream2[p] = stream[p]
  BY <1>3, <1>5
<1>10. ASSUME NEW p \in 1 .. length
       PROVE  stream2[end + p] = frame[p]
  <2>1. end + p \in 1 .. end2 /\ ~(end + p <= end) /\ (end + p) - end = p
    BY <1>3
  <2> QED
    BY <1>5, <2>1
<1>11. /\ start2[n + 2] = start[n + 1] + length
       /\ \A p \in 1 .. start[n + 1] : stream2[p] = stream[p]
       /\ \A p \in 1 .. length : stream2[start[n + 1] + p] = frame[p]
  BY <1>2, <1>3, <1>6, <1>9, <1>10
<1>12. Extends(n, start, stream, frame, length, start2, stream2)
  BY <1>6, <1>8, <1>11 DEF Extends
<1> QED
  BY <1>12

-------------------------------------------------------------------------------
(* Each step extends the stream, moves the window or moves the receiver.   *)
LEMMA FrameEnds ==
  ASSUME Types, NEW stream, NEW start, Carries(stream, start), NEW k \in 1 .. Len(put)
  PROVE  /\ start[k] \in Nat
         /\ start[k + 1] <= start[Len(put) + 1]
         /\ start[Len(put) + 1] \in Nat
         /\ Len(Frame(put[k])) \in Nat
         /\ \A p \in 1 .. Len(Frame(put[k])) : start[k] + p \in 1 .. start[Len(put) + 1]
<1>1. PICK n \in Nat : n = Len(put)
  BY Lengths
<1>2. /\ start \in [1 .. n + 1 -> Nat]
      /\ \A i, j \in 1 .. n + 1 : i <= j => start[i] <= start[j]
  BY <1>1 DEF Carries, Ascends
<1>3. k \in 1 .. n + 1 /\ k + 1 \in 1 .. n + 1 /\ n + 1 \in 1 .. n + 1
  BY <1>1
<1>4. start[k] \in Nat /\ start[k + 1] \in Nat /\ start[n + 1] \in Nat
  BY <1>2, <1>3
<1>5. start[k + 1] <= start[n + 1]
  BY <1>2, <1>3
<1>6. PICK length \in Nat : length = Len(Frame(put[k]))
  <2>1. put[k] \in Texts /\ FitsField(Len(put[k]))
    BY Lengths DEF Carries
  <2> QED
    BY <2>1, FrameBytes, LenProperties
<1>7. start[k + 1] = start[k] + length
  BY <1>6 DEF Carries
<1>8. ASSUME NEW from \in Nat, NEW end \in Nat, NEW p \in 1 .. length, from + length <= end
      PROVE  from + p \in 1 .. end
  BY <1>8
<1>9. \A p \in 1 .. length : start[k] + p \in 1 .. start[n + 1]
  BY <1>4, <1>5, <1>7, <1>8
<1> QED
  BY <1>1, <1>4, <1>5, <1>6, <1>9

LEMMA SendMessageStep ==
  ASSUME IInv, NEW m \in Texts, SendMessage(m)
  PROVE  IInv' /\ put' = Append(put, m) /\ UNCHANGED <<received, part>>
<1>1. PICK stream, start, taken : Delivers(stream, start, taken)
  BY DEF IInv
<1>2. /\ Types
      /\ sending
      /\ unsent = << >>
      /\ FitsField(Len(m))
      /\ put' = Append(put, m)
      /\ unsent' = Frame(m)
      /\ UNCHANGED <<sending, wire, part, left, buffer, received>>
  BY DEF IInv, SendMessage, receiverVars
<1>3. PICK n \in Nat : n = Len(put)
  BY <1>2, Lengths
<1>4. /\ put' \in Seq(Texts)
      /\ Len(put') = n + 1
      /\ \A k \in 1 .. n : put'[k] = put[k]
      /\ put'[n + 1] = m
  BY <1>2, <1>3, AppendProperties DEF Types
<1>5. Frame(m) \in Seq(Byte)
  BY <1>2, FrameBytes
<1>6. PICK length \in Nat : length = Len(Frame(m))
  BY <1>5, LenProperties
<1>7. Types'
  BY <1>2, <1>4, <1>5 DEF Types
<1>8. Carries(stream, start) /\ UnderWay(stream, start, taken) /\ Reads(stream, start, taken)
  BY <1>1 DEF Delivers
<1>9. Ascends(start, n)
  BY <1>3, <1>8 DEF Carries
<1>10. PICK start2, stream2 : Extends(n, start, stream, Frame(m), length, start2, stream2)
  BY <1>9, StreamExtended
<1>11. PICK end \in Nat : end = start[n + 1]
  BY <1>9 DEF Ascends
<1>12. /\ Ascends(start2, n + 1)
       /\ start2[n + 2] = end + length
       /\ \A k \in 1 .. n + 1 : start2[k] = start[k]
       /\ \A p \in 1 .. end : stream2[p] = stream[p]
       /\ \A p \in 1 .. length : stream2[end + p] = Frame(m)[p]
  BY <1>10, <1>11 DEF Extends
<1>13. Carries(stream2, start2)'
  <2>1. ASSUME NEW k \in 1 .. n
        PROVE  /\ FitsField(Len(put'[k]))
               /\ start2[k + 1] = start2[k] + Len(Frame(put'[k]))
               /\ \A p \in 1 .. Len(Frame(put'[k])) :
                    stream2[start2[k] + p] = Frame(put'[k])[p]
    <3>1. /\ FitsField(Len(put[k]))
          /\ start[k + 1] = start[k] + Len(Frame(put[k]))
          /\ \A p \in 1 .. Len(Frame(put[k])) : stream[start[k] + p] = Frame(put[k])[p]
      BY <1>3, <1>8 DEF Carries
    <3>2. k \in 1 .. n + 1 /\ k + 1 \in 1 .. n + 1
      OBVIOUS
    <3>3. put'[k] = put[k] /\ start2[k] = start[k] /\ start2[k + 1] = start[k + 1]
      BY <1>4, <1>12, <3>2
    <3>4. \A p \in 1 .. Len(Frame(put[k])) : start[k] + p \in 1 .. end
      BY <1>2, <1>3, <1>8, <1>11, FrameEnds
    <3> QED
      BY <1>12, <3>1, <3>3, <3>4
  <2>2. /\ FitsField(Len(put'[n + 1]))
        /\ start2[n + 1 + 1] = start2[n + 1] + Len(Frame(put'[n + 1]))
        /\ \A p \in 1 .. Len(Frame(put'[n + 1])) :
             stream2[start2[n + 1] + p] = Frame(put'[n + 1])[p]
    <3>1. n + 1 + 1 = n + 2 /\ n + 1 \in 1 .. n + 1
      OBVIOUS
    <3>2. start2[n + 1] = end
      BY <1>11, <1>12, <3>1
    <3> QED
      BY <1>2, <1>4, <1>6, <1>12, <3>1, <3>2
  <2>3. \A k \in 1 .. n + 1 : k \in 1 .. n \/ k = n + 1
    OBVIOUS
  <2>4. \A k \in 1 .. n + 1 :
          /\ FitsField(Len(put'[k]))
          /\ start2[k + 1] = start2[k] + Len(Frame(put'[k]))
          /\ \A p \in 1 .. Len(Frame(put'[k])) :
               stream2[start2[k] + p] = Frame(put'[k])[p]
    BY <2>1, <2>2, <2>3
  <2> QED
    BY <1>4, <1>12, <2>4 DEF Carries
<1>14. PICK w \in Nat : w = Len(wire)
  BY <1>2, Lengths
<1>15. /\ taken \in Nat
       /\ taken + w = end
       /\ \A p \in 1 .. w : wire[p] = stream[taken + p]
  <2>1. Len(unsent) = 0
    BY <1>2, EmptySeq
  <2> QED
    BY <1>2, <1>3, <1>8, <1>11, <1>14, <2>1 DEF UnderWay
<1>16. UnderWay(stream2, start2, taken)'
  <2>1. \A p \in 1 .. w : taken + p \in 1 .. end
    BY <1>15
  <2>2. \A p \in 1 .. w : wire[p] = stream2[taken + p]
    BY <1>12, <1>15, <2>1
  <2>3. start2[Len(put') + 1] = end + length
    BY <1>4, <1>12
  <2>4. \A p \in 1 .. length : Frame(m)[p] = stream2[taken + w + p]
    BY <1>12, <1>15
  <2>5. taken + w + length = end + length /\ taken + w <= end + length
    BY <1>15
  <2> QED
    BY <1>2, <1>6, <1>14, <1>15, <2>2, <2>3, <2>4, <2>5 DEF UnderWay
<1>17. Reads(stream2, start2, taken)'
  <2>0. PICK k \in Nat \ {0} : k = Len(received) + 1
    BY <1>2, Lengths
  <2>1. /\ k \in 1 .. n + 1
        /\ \A j \in 1 .. Len(received) : received[j] = put[j] /\ j \in 1 .. n
    BY <1>2, <1>3, <1>8, <2>0, Lengths DEF Reads
  <2>2. start2[k] = start[k] /\ start[k] \in Nat
    BY <1>9, <1>12, <2>1 DEF Ascends
  <2>3. ASSUME NEW from \in Nat, ReadFrom(stream, from, taken)
        PROVE  ReadFrom(stream2, from, taken)'
    <3>1. PICK b \in Nat : b = Len(buffer)
      BY <1>2, Lengths
    <3>2. taken = from + b /\ \A p \in 1 .. b : buffer[p] = stream[from + p]
      BY <2>3, <3>1 DEF ReadFrom
    <3>3. \A p \in 1 .. b : from + p \in 1 .. end
      BY <1>15, <3>2
    <3>4. \A p \in 1 .. b : buffer[p] = stream2[from + p]
      BY <1>12, <3>2, <3>3
    <3> QED
      BY <1>2, <3>1, <3>2, <3>4 DEF ReadFrom
  <2>4. ASSUME part = "length"
        PROVE  ReadFrom(stream2, start2[k], taken)' /\ left = LengthBytes - Len(buffer)
    <3>1. ReadFrom(stream, start[k], taken) /\ left = LengthBytes - Len(buffer)
      BY <1>8, <2>0, <2>4 DEF Reads
    <3>2. ReadFrom(stream2, start[k], taken)'
      BY <2>2, <2>3, <3>1
    <3> QED
      BY <2>2, <3>1, <3>2
  <2>5. ASSUME part = "text"
        PROVE  /\ k <= n
               /\ ReadFrom(stream2, start2[k] + LengthBytes, taken)'
               /\ left = Len(put'[k]) - Len(buffer)
               /\ Len(put'[k]) + 1 <= BufferSize
    <3>1. /\ k <= n
          /\ ReadFrom(stream, start[k] + LengthBytes, taken)
          /\ left = Len(put[k]) - Len(buffer)
          /\ Len(put[k]) + 1 <= BufferSize
      BY <1>3, <1>8, <2>0, <2>5 DEF Reads
    <3>2. put'[k] = put[k]
      BY <1>4, <3>1
    <3>3. start[k] + LengthBytes \in Nat
      BY <2>2, BaseAssumption
    <3>4. ReadFrom(stream2, start[k] + LengthBytes, taken)'
      BY <2>3, <3>1, <3>3
    <3> QED
      BY <2>2, <3>1, <3>2, <3>4
  <2>6. k <= Len(put') + 1 /\ \A j \in 1 .. Len(received) : received[j] = put'[j]
    BY <1>4, <2>1
  <2>7. k <= n => k <= Len(put')
    BY <1>4
  <2> QED
    BY <1>2, <2>0, <2>4, <2>5, <2>6, <2>7 DEF Reads
<1> QED
  BY <1>2, <1>7, <1>13, <1>16, <1>17 DEF IInv, Delivers

LEMMA WriteStep ==
  ASSUME IInv, Write
  PROVE  IInv' /\ UNCHANGED <<put, received, part>>
<1>1. PICK stream, start, taken : Delivers(stream, start, taken)
  BY DEF IInv
<1>2. /\ Types
      /\ sending
      /\ UNCHANGED <<put, sending, part, left, buffer, received>>
  BY DEF IInv, Write, receiverVars
<1>3. PICK n \in 1 .. Len(unsent) :
        /\ Len(wire) + n <= SocketBuffer
        /\ wire' = wire \o SubSeq(unsent, 1, n)
        /\ unsent' = SubSeq(unsent, n + 1, Len(unsent))
  BY DEF Write, Rest
<1>4. PICK u \in Nat, w \in Nat : u = Len(unsent) /\ w = Len(wire)
  BY <1>2, Lengths
<1>5. n \in 0 .. Len(unsent) /\ n \in 1 .. u
  BY <1>3, <1>4
<1>6. unsent \in Seq(Byte) /\ wire \in Seq(Byte)
  BY <1>2 DEF Types
<1> DEFINE first == SubSeq(unsent, 1, n)
<1>7. /\ first \in Seq(Byte)
      /\ Len(first) = n
      /\ \A p \in 1 .. n : first[p] = unsent[p]
  BY <1>5, <1>6, FirstBytes
<1>8. /\ unsent' \in Seq(Byte)
      /\ Len(unsent') = u - n
      /\ \A p \in 1 .. u - n : unsent'[p] = unsent[n + p]
  BY <1>3, <1>4, <1>5, <1>6, LastBytes
<1>9. wire' = wire \o first
  BY <1>3
<1> HIDE DEF first
<1>10. /\ wire' \in Seq(Byte)
       /\ Len(wire') = w + n
       /\ \A p \in 1 .. w + n : wire'[p] = IF p <= w THEN wire[p] ELSE first[p - w]
  BY <1>4, <1>6, <1>7, <1>9, ConcatProperties
<1>11. Types'
  BY <1>2, <1>3, <1>4, <1>8, <1>10 DEF Types
<1>12. Carries(stream, start)' /\ Reads(stream, start, taken)'
  BY <1>1, <1>2 DEF Delivers, Carries, Reads, ReadFrom
<1>13. /\ taken \in Nat
       /\ \A p \in 1 .. w : wire[p] = stream[taken + p]
       /\ \A p \in 1 .. u : unsent[p] = stream[taken + w + p]
       /\ taken + w + u = start[Len(put) + 1]
  BY <1>1, <1>2, <1>4 DEF Delivers, UnderWay
<1>14. ASSUME NEW p \in 1 .. w + n
       PROVE  wire'[p] = stream[taken + p]
  <2>1. CASE p <= w
    BY <1>10, <1>13, <2>1
  <2>2. CASE ~(p <= w)
    <3>1. PICK q \in Int : q = p - w
      OBVIOUS
    <3>2. q \in 1 .. n /\ q \in 1 .. u /\ taken + w + q = taken + p
      BY <1>5, <1>13, <2>2, <3>1
    <3>3. wire'[p] = first[q]
      BY <1>10, <2>2, <3>1
    <3>4. first[q] = unsent[q] /\ unsent[q] = stream[taken + w + q]
      BY <1>7, <1>13, <3>2
    <3> QED
      BY <3>2, <3>3, <3>4
  <2> QED
    BY <2>1, <2>2
<1>15. ASSUME NEW p \in 1 .. u - n
       PROVE  unsent'[p] = stream[taken + (w + n) + p]
  <2>1. n + p \in 1 .. u /\ taken + w + (n + p) = taken + (w + n) + p
    BY <1>5, <1>13
  <2> QED
    BY <1>8, <1>13, <2>1
<1>16. taken + (w + n) + (u - n) = taken + w + u /\ taken + (w + n) <= taken + w + u
  BY <1>5, <1>13
<1>17. UnderWay(stream, start, taken)'
  BY <1>2, <1>8, <1>10, <1>13, <1>14, <1>15, <1>16 DEF UnderWay
<1> QED
  BY <1>2, <1>11, <1>12, <1>17 DEF IInv, Delivers

LEMMA CloseStep ==
  ASSUME IInv, Close
  PROVE  IInv' /\ UNCHANGED <<put, received, part>>
<1>1. PICK stream, start, taken : Delivers(stream, start, taken)
  BY DEF IInv
<1>2. /\ Types
      /\ sending' = FALSE
      /\ unsent' = << >>
      /\ wire' = wire \/ wire' = << >>
      /\ UNCHANGED <<put, part, left, buffer, received>>
  BY DEF IInv, Close, receiverVars
<1>3. Carries(stream, start)' /\ Reads(stream, start, taken)'
  BY <1>1, <1>2 DEF Delivers, Carries, Reads, ReadFrom
<1>4. << >> \in Seq(Byte) /\ Len(<< >>) = 0
  BY EmptySeq
<1>5. PICK w \in Nat : w = Len(wire)
  BY <1>2, Lengths
<1>6. /\ taken \in Nat
      /\ \A p \in 1 .. w : wire[p] = stream[taken + p]
      /\ taken + w <= start[Len(put) + 1]
      /\ start[Len(put) + 1] \in Nat
  <2>1. Len(put) + 1 \in 1 .. Len(put) + 1
    BY <1>2, Lengths
  <2> QED
    BY <1>1, <1>5, <2>1 DEF Delivers, UnderWay, Carries, Ascends
<1>7. Types'
  <2>1. wire' = wire => wire' \in Seq(Byte) /\ Len(wire') <= SocketBuffer
    BY <1>2 DEF Types
  <2>2. wire' = << >> => wire' \in Seq(Byte) /\ Len(wire') <= SocketBuffer
    <3>1. 0 <= SocketBuffer
      BY BufferAssumption
    <3> QED
      BY <1>4, <3>1
  <2> QED
    BY <1>2, <1>4, <2>1, <2>2 DEF Types
<1>8. UnderWay(stream, start, taken)'
  <2>1. CASE wire' = wire
    BY <1>2, <1>5, <1>6, <2>1 DEF UnderWay
  <2>2. CASE wire' = << >>
    <3>1. taken + 0 <= start[Len(put) + 1]
      BY <1>6
    <3>2. \A p \in 1 .. 0 : FALSE
      OBVIOUS
    <3> QED
      BY <1>2, <1>4, <1>6, <2>2, <3>1, <3>2 DEF UnderWay
  <2> QED
    BY <1>2, <2>1, <2>2
<1> QED
  BY <1>2, <1>3, <1>7, <1>8 DEF IInv, Delivers

LEMMA ReadEndStep ==
  ASSUME IInv, ReadEnd
  PROVE  IInv' /\ part' = "ended" /\ UNCHANGED <<put, received>>
<1>1. PICK stream, start, taken : Delivers(stream, start, taken)
  BY DEF IInv
<1>2. /\ Types
      /\ part' = "ended" /\ left' = 0 /\ buffer' = << >>
      /\ UNCHANGED <<put, unsent, sending, wire, received>>
  BY DEF IInv, ReadEnd, senderVars
<1>3. Types'
  BY <1>2, EmptySeq DEF Types
<1>4. Carries(stream, start)' /\ UnderWay(stream, start, taken)' /\ Reads(stream, start, taken)'
  BY <1>1, <1>2 DEF Delivers, Carries, UnderWay, Reads
<1> QED
  BY <1>2, <1>3, <1>4 DEF IInv, Delivers

-------------------------------------------------------------------------------
(* One call of recv: the window moves on, and the bytes it leaves behind   *)
(* are added to the part.                                                  *)
CanRead(stream, start, taken, n, from, bytes) ==
  /\ Types
  /\ UnderWay(stream, start, taken)
  /\ n \in 1 .. Len(wire)
  /\ from \in Nat
  /\ ReadFrom(stream, from, taken)
  /\ bytes = buffer \o SubSeq(wire, 1, n)

LEMMA BytesRead ==
  ASSUME NEW stream, NEW start, NEW taken, NEW n, NEW from, NEW bytes,
         CanRead(stream, start, taken, n, from, bytes)
  PROVE  /\ bytes \in Seq(Byte)
         /\ Len(bytes) = Len(buffer) + n
         /\ Len(bytes) \in Nat
         /\ \A p \in 1 .. Len(bytes) : bytes[p] = stream[from + p]
         /\ taken + n = from + Len(bytes)
<1>0. /\ Types
      /\ UnderWay(stream, start, taken)
      /\ n \in 1 .. Len(wire)
      /\ from \in Nat
      /\ ReadFrom(stream, from, taken)
      /\ bytes = buffer \o SubSeq(wire, 1, n)
  BY DEF CanRead
<1>1. PICK b \in Nat, w \in Nat : b = Len(buffer) /\ w = Len(wire)
  BY <1>0, Lengths
<1>2. n \in 0 .. Len(wire) /\ n \in 1 .. w
  BY <1>0, <1>1
<1>3. buffer \in Seq(Byte) /\ wire \in Seq(Byte)
  BY <1>0 DEF Types
<1> DEFINE first == SubSeq(wire, 1, n)
<1>4. /\ first \in Seq(Byte)
      /\ Len(first) = n
      /\ \A p \in 1 .. n : first[p] = wire[p]
  BY <1>2, <1>3, FirstBytes
<1>5. bytes = buffer \o first
  BY <1>0
<1> HIDE DEF first
<1>6. /\ bytes \in Seq(Byte)
      /\ Len(bytes) = b + n
      /\ \A p \in 1 .. b + n : bytes[p] = IF p <= b THEN buffer[p] ELSE first[p - b]
  BY <1>1, <1>3, <1>4, <1>5, ConcatProperties
<1>7. /\ taken = from + b
      /\ \A p \in 1 .. b : buffer[p] = stream[from + p]
      /\ \A p \in 1 .. w : wire[p] = stream[taken + p]
  BY <1>0, <1>1 DEF ReadFrom, UnderWay
<1>8. ASSUME NEW p \in 1 .. b + n
      PROVE  bytes[p] = stream[from + p]
  <2>1. CASE p <= b
    BY <1>0, <1>6, <1>7, <2>1
  <2>2. CASE ~(p <= b)
    <3>1. p - b \in 1 .. n /\ p - b \in 1 .. w /\ taken + (p - b) = from + p
      BY <1>0, <1>2, <1>7, <2>2
    <3> QED
      BY <1>0, <1>4, <1>6, <1>7, <2>2, <3>1
  <2> QED
    BY <2>1, <2>2
<1>9. taken + n = from + (b + n)
  BY <1>0, <1>7
<1> QED
  BY <1>1, <1>6, <1>8, <1>9

LEMMA WindowMoves ==
  ASSUME Types, NEW stream, NEW start, NEW taken, UnderWay(stream, start, taken),
         NEW n \in 1 .. Len(wire), wire' = SubSeq(wire, n + 1, Len(wire)), UNCHANGED senderVars,
         start[Len(put) + 1] \in Nat
  PROVE  /\ UnderWay(stream, start, taken + n)'
         /\ wire' \in Seq(Byte) /\ Len(wire') <= SocketBuffer
         /\ taken + n <= start[Len(put) + 1]
<1>1. PICK w \in Nat, u \in Nat : w = Len(wire) /\ u = Len(unsent)
  BY Lengths
<1>2. n \in 0 .. Len(wire) /\ n \in 1 .. w
  BY <1>1
<1>3. wire \in Seq(Byte) /\ w <= SocketBuffer
  BY <1>1 DEF Types
<1>4. /\ wire' \in Seq(Byte)
      /\ Len(wire') = w - n
      /\ \A p \in 1 .. w - n : wire'[p] = wire[n + p]
  BY <1>1, <1>2, <1>3, LastBytes
<1>5. /\ taken \in Nat
      /\ \A p \in 1 .. w : wire[p] = stream[taken + p]
      /\ sending =>
           /\ \A p \in 1 .. u : unsent[p] = stream[taken + w + p]
           /\ taken + w + u = start[Len(put) + 1]
      /\ ~sending => unsent = << >>
      /\ taken + w <= start[Len(put) + 1]
  BY <1>1 DEF UnderWay
<1>6. taken + n \in Nat /\ (taken + n) + (w - n) = taken + w
  BY <1>2, <1>5
<1>7. ASSUME NEW p \in 1 .. w - n
      PROVE  wire'[p] = stream[(taken + n) + p]
  <2>1. n + p \in 1 .. w /\ taken + (n + p) = (taken + n) + p
    BY <1>2, <1>5
  <2> QED
    BY <1>4, <1>5, <2>1
<1>8. UNCHANGED <<put, unsent, sending>>
  BY DEF senderVars
<1>9. UnderWay(stream, start, taken + n)'
  BY <1>1, <1>4, <1>5, <1>6, <1>7, <1>8 DEF UnderWay
<1>10. w - n <= SocketBuffer
  BY <1>2, <1>3, BufferAssumption
<1>11. Len(wire') <= SocketBuffer
  BY <1>4, <1>10
<1>12. taken + n <= start[Len(put) + 1]
  <2>1. PICK end \in Nat : end = start[Len(put) + 1]
    OBVIOUS
  <2>2. taken \in Nat /\ n <= w /\ taken + w <= end
    BY <1>2, <1>5, <2>1
  <2>3. taken + n <= end
    BY <1>2, <2>2
  <2> QED
    BY <2>1, <2>3
<1> QED
  BY <1>4, <1>9, <1>11, <1>12

(* What Read does, with the number of bytes named: it goes on with the     *)
(* part, or ends it.                                                       *)
ReadOf(n, bytes) ==
  /\ part # "ended"
  /\ n \in 1 .. Len(wire)
  /\ n <= left
  /\ bytes = IF part = "drain" THEN << >> ELSE buffer \o SubSeq(wire, 1, n)
  /\ IF n = left THEN PartRead(bytes)
                 ELSE left' = left - n /\ buffer' = bytes /\ UNCHANGED <<part, received>>
  /\ wire' = SubSeq(wire, n + 1, Len(wire))
  /\ UNCHANGED senderVars

LEMMA ReadIsReadOf ==
  ASSUME Read
  PROVE  \E n, bytes : ReadOf(n, bytes)
  BY DEF Read, ReadOf

(* What holds before the call, with the stream named.                      *)
Before(stream, start, taken, n, bytes, k) ==
  /\ Types
  /\ Delivers(stream, start, taken)
  /\ ReadOf(n, bytes)
  /\ k = Len(received) + 1

LEMMA BeforeMeans ==
  ASSUME NEW stream, NEW start, NEW taken, NEW n, NEW bytes, NEW k,
         Before(stream, start, taken, n, bytes, k)
  PROVE  /\ Types
         /\ Carries(stream, start)
         /\ Carries(stream, start)'
         /\ UnderWay(stream, start, taken + n)'
         /\ wire' \in Seq(Byte) /\ Len(wire') <= SocketBuffer
         /\ taken + n <= start[Len(put) + 1]
         /\ n \in Nat \ {0} /\ n <= left
         /\ k \in 1 .. Len(put) + 1
         /\ start[k] \in Nat
         /\ \A j \in 1 .. Len(received) : received[j] = put[j]
         /\ UNCHANGED <<put, unsent, sending>>
<1>1. /\ Types
      /\ Carries(stream, start)
      /\ UnderWay(stream, start, taken)
      /\ Reads(stream, start, taken)
      /\ n \in 1 .. Len(wire) /\ n <= left
      /\ wire' = SubSeq(wire, n + 1, Len(wire))
      /\ UNCHANGED senderVars
      /\ k = Len(received) + 1
  BY DEF Before, Delivers, ReadOf
<1>2. UNCHANGED <<put, unsent, sending>>
  BY <1>1 DEF senderVars
<1>3. Len(put) \in Nat /\ Len(received) \in Nat /\ Len(wire) \in Nat
  BY <1>1, Lengths
<1>4. k \in 1 .. Len(put) + 1 /\ \A j \in 1 .. Len(received) : received[j] = put[j]
  BY <1>1, <1>3 DEF Reads
<1>5. start[k] \in Nat /\ start[Len(put) + 1] \in Nat
  BY <1>1, <1>3, <1>4 DEF Carries, Ascends
<1>6. Carries(stream, start)'
  BY <1>1, <1>2 DEF Carries
<1>7. /\ UnderWay(stream, start, taken + n)'
      /\ wire' \in Seq(Byte) /\ Len(wire') <= SocketBuffer
      /\ taken + n <= start[Len(put) + 1]
  BY <1>1, <1>5, WindowMoves
<1> QED
  BY <1>1, <1>2, <1>3, <1>4, <1>5, <1>6, <1>7

(* Where the length of message k stands in the stream, there is a message  *)
(* k, and the length is its.                                               *)
LEMMA LengthArrived ==
  ASSUME NEW stream, NEW start, NEW taken, NEW n, NEW bytes, NEW k,
         Before(stream, start, taken, n, bytes, k), part = "length"
  PROVE  /\ bytes \in Seq(Byte)
         /\ Len(bytes) = Len(buffer) + n
         /\ \A p \in 1 .. Len(bytes) : bytes[p] = stream[start[k] + p]
         /\ taken + n = start[k] + Len(bytes)
         /\ left = LengthBytes - Len(buffer)
         /\ k \in 1 .. Len(put)
<1>1. /\ Types
      /\ taken + n <= start[Len(put) + 1]
      /\ n \in Nat \ {0}
      /\ k \in 1 .. Len(put) + 1
      /\ start[k] \in Nat
  BY BeforeMeans
<1>2. /\ UnderWay(stream, start, taken)
      /\ ReadFrom(stream, start[k], taken)
      /\ left = LengthBytes - Len(buffer)
      /\ n \in 1 .. Len(wire)
      /\ bytes = buffer \o SubSeq(wire, 1, n)
  BY DEF Before, Delivers, Reads, ReadOf
<1>3. /\ bytes \in Seq(Byte)
      /\ Len(bytes) = Len(buffer) + n
      /\ Len(bytes) \in Nat
      /\ \A p \in 1 .. Len(bytes) : bytes[p] = stream[start[k] + p]
      /\ taken + n = start[k] + Len(bytes)
  <2>1. PICK from \in Nat : from = start[k]
    BY <1>1
  <2>2. ReadFrom(stream, from, taken)
    BY <1>2, <2>1
  <2>3. CanRead(stream, start, taken, n, from, bytes)
    BY <1>1, <1>2, <2>2 DEF CanRead
  <2> QED
    BY <2>1, <2>3, BytesRead
<1>4. Len(buffer) \in Nat /\ Len(put) \in Nat
  BY <1>1, Lengths
<1>5. k # Len(put) + 1
  <2> SUFFICES ASSUME k = Len(put) + 1 PROVE FALSE
    OBVIOUS
  <2> QED
    BY <1>1, <1>3, <1>4
<1>6. k \in 1 .. Len(put)
  BY <1>1, <1>4, <1>5
<1> QED
  BY <1>2, <1>3, <1>6

LEMMA TextArrived ==
  ASSUME NEW stream, NEW start, NEW taken, NEW n, NEW bytes, NEW k,
         Before(stream, start, taken, n, bytes, k), part = "text"
  PROVE  /\ bytes \in Seq(Byte)
         /\ Len(bytes) = Len(buffer) + n
         /\ \A p \in 1 .. Len(bytes) : bytes[p] = stream[start[k] + LengthBytes + p]
         /\ taken + n = start[k] + LengthBytes + Len(bytes)
         /\ left = Len(put[k]) - Len(buffer)
         /\ k \in 1 .. Len(put)
         /\ Len(put[k]) + 1 <= BufferSize
<1>1. /\ Types
      /\ k \in 1 .. Len(put) + 1
      /\ start[k] \in Nat
  BY BeforeMeans
<1>2. /\ UnderWay(stream, start, taken)
      /\ k <= Len(put)
      /\ ReadFrom(stream, start[k] + LengthBytes, taken)
      /\ left = Len(put[k]) - Len(buffer)
      /\ Len(put[k]) + 1 <= BufferSize
      /\ n \in 1 .. Len(wire)
      /\ bytes = buffer \o SubSeq(wire, 1, n)
  BY DEF Before, Delivers, Reads, ReadOf
<1>3. start[k] + LengthBytes \in Nat /\ Len(put) \in Nat
  BY <1>1, Lengths
<1>4. /\ bytes \in Seq(Byte)
      /\ Len(bytes) = Len(buffer) + n
      /\ \A p \in 1 .. Len(bytes) : bytes[p] = stream[start[k] + LengthBytes + p]
      /\ taken + n = start[k] + LengthBytes + Len(bytes)
  <2>1. PICK from \in Nat : from = start[k] + LengthBytes
    BY <1>3
  <2>2. ReadFrom(stream, from, taken)
    BY <1>2, <2>1
  <2>3. CanRead(stream, start, taken, n, from, bytes)
    BY <1>1, <1>2, <2>2 DEF CanRead
  <2> QED
    BY <2>1, <2>3, BytesRead
<1>5. k \in 1 .. Len(put)
  BY <1>1, <1>2, <1>3
<1> QED
  BY <1>2, <1>4, <1>5

(* The frame of message k, where it stands in the stream.                  *)
LEMMA FrameInStream ==
  ASSUME Types, NEW stream, NEW start, Carries(stream, start), NEW k \in 1 .. Len(put)
  PROVE  /\ put[k] \in Texts /\ FitsField(Len(put[k])) /\ Len(put[k]) \in Nat
         /\ start[k] \in Nat
         /\ start[k + 1] = start[k] + LengthBytes + Len(put[k])
         /\ \A p \in 1 .. LengthBytes : stream[start[k] + p] = LengthField(Len(put[k]))[p]
         /\ \A p \in 1 .. Len(put[k]) : stream[start[k] + LengthBytes + p] = put[k][p]
<1>1. /\ put[k] \in Texts
      /\ FitsField(Len(put[k]))
      /\ start[k + 1] = start[k] + Len(Frame(put[k]))
      /\ \A p \in 1 .. Len(Frame(put[k])) : stream[start[k] + p] = Frame(put[k])[p]
  BY Lengths DEF Carries
<1>2. PICK length \in Nat, l \in Nat : length = Len(put[k]) /\ l = LengthBytes
  BY Lengths
<1>3. /\ Len(Frame(put[k])) = l + length
      /\ \A p \in 1 .. l : Frame(put[k])[p] = LengthField(Len(put[k]))[p]
      /\ \A p \in 1 .. length : Frame(put[k])[l + p] = put[k][p]
  BY <1>1, <1>2, FrameBytes
<1>4. PICK from \in Nat : from = start[k]
  BY FrameEnds
<1>5. \A p \in 1 .. l : stream[from + p] = LengthField(Len(put[k]))[p]
  <2>1. \A p \in 1 .. l : p \in 1 .. l + length
    OBVIOUS
  <2> QED
    BY <1>1, <1>3, <1>4, <2>1
<1>6. ASSUME NEW p \in 1 .. length
      PROVE  stream[from + l + p] = put[k][p]
  <2>1. l + p \in 1 .. l + length /\ from + (l + p) = from + l + p
    OBVIOUS
  <2> QED
    BY <1>1, <1>3, <1>4, <2>1
<1>7. from + (l + length) = from + l + length
  OBVIOUS
<1> QED
  BY <1>1, <1>2, <1>3, <1>4, <1>5, <1>6, <1>7

-------------------------------------------------------------------------------
(* What the end of a call makes of the receiver.                           *)
LEMMA AfterRead ==
  ASSUME NEW stream, NEW start, NEW taken, NEW n, NEW bytes, NEW k,
         Before(stream, start, taken, n, bytes, k), Types', Reads(stream, start, taken + n)'
  PROVE  IInv'
<1>1. Carries(stream, start)' /\ UnderWay(stream, start, taken + n)'
  BY BeforeMeans
<1> QED
  BY <1>1 DEF IInv, Delivers

LEMMA MessageTaken ==
  ASSUME NEW stream, NEW start, NEW taken, NEW n, NEW bytes, NEW k,
         Before(stream, start, taken, n, bytes, k), k \in 1 .. Len(put),
         taken + n = start[k + 1], Len(put[k]) + 1 <= BufferSize,
         NextMessage, received' = Append(received, put[k])
  PROVE  IInv' /\ Channel!Take
<1>1. /\ Types
      /\ wire' \in Seq(Byte) /\ Len(wire') <= SocketBuffer
      /\ UNCHANGED <<put, unsent, sending>>
      /\ \A j \in 1 .. Len(received) : received[j] = put[j]
      /\ k = Len(received) + 1
      /\ part # "ended"
  BY BeforeMeans DEF Before, ReadOf
<1>2. part' = "length" /\ left' = LengthBytes /\ buffer' = << >>
  BY DEF NextMessage
<1>3. put[k] \in Seq(1 .. Base - 1) /\ received \in Seq(Seq(1 .. Base - 1))
  BY <1>1, Lengths, TextIsBytes DEF Types
<1>4. PICK r \in Nat : r = Len(received)
  BY <1>1, Lengths
<1>5. /\ received' \in Seq(Seq(1 .. Base - 1))
      /\ Len(received') = r + 1
      /\ \A j \in 1 .. r : received'[j] = received[j]
      /\ received'[r + 1] = put[k]
  BY <1>3, <1>4, AppendProperties
<1>6. << >> \in Seq(Byte) /\ Len(<< >>) = 0
  BY EmptySeq
<1>7. Types'
  BY <1>1, <1>2, <1>5, <1>6, BaseAssumption DEF Types
<1>8. \A j \in 1 .. r + 1 : received'[j] = put[j]
  <2>1. \A j \in 1 .. r + 1 : j \in 1 .. r \/ j = r + 1
    OBVIOUS
  <2> QED
    BY <1>1, <1>4, <1>5, <2>1
<1>9. Reads(stream, start, taken + n)'
  <2>1. Len(received') + 1 = k + 1 /\ Len(put) \in Nat /\ k + 1 <= Len(put) + 1
    BY <1>1, <1>4, <1>5, Lengths
  <2>2. start[k + 1] \in Nat
    <3>1. Carries(stream, start) /\ k + 1 \in 1 .. Len(put) + 1
      BY <2>1, BeforeMeans
    <3> QED
      BY <3>1 DEF Carries, Ascends
  <2>3. taken + n = start[k + 1] + Len(buffer')
    BY <1>2, <1>6, <2>2
  <2>4. \A p \in 1 .. Len(buffer') : buffer'[p] = stream[start[k + 1] + p]
    BY <1>2, <1>6
  <2>5. left' = LengthBytes - Len(buffer')
    BY <1>2, <1>6, BaseAssumption
  <2>6. /\ Len(received') + 1 <= Len(put') + 1
        /\ \A j \in 1 .. Len(received') : received'[j] = put'[j]
    BY <1>1, <1>5, <1>8, <2>1
  <2> QED
    BY <1>2, <2>1, <2>3, <2>4, <2>5, <2>6 DEF Reads, ReadFrom
<1>10. Channel!Take
  BY <1>1, <1>2, <1>4, Lengths DEF Channel!Take, Channel!Fits
<1> QED
  BY <1>7, <1>9, <1>10, AfterRead

LEMMA PartGoesOn ==
  ASSUME NEW stream, NEW start, NEW taken, NEW n, NEW bytes, NEW k,
         Before(stream, start, taken, n, bytes, k), n # left
  PROVE  IInv' /\ UNCHANGED <<put, received, part>>
<1>1. /\ Types
      /\ wire' \in Seq(Byte) /\ Len(wire') <= SocketBuffer
      /\ UNCHANGED <<put, unsent, sending>>
      /\ n \in Nat \ {0} /\ n <= left
      /\ Reads(stream, start, taken)
      /\ part # "ended"
      /\ left' = left - n /\ buffer' = bytes /\ UNCHANGED <<part, received>>
      /\ k = Len(received) + 1
  BY BeforeMeans DEF Before, Delivers, ReadOf
<1>2. left \in Nat /\ left' \in Nat \ {0}
  BY <1>1 DEF Types
<1>3. part = "drain" => bytes = << >>
  BY DEF Before, ReadOf
<1>4. Len(buffer) \in Nat /\ LengthBytes \in Nat /\ \A j \in 1 .. Len(put) : Len(put[j]) \in Nat
  BY <1>1, Lengths
<1>5. bytes \in Seq(Byte)
  BY <1>1, <1>3, EmptySeq, LengthArrived, TextArrived DEF Types
<1>6. Types'
  BY <1>1, <1>2, <1>5 DEF Types
<1>7. ASSUME part = "length"
      PROVE  /\ ReadFrom(stream, start[k], taken + n)'
             /\ left' = LengthBytes - Len(buffer')
  <2>1. /\ Len(bytes) = Len(buffer) + n
        /\ \A p \in 1 .. Len(bytes) : bytes[p] = stream[start[k] + p]
        /\ taken + n = start[k] + Len(bytes)
        /\ left = LengthBytes - Len(buffer)
    BY <1>7, LengthArrived
  <2>2. left' = LengthBytes - Len(buffer')
    BY <1>1, <1>4, <2>1
  <2> QED
    BY <1>1, <2>1, <2>2 DEF ReadFrom
<1>8. ASSUME part = "text"
      PROVE  /\ k <= Len(put)
             /\ ReadFrom(stream, start[k] + LengthBytes, taken + n)'
             /\ left' = Len(put[k]) - Len(buffer')
             /\ Len(put[k]) + 1 <= BufferSize
  <2>1. /\ Len(bytes) = Len(buffer) + n
        /\ \A p \in 1 .. Len(bytes) : bytes[p] = stream[start[k] + LengthBytes + p]
        /\ taken + n = start[k] + LengthBytes + Len(bytes)
        /\ left = Len(put[k]) - Len(buffer)
        /\ k \in 1 .. Len(put)
        /\ Len(put[k]) + 1 <= BufferSize
    BY <1>8, TextArrived
  <2>2. left' = Len(put[k]) - Len(buffer')
    BY <1>1, <1>4, <2>1
  <2>3. k <= Len(put)
    BY <1>1, <2>1, Lengths
  <2> QED
    BY <1>1, <2>1, <2>2, <2>3 DEF ReadFrom
<1>9. Reads(stream, start, taken + n)'
  <2>1. k <= Len(put) + 1 /\ \A j \in 1 .. Len(received) : received[j] = put[j]
    BY <1>1 DEF Reads
  <2> QED
    BY <1>1, <1>7, <1>8, <2>1 DEF Reads, ReadFrom
<1> QED
  BY <1>1, <1>6, <1>9, AfterRead

LEMMA LengthEnds ==
  ASSUME NEW stream, NEW start, NEW taken, NEW n, NEW bytes, NEW k,
         Before(stream, start, taken, n, bytes, k), n = left, part = "length"
  PROVE  IInv' /\ (Channel!Take \/ (UNCHANGED <<put, received>> /\ part' # "ended"))
<1>1. /\ Types
      /\ Carries(stream, start)
      /\ wire' \in Seq(Byte) /\ Len(wire') <= SocketBuffer
      /\ UNCHANGED <<put, unsent, sending>>
      /\ \A j \in 1 .. Len(received) : received[j] = put[j]
      /\ n \in Nat \ {0}
      /\ k = Len(received) + 1
      /\ LengthRead(bytes)
  BY BeforeMeans DEF Before, ReadOf, PartRead
<1>2. /\ bytes \in Seq(Byte)
      /\ Len(bytes) = Len(buffer) + n
      /\ \A p \in 1 .. Len(bytes) : bytes[p] = stream[start[k] + p]
      /\ taken + n = start[k] + Len(bytes)
      /\ left = LengthBytes - Len(buffer)
      /\ k \in 1 .. Len(put)
  BY LengthArrived
<1>3. Len(bytes) = LengthBytes
  BY <1>1, <1>2, Lengths
<1>4. /\ put[k] \in Texts /\ FitsField(Len(put[k])) /\ Len(put[k]) \in Nat
      /\ start[k] \in Nat
      /\ start[k + 1] = start[k] + LengthBytes + Len(put[k])
      /\ \A p \in 1 .. LengthBytes : stream[start[k] + p] = LengthField(Len(put[k]))[p]
  <2>1. Types /\ Carries(stream, start) /\ k \in 1 .. Len(put)
    BY <1>1, <1>2
  <2> QED
    BY <2>1, FrameInStream
<1>5. bytes = LengthField(Len(put[k]))
  <2>1. PICK field : field = LengthField(Len(put[k]))
    OBVIOUS
  <2>2. field \in [1 .. LengthBytes -> Byte]
    BY <1>4, <2>1, LengthFieldCorrect DEF Byte
  <2>3. field \in Seq(Byte) /\ Len(field) = LengthBytes
    BY <2>2, FieldIsBytes
  <2>4. \A p \in 1 .. LengthBytes : bytes[p] = field[p]
    BY <1>2, <1>3, <1>4, <2>1
  <2>5. bytes = field
    BY <1>2, <1>3, <2>3, <2>4, SeqEqual
  <2> QED
    BY <2>1, <2>5
<1>6. FieldValue(bytes) = Len(put[k])
  BY <1>4, <1>5, LengthFieldCorrect
<1>7. CASE Len(put[k]) = 0
  <2>1. NextMessage /\ received' = Append(received, << >>)
    BY <1>1, <1>6, <1>7 DEF LengthRead
  <2>2. put[k] = << >>
    BY <1>4, <1>7, TextIsBytes, EmptySeq
  <2>3. received' = Append(received, put[k])
    BY <2>1, <2>2
  <2>4. taken + n = start[k + 1]
    BY <1>2, <1>3, <1>4, <1>7, BaseAssumption
  <2>5. Len(put[k]) + 1 <= BufferSize
    BY <1>7, BufferAssumption
  <2>6. NextMessage /\ k \in 1 .. Len(put)
    BY <1>2, <2>1
  <2> QED
    BY <2>3, <2>4, <2>5, <2>6, MessageTaken
<1>8. CASE Len(put[k]) # 0
  <2>1. /\ part' = IF TooLong(Len(put[k])) THEN "drain" ELSE "text"
        /\ left' = Len(put[k])
        /\ buffer' = << >>
        /\ UNCHANGED received
    BY <1>1, <1>6, <1>8 DEF LengthRead
  <2>2. << >> \in Seq(Byte) /\ Len(<< >>) = 0
    BY EmptySeq
  <2>3. Types'
    BY <1>1, <1>4, <1>8, <2>1, <2>2 DEF Types
  <2>4. part' = "text" => Len(put[k]) + 1 <= BufferSize
    BY <1>4, <2>1, BufferAssumption DEF TooLong
  <2>5. /\ taken + n = (start[k] + LengthBytes) + Len(buffer')
        /\ left' = Len(put[k]) - Len(buffer')
        /\ \A p \in 1 .. Len(buffer') : buffer'[p] = stream[start[k] + LengthBytes + p]
    BY <1>2, <1>3, <1>4, <2>1, <2>2, BaseAssumption
  <2>6. k <= Len(put) /\ k <= Len(put) + 1
    BY <1>1, <1>2, Lengths
  <2>7. Reads(stream, start, taken + n)'
    BY <1>1, <2>1, <2>4, <2>5, <2>6 DEF Reads, ReadFrom
  <2> QED
    BY <1>1, <2>1, <2>3, <2>7, AfterRead
<1> QED
  BY <1>7, <1>8

LEMMA TextEnds ==
  ASSUME NEW stream, NEW start, NEW taken, NEW n, NEW bytes, NEW k,
         Before(stream, start, taken, n, bytes, k), n = left, part = "text"
  PROVE  IInv' /\ Channel!Take
<1>1. /\ Types
      /\ Carries(stream, start)
      /\ n \in Nat \ {0}
      /\ NextMessage
      /\ received' = Append(received, bytes)
  BY BeforeMeans DEF Before, ReadOf, PartRead, TextRead
<1>2. /\ bytes \in Seq(Byte)
      /\ Len(bytes) = Len(buffer) + n
      /\ \A p \in 1 .. Len(bytes) : bytes[p] = stream[start[k] + LengthBytes + p]
      /\ taken + n = start[k] + LengthBytes + Len(bytes)
      /\ left = Len(put[k]) - Len(buffer)
      /\ k \in 1 .. Len(put)
      /\ Len(put[k]) + 1 <= BufferSize
  BY TextArrived
<1>3. /\ put[k] \in Texts /\ Len(put[k]) \in Nat
      /\ start[k + 1] = start[k] + LengthBytes + Len(put[k])
      /\ \A p \in 1 .. Len(put[k]) : stream[start[k] + LengthBytes + p] = put[k][p]
  BY <1>1, <1>2, FrameInStream
<1>4. Len(bytes) = Len(put[k])
  BY <1>1, <1>2, <1>3, Lengths
<1>5. bytes = put[k]
  <2>1. put[k] \in Seq(Byte)
    BY <1>3, TextIsBytes
  <2>2. \A p \in 1 .. Len(bytes) : bytes[p] = put[k][p]
    BY <1>2, <1>3, <1>4
  <2> QED
    BY <1>2, <1>4, <2>1, <2>2, SeqEqual
<1>6. taken + n = start[k + 1]
  BY <1>2, <1>3, <1>4
<1> QED
  BY <1>1, <1>2, <1>5, <1>6, MessageTaken

LEMMA DrainEnds ==
  ASSUME NEW stream, NEW start, NEW taken, NEW n, NEW bytes, NEW k,
         Before(stream, start, taken, n, bytes, k), n = left, part = "drain"
  PROVE  IInv' /\ part' = "ended" /\ UNCHANGED <<put, received>>
<1>1. /\ Types
      /\ wire' \in Seq(Byte) /\ Len(wire') <= SocketBuffer
      /\ UNCHANGED <<put, unsent, sending, received>>
      /\ part' = "ended" /\ left' = 0 /\ buffer' = << >>
      /\ Reads(stream, start, taken)
  BY BeforeMeans DEF Before, Delivers, ReadOf, PartRead, Drained
<1>2. Types'
  BY <1>1, EmptySeq DEF Types
<1>3. Reads(stream, start, taken + n)'
  BY <1>1 DEF Reads
<1> QED
  BY <1>1, <1>2, <1>3, AfterRead

(* Of what the channel allows, a step does one thing or nothing.           *)
ChannelStep == Channel!Next \/ UNCHANGED <<put, received, part = "ended">>

LEMMA ReadStep ==
  ASSUME IInv, Read
  PROVE  IInv' /\ ChannelStep
<1>1. PICK stream, start, taken : Delivers(stream, start, taken)
  BY DEF IInv
<1>2. PICK n, bytes : ReadOf(n, bytes)
  BY ReadIsReadOf
<1>3. PICK k : k = Len(received) + 1
  OBVIOUS
<1>4. Before(stream, start, taken, n, bytes, k)
  BY <1>1, <1>2, <1>3 DEF Before, IInv
<1>5. part # "ended" /\ part \in {"length", "text", "drain", "ended"}
  BY <1>2 DEF ReadOf, IInv, Types
<1>6. CASE n # left
  BY <1>4, <1>6, PartGoesOn DEF ChannelStep
<1>7. CASE n = left /\ part = "length"
  BY <1>4, <1>5, <1>7, LengthEnds DEF ChannelStep, Channel!Next
<1>8. CASE n = left /\ part = "text"
  BY <1>4, <1>8, TextEnds DEF ChannelStep, Channel!Next
<1>9. CASE n = left /\ part = "drain"
  BY <1>4, <1>9, DrainEnds DEF ChannelStep, Channel!Next, Channel!End
<1> QED
  BY <1>5, <1>6, <1>7, <1>8, <1>9

LEMMA NextStep ==
  ASSUME IInv, [Next]_vars
  PROVE  IInv' /\ ChannelStep
<1>1. ASSUME NEW m \in Texts, SendMessage(m)
      PROVE  IInv' /\ ChannelStep
  BY <1>1, SendMessageStep DEF ChannelStep, Channel!Next, Channel!Put
<1>2. CASE Write \/ Close
  BY <1>2, WriteStep, CloseStep DEF ChannelStep
<1>3. CASE ReadEnd
  BY <1>3, ReadEndStep DEF ChannelStep, Channel!Next, Channel!End
<1>4. CASE UNCHANGED vars
  <2>1. UNCHANGED <<put, unsent, sending, wire, part, left, buffer, received>>
    BY <1>4 DEF vars, senderVars, receiverVars
  <2>2. PICK stream, start, taken : Delivers(stream, start, taken)
    BY DEF IInv
  <2>3. Types'
    BY <2>1 DEF IInv, Types
  <2>4. Carries(stream, start)'
    BY <2>1, <2>2 DEF Delivers, Carries
  <2>5. UnderWay(stream, start, taken)'
    BY <2>1, <2>2 DEF Delivers, UnderWay
  <2>6. Reads(stream, start, taken)'
    BY <2>1, <2>2 DEF Delivers, Reads, ReadFrom
  <2>7. IInv'
    BY <2>3, <2>4, <2>5, <2>6 DEF IInv, Delivers
  <2> QED
    BY <2>1, <2>7 DEF ChannelStep
<1> QED
  BY <1>1, <1>2, <1>3, <1>4, ReadStep DEF Next

LEMMA InitIInv ==
  ASSUME Init
  PROVE  IInv
<1>1. /\ put = << >> /\ unsent = << >> /\ sending = TRUE /\ wire = << >>
      /\ part = "length" /\ left = LengthBytes /\ buffer = << >> /\ received = << >>
  BY DEF Init
<1>2. /\ << >> \in Seq(Byte)
      /\ << >> \in Seq(Texts)
      /\ << >> \in Seq(Seq(1 .. Base - 1))
      /\ Len(<< >>) = 0
  BY EmptySeq
<1>3. Types
  BY <1>1, <1>2, BaseAssumption, BufferAssumption DEF Types
<1>4. PICK start : start = [k \in 1 .. 1 |-> 0]
  OBVIOUS
<1>5. Ascends(start, 0)
  BY <1>4 DEF Ascends
<1>6. Carries(start, start)
  BY <1>1, <1>2, <1>5 DEF Carries
<1>7. UnderWay(start, start, 0)
  BY <1>1, <1>2, <1>4 DEF UnderWay
<1>8. Reads(start, start, 0)
  BY <1>1, <1>2, <1>4, BaseAssumption DEF Reads, ReadFrom
<1> QED
  BY <1>3, <1>6, <1>7, <1>8 DEF IInv, Delivers

LEMMA IInvMeansTypes ==
  ASSUME IInv
  PROVE  TypeOK
<1>1. PICK stream, start, taken : Delivers(stream, start, taken)
  BY DEF IInv
<1>2. Types /\ Reads(stream, start, taken)
  BY <1>1 DEF IInv, Delivers
<1>3. part = "length" => Len(buffer) + left = LengthBytes
  BY <1>2, Lengths DEF Reads
<1>4. part = "text" => Len(buffer) + left + 1 <= BufferSize
  <2> SUFFICES ASSUME part = "text" PROVE Len(buffer) + left + 1 <= BufferSize
    OBVIOUS
  <2>1. PICK k \in 1 .. Len(put) :
          left = Len(put[k]) - Len(buffer) /\ Len(put[k]) + 1 <= BufferSize
    BY <1>2, Lengths DEF Reads
  <2> QED
    BY <1>2, <2>1, Lengths
<1> QED
  BY <1>2, <1>3, <1>4 DEF TypeOK, Types, Byte

(* Whatever lengths arrive and however they are cut up, the receiver reads *)
(* no more than is due and no more than its buffer holds.                  *)
THEOREM TypeCorrect == Spec => []TypeOK
<1>1. Init => IInv
  BY InitIInv
<1>2. IInv /\ [Next]_vars => IInv'
  BY NextStep
<1>3. IInv => TypeOK
  BY IInvMeansTypes
<1> QED
  BY <1>1, <1>2, <1>3, PTL DEF Spec

(* The byte stream carries messages: whole, in order and once, up to the   *)
(* end of the connection or the first that does not fit the buffer.        *)
THEOREM FramingImplementsChannel == Spec => ImplementsChannel
<1>1. Init => IInv /\ Channel!Init
  <2>1. Init => Channel!Init
    BY DEF Init, Channel!Init
  <2> QED
    BY <2>1, InitIInv
<1>2. IInv /\ [Next]_vars => IInv'
  BY NextStep
<1>3. IInv /\ [Next]_vars => [Channel!Next]_(Channel!channelVars)
  BY NextStep DEF ChannelStep, Channel!channelVars
<1> QED
  BY <1>1, <1>2, <1>3, PTL DEF Spec, ImplementsChannel, Channel!Spec
===============================================================================
