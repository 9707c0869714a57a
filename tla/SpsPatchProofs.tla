---------------------------- MODULE SpsPatchProofs ----------------------------
(***************************************************************************)
(* Proofs about the patch tool, for every set of inputs: what it emits     *)
(* reads as its input with the VUI behind it, is safe in a byte stream,    *)
(* and passes the tool's own check.                                        *)
(*                                                                         *)
(* The loops of the tool are recursive functions over the places of a      *)
(* sequence. For each of them a lemma says that the function exists, which *)
(* is what makes its recursive definition an equation, and everything else *)
(* follows from that equation by Induction.                                *)
(***************************************************************************)
EXTENDS SpsPatch, SequenceTheorems, WellFoundedInduction, TLAPS

Byte  == 0 .. 255
Digit == {0, 1}

-----------------------------------------------------------------------------
\* Induction as a statement about sets: a set with 0 and every successor has
\* every natural number, since the least that it lacked would have a
\* predecessor in it.
LEMMA Induction ==
    ASSUME NEW S, 0 \in S, \A n \in Nat : n \in S => n + 1 \in S
    PROVE  Nat \subseteq S
<1> DEFINE R == OpToRel(<, Nat)
           T == Nat \ S
<1>1. IsWellFoundedOn(R, Nat)
  BY NatLessThanWellFounded
<1>2. SUFFICES ASSUME T # {} PROVE FALSE
  OBVIOUS
<1>3. \A x, y \in Nat : <<y, x>> \in R <=> y < x
  BY DEF OpToRel
<1> HIDE DEF R, T
<1>4. T \subseteq Nat
  BY DEF T
<1>5. PICK x \in T : \A y \in T : <<y, x>> \notin R
  BY <1>1, <1>2, <1>4, WFMin, Zenon
<1>6. \A y \in T : ~(y < x)
  BY <1>3, <1>4, <1>5
<1>7. QED
  BY <1>5, <1>6, SMT DEF T

\* The same up to a bound.
LEMMA BoundedInduction ==
    ASSUME NEW m \in Nat, NEW S, 0 \in S,
           \A n \in 0 .. m - 1 : n \in S => n + 1 \in S
    PROVE  0 .. m \subseteq S
<1> DEFINE T == {n \in Nat : n <= m => n \in S}
<1>1. 0 \in T
  OBVIOUS
<1>2. \A n \in Nat : n \in T => n + 1 \in T
  OBVIOUS
<1> HIDE DEF T
<1>3. Nat \subseteq T
  BY <1>1, <1>2, Induction
<1>4. QED
  BY <1>3 DEF T

-----------------------------------------------------------------------------
(***************************************************************************)
(* BitReader.u and BitWriter.tobytes: the number that bits stand for.      *)
(***************************************************************************)
ReadingOf(f, bits, n) ==
    f = [k \in 0 .. n |-> IF k = 0 THEN 0 ELSE 2 * f[k - 1] + bits[k]]

\* The loop of BitReader.u has a value after every bit.
LEMMA ReadingExists ==
    ASSUME NEW bits, NEW n \in Nat
    PROVE  \E f : ReadingOf(f, bits, n)
<1> DEFINE S == {m \in Nat : \E f : ReadingOf(f, bits, m)}
<1>1. 0 \in S
  <2> DEFINE f == [k \in 0 .. 0 |-> 0]
  <2>1. ReadingOf(f, bits, 0)
    BY DEF ReadingOf
  <2>2. QED
    BY <2>1
<1>2. ASSUME NEW m \in Nat, m \in S PROVE m + 1 \in S
  <2>1. PICK f : ReadingOf(f, bits, m)
    BY <1>2
  <2> DEFINE g == [k \in 0 .. m + 1 |->
                      IF k = m + 1 THEN 2 * f[m] + bits[k] ELSE f[k]]
  <2>2. \A k \in 0 .. m + 1 : g[k] = IF k = 0 THEN 0 ELSE 2 * g[k - 1] + bits[k]
    BY <2>1 DEF ReadingOf
  <2>3. g = [k \in 0 .. m + 1 |-> g[k]]
    OBVIOUS
  <2> HIDE DEF g
  <2>4. ReadingOf(g, bits, m + 1)
    BY <2>2, <2>3, Zenon DEF ReadingOf
  <2>5. QED
    BY <2>4
<1> HIDE DEF S
<1>3. n \in S
  BY <1>1, <1>2, Induction
<1>4. QED
  BY <1>3 DEF S

\* The loop, step by step.
LEMMA ReadingSteps ==
    ASSUME NEW bits \in Seq(Digit)
    PROVE  /\ Reading(bits)[0] = 0
           /\ \A k \in 1 .. Len(bits) :
                 Reading(bits)[k] = 2 * Reading(bits)[k - 1] + bits[k]
           /\ \A k \in 0 .. Len(bits) : Reading(bits)[k] \in Nat
<1> DEFINE f == Reading(bits)
<1>1. ReadingOf(f, bits, Len(bits))
  <2>1. PICK g : ReadingOf(g, bits, Len(bits))
    BY ReadingExists
  <2>2. QED
    BY <2>1, Zenon DEF Reading, ReadingOf
<1> HIDE DEF f
<1>2. /\ f[0] = 0
      /\ \A k \in 1 .. Len(bits) : f[k] = 2 * f[k - 1] + bits[k]
  BY <1>1 DEF ReadingOf
<1> DEFINE S == {k \in Nat : f[k] \in Nat}
<1>3. 0 .. Len(bits) \subseteq S
  <2>1. 0 \in S
    BY <1>2
  <2>2. \A k \in 0 .. Len(bits) - 1 : k \in S => k + 1 \in S
    <3> SUFFICES ASSUME NEW k \in 0 .. Len(bits) - 1, k \in S
                 PROVE  k + 1 \in S
      OBVIOUS
    <3>1. bits[k + 1] \in Digit /\ f[k + 1] = 2 * f[k] + bits[k + 1]
      BY <1>2
    <3>2. QED
      BY <3>1 DEF Digit
  <2> HIDE DEF S
  <2>3. QED
    BY <2>1, <2>2, BoundedInduction
<1>4. QED
  BY <1>2, <1>3 DEF f

\* A number of bits is a natural number.
LEMMA NumberType ==
    ASSUME NEW bits \in Seq(Digit)
    PROVE  Number(bits) \in Nat
BY ReadingSteps DEF Number

\* Halving gives back what doubling took in.
LEMMA Halving ==
    ASSUME NEW x \in Nat, NEW d \in Digit
    PROVE  (2 * x + d) \div 2 = x /\ (2 * x + d) % 2 = d
BY DEF Digit

\* The weights halve by halving, so that each of them selects a place.
LEMMA WeightSteps ==
    ASSUME NEW x \in Nat
    PROVE  /\ x \div 1 = x /\ x \div 4 = (x \div 2) \div 2
           /\ x \div 8 = (x \div 4) \div 2 /\ x \div 16 = (x \div 8) \div 2
           /\ x \div 32 = (x \div 16) \div 2 /\ x \div 64 = (x \div 32) \div 2
           /\ x \div 128 = (x \div 64) \div 2
OBVIOUS

\* Eight steps of the loop, with f its values and b the bits.
LEMMA EightSteps ==
    ASSUME NEW f, NEW b,
           \A k \in 0 .. 8 : f[k] \in Nat, \A k \in 1 .. 8 : b[k] \in Nat,
           \A k \in 1 .. 8 : f[k] = 2 * f[k - 1] + b[k], f[0] = 0,
           \A k \in 1 .. 8 : b[k] <= 1
    PROVE  /\ f[8] \in Byte
           /\ \A j \in 1 .. 8 : (f[8] \div Weight[j]) % 2 = b[j]
<1>1. /\ f[1] = b[1]            /\ f[2] = 2 * f[1] + b[2]
      /\ f[3] = 2 * f[2] + b[3] /\ f[4] = 2 * f[3] + b[4]
      /\ f[5] = 2 * f[4] + b[5] /\ f[6] = 2 * f[5] + b[6]
      /\ f[7] = 2 * f[6] + b[7] /\ f[8] = 2 * f[7] + b[8]
  OBVIOUS
<1>2. f[8] \in Byte
  <2>1. f[1] <= 1 /\ f[2] <= 3 /\ f[3] <= 7 /\ f[4] <= 15
    BY <1>1
  <2>2. f[5] <= 31 /\ f[6] <= 63 /\ f[7] <= 127 /\ f[8] <= 255
    BY <1>1, <2>1
  <2>3. f[8] \in Nat
    OBVIOUS
  <2>4. QED
    BY ONLY <2>2, <2>3 DEF Byte
<1>3. \A j \in 1 .. 8 : f[j] % 2 = b[j] /\ f[j] \div 2 = f[j - 1]
  <2> SUFFICES ASSUME NEW j \in 1 .. 8
               PROVE  f[j] % 2 = b[j] /\ f[j] \div 2 = f[j - 1]
    OBVIOUS
  <2>1. f[j] = 2 * f[j - 1] + b[j] /\ f[j - 1] \in Nat /\ b[j] \in Nat /\ b[j] <= 1
    OBVIOUS
  <2>2. b[j] \in Digit
    BY ONLY <2>1 DEF Digit
  <2>3. (2 * f[j - 1] + b[j]) \div 2 = f[j - 1] /\ (2 * f[j - 1] + b[j]) % 2 = b[j]
    BY ONLY <2>1, <2>2, Halving
  <2>4. QED
    BY ONLY <2>1, <2>3
<1>4. /\ f[8] \div 2 = f[7] /\ f[7] \div 2 = f[6] /\ f[6] \div 2 = f[5]
      /\ f[5] \div 2 = f[4] /\ f[4] \div 2 = f[3] /\ f[3] \div 2 = f[2]
      /\ f[2] \div 2 = f[1]
  BY <1>3
<1>5. /\ f[8] \div 1 = f[8] /\ f[8] \div 4 = f[6] /\ f[8] \div 8 = f[5]
      /\ f[8] \div 16 = f[4] /\ f[8] \div 32 = f[3] /\ f[8] \div 64 = f[2]
      /\ f[8] \div 128 = f[1]
  <2>1. f[8] \in Nat
    OBVIOUS
  <2> DEFINE x == f[8]
  <2>2. /\ x \div 1 = x /\ x \div 4 = (x \div 2) \div 2
        /\ x \div 8 = (x \div 4) \div 2 /\ x \div 16 = (x \div 8) \div 2
        /\ x \div 32 = (x \div 16) \div 2 /\ x \div 64 = (x \div 32) \div 2
        /\ x \div 128 = (x \div 64) \div 2
    BY <2>1, WeightSteps
  <2>3. QED
    BY <1>4, <2>2
<1>6. \A j \in 1 .. 8 : f[8] \div Weight[j] = f[j]
  BY <1>4, <1>5 DEF Weight
<1>7. QED
  BY <1>2, <1>3, <1>6

\* Eight bits make a byte, and the byte has these bits.
LEMMA ByteOfBits ==
    ASSUME NEW bits \in Seq(Digit), Len(bits) = 8
    PROVE  /\ Number(bits) \in Byte
           /\ \A j \in 1 .. 8 : (Number(bits) \div Weight[j]) % 2 = bits[j]
<1> DEFINE f == Reading(bits)
<1>1. \A j \in 1 .. 8 : bits[j] \in Digit
  BY ElementOfSeq
<1>2. \A j \in 1 .. 8 : bits[j] \in Nat /\ bits[j] <= 1
  BY <1>1 DEF Digit
<1>3. /\ f[0] = 0 /\ Number(bits) = f[8]
      /\ \A k \in 1 .. 8 : f[k] = 2 * f[k - 1] + bits[k]
      /\ \A k \in 0 .. 8 : f[k] \in Nat
  BY ReadingSteps DEF Number
<1> HIDE DEF f
<1>4. QED
  BY <1>2, <1>3, EightSteps, ZenonT(40)

-----------------------------------------------------------------------------
(***************************************************************************)
(* strip_emulation and add_emulation.                                      *)
(***************************************************************************)
States == [out : Seq(Byte), zeros : Nat]

\* One round of either loop keeps bytes and a count of zeros.
LEMMA StepTypes ==
    ASSUME NEW acc \in States, NEW b \in Byte
    PROVE  Strip(acc, b) \in States /\ Add(acc, b) \in States
<1>1. /\ Append(acc.out, b) \in Seq(Byte) /\ acc.zeros \in Nat
      /\ acc.out \o <<3, b>> \in Seq(Byte)
  <2>1. <<3, b>> \in Seq(Byte)
    BY DEF Byte
  <2>2. acc.out \in Seq(Byte) /\ acc.zeros \in Nat
    BY DEF States
  <2>3. QED
    BY <2>1, <2>2
<1>2. Scan(acc.zeros, b) \in Nat /\ Scan(0, b) \in Nat
  BY <1>1 DEF Scan
<1>3. QED
  BY <1>1, <1>2 DEF Strip, Add, States

\* Both loops begin with such a state.
LEMMA NothingType == Nothing \in States
<1>1. << >> \in Seq(Byte)
  OBVIOUS
<1>2. QED
  BY <1>1 DEF Nothing, States

StrippingOf(f, bytes, n) ==
    f = [k \in 0 .. n |-> IF k = 0 THEN Nothing ELSE Strip(f[k - 1], bytes[k])]

AddingOf(f, bytes, n) ==
    f = [k \in 0 .. n |-> IF k = 0 THEN Nothing ELSE Add(f[k - 1], bytes[k])]

\* The loop of strip_emulation has a state after every byte,
LEMMA StrippingExists ==
    ASSUME NEW bytes, NEW n \in Nat
    PROVE  \E f : StrippingOf(f, bytes, n)
<1> DEFINE S == {m \in Nat : \E f : StrippingOf(f, bytes, m)}
<1>1. 0 \in S
  <2> DEFINE f == [k \in 0 .. 0 |-> Nothing]
  <2>1. StrippingOf(f, bytes, 0)
    BY DEF StrippingOf
  <2>2. QED
    BY <2>1
<1>2. ASSUME NEW m \in Nat, m \in S PROVE m + 1 \in S
  <2>1. PICK f : StrippingOf(f, bytes, m)
    BY <1>2
  <2> DEFINE g == [k \in 0 .. m + 1 |->
                      IF k = m + 1 THEN Strip(f[m], bytes[k]) ELSE f[k]]
  <2>2. \A k \in 0 .. m + 1 :
           g[k] = IF k = 0 THEN Nothing ELSE Strip(g[k - 1], bytes[k])
    BY <2>1 DEF StrippingOf
  <2>3. g = [k \in 0 .. m + 1 |-> g[k]]
    OBVIOUS
  <2> HIDE DEF g
  <2>4. StrippingOf(g, bytes, m + 1)
    BY <2>2, <2>3, Zenon DEF StrippingOf
  <2>5. QED
    BY <2>4
<1> HIDE DEF S
<1>3. n \in S
  BY <1>1, <1>2, Induction
<1>4. QED
  BY <1>3 DEF S

\* and so has that of add_emulation.
LEMMA AddingExists ==
    ASSUME NEW bytes, NEW n \in Nat
    PROVE  \E f : AddingOf(f, bytes, n)
<1> DEFINE S == {m \in Nat : \E f : AddingOf(f, bytes, m)}
<1>1. 0 \in S
  <2> DEFINE f == [k \in 0 .. 0 |-> Nothing]
  <2>1. AddingOf(f, bytes, 0)
    BY DEF AddingOf
  <2>2. QED
    BY <2>1
<1>2. ASSUME NEW m \in Nat, m \in S PROVE m + 1 \in S
  <2>1. PICK f : AddingOf(f, bytes, m)
    BY <1>2
  <2> DEFINE g == [k \in 0 .. m + 1 |->
                      IF k = m + 1 THEN Add(f[m], bytes[k]) ELSE f[k]]
  <2>2. \A k \in 0 .. m + 1 :
           g[k] = IF k = 0 THEN Nothing ELSE Add(g[k - 1], bytes[k])
    BY <2>1 DEF AddingOf
  <2>3. g = [k \in 0 .. m + 1 |-> g[k]]
    OBVIOUS
  <2> HIDE DEF g
  <2>4. AddingOf(g, bytes, m + 1)
    BY <2>2, <2>3, Zenon DEF AddingOf
  <2>5. QED
    BY <2>4
<1> HIDE DEF S
<1>3. n \in S
  BY <1>1, <1>2, Induction
<1>4. QED
  BY <1>3 DEF S

\* The loops, step by step.
LEMMA StrippingSteps ==
    ASSUME NEW bytes \in Seq(Byte)
    PROVE  /\ Stripping(bytes)[0] = Nothing
           /\ \A k \in 0 .. Len(bytes) - 1 :
                 Stripping(bytes)[k + 1] = Strip(Stripping(bytes)[k], bytes[k + 1])
           /\ \A k \in 0 .. Len(bytes) : Stripping(bytes)[k] \in States
<1> DEFINE f == Stripping(bytes)
<1>1. StrippingOf(f, bytes, Len(bytes))
  <2>1. PICK g : StrippingOf(g, bytes, Len(bytes))
    BY StrippingExists
  <2>2. QED
    BY <2>1, Zenon DEF Stripping, StrippingOf
<1> HIDE DEF f
<1>2. /\ f[0] = Nothing
      /\ \A k \in 0 .. Len(bytes) - 1 : f[k + 1] = Strip(f[k], bytes[k + 1])
  BY <1>1 DEF StrippingOf
<1> DEFINE S == {k \in Nat : f[k] \in States}
<1>3. 0 .. Len(bytes) \subseteq S
  <2>1. 0 \in S
    BY <1>2, NothingType
  <2>2. \A k \in 0 .. Len(bytes) - 1 : k \in S => k + 1 \in S
    <3> SUFFICES ASSUME NEW k \in 0 .. Len(bytes) - 1, k \in S
                 PROVE  k + 1 \in S
      OBVIOUS
    <3>1. bytes[k + 1] \in Byte /\ f[k + 1] = Strip(f[k], bytes[k + 1])
      BY <1>2
    <3>2. QED
      BY <3>1, StepTypes
  <2> HIDE DEF S
  <2>3. QED
    BY <2>1, <2>2, BoundedInduction
<1>4. QED
  BY <1>2, <1>3 DEF f

\* and those of the other.
LEMMA AddingSteps ==
    ASSUME NEW bytes \in Seq(Byte)
    PROVE  /\ Adding(bytes)[0] = Nothing
           /\ \A k \in 0 .. Len(bytes) - 1 :
                 Adding(bytes)[k + 1] = Add(Adding(bytes)[k], bytes[k + 1])
           /\ \A k \in 0 .. Len(bytes) : Adding(bytes)[k] \in States
<1> DEFINE f == Adding(bytes)
<1>1. AddingOf(f, bytes, Len(bytes))
  <2>1. PICK g : AddingOf(g, bytes, Len(bytes))
    BY AddingExists
  <2>2. QED
    BY <2>1, Zenon DEF Adding, AddingOf
<1> HIDE DEF f
<1>2. /\ f[0] = Nothing
      /\ \A k \in 0 .. Len(bytes) - 1 : f[k + 1] = Add(f[k], bytes[k + 1])
  BY <1>1 DEF AddingOf
<1> DEFINE S == {k \in Nat : f[k] \in States}
<1>3. 0 .. Len(bytes) \subseteq S
  <2>1. 0 \in S
    BY <1>2, NothingType
  <2>2. \A k \in 0 .. Len(bytes) - 1 : k \in S => k + 1 \in S
    <3> SUFFICES ASSUME NEW k \in 0 .. Len(bytes) - 1, k \in S
                 PROVE  k + 1 \in S
      OBVIOUS
    <3>1. bytes[k + 1] \in Byte /\ f[k + 1] = Add(f[k], bytes[k + 1])
      BY <1>2
    <3>2. QED
      BY <3>1, StepTypes
  <2> HIDE DEF S
  <2>3. QED
    BY <2>1, <2>2, BoundedInduction
<1>4. QED
  BY <1>2, <1>3 DEF f

\* Bytes in, bytes out.
LEMMA EmulationTypes ==
    ASSUME NEW bytes \in Seq(Byte)
    PROVE  StripEmulation(bytes) \in Seq(Byte) /\ AddEmulation(bytes) \in Seq(Byte)
BY StrippingSteps, AddingSteps DEF StripEmulation, AddEmulation, States

\* Stripping one more byte is one more step.
LEMMA StripOneMore ==
    ASSUME NEW bytes \in Seq(Byte), NEW b \in Byte
    PROVE  /\ Append(bytes, b) \in Seq(Byte) /\ Len(Append(bytes, b)) = Len(bytes) + 1
           /\ Stripping(Append(bytes, b))[Len(bytes) + 1]
                 = Strip(Stripping(bytes)[Len(bytes)], b)
<1> DEFINE more == Append(bytes, b)
           S == {k \in Nat : Stripping(more)[k] = Stripping(bytes)[k]}
<1>1. /\ more \in Seq(Byte) /\ Len(more) = Len(bytes) + 1
      /\ more[Len(bytes) + 1] = b
      /\ \A k \in 1 .. Len(bytes) : more[k] = bytes[k]
  OBVIOUS
<1> HIDE DEF more
<1>2. 0 .. Len(bytes) \subseteq S
  <2>1. 0 \in S
    BY <1>1, StrippingSteps
  <2>2. \A k \in 0 .. Len(bytes) - 1 : k \in S => k + 1 \in S
    <3> SUFFICES ASSUME NEW k \in 0 .. Len(bytes) - 1, k \in S
                 PROVE  k + 1 \in S
      OBVIOUS
    <3>1. k \in 0 .. Len(more) - 1 /\ k + 1 \in 1 .. Len(bytes) /\ k + 1 \in Nat
      BY <1>1
    <3>2. Stripping(more)[k + 1] = Strip(Stripping(more)[k], more[k + 1])
      BY <1>1, <3>1, StrippingSteps
    <3>3. Stripping(bytes)[k + 1] = Strip(Stripping(bytes)[k], bytes[k + 1])
      BY StrippingSteps
    <3>4. QED
      BY <1>1, <3>1, <3>2, <3>3
  <2> HIDE DEF S
  <2>3. QED
    BY <2>1, <2>2, BoundedInduction
<1>3. Stripping(more)[Len(bytes)] = Stripping(bytes)[Len(bytes)]
  BY <1>2
<1>4. Stripping(more)[Len(bytes) + 1] = Strip(Stripping(more)[Len(bytes)], b)
  <2>1. Len(bytes) \in 0 .. Len(more) - 1
    BY <1>1
  <2>2. QED
    BY <1>1, <2>1, StrippingSteps
<1>5. QED
  BY <1>1, <1>3, <1>4 DEF more

\* One step of add_emulation, seen by strip_emulation: what it has stripped and
\* the zeros it counts keep up.
LEMMA RoundTripStep ==
    ASSUME NEW acc \in States, NEW b \in Byte, NEW kept \in Seq(Byte),
           Stripping(acc.out)[Len(acc.out)] = [out |-> kept, zeros |-> acc.zeros]
    PROVE  Stripping(Add(acc, b).out)[Len(Add(acc, b).out)]
              = [out |-> Append(kept, b), zeros |-> Add(acc, b).zeros]
<1> DEFINE o == acc.out
           z == acc.zeros
<1>1. o \in Seq(Byte) /\ z \in Nat
  BY DEF States
<1>2. CASE NeedsEmulation(z, b)
  <2>1. o \o <<3, b>> = Append(Append(o, 3), b)
    BY <1>1
  <2>2. Add(acc, b) = [out |-> Append(Append(o, 3), b), zeros |-> Scan(0, b)]
    BY <1>2, <2>1 DEF Add
  <2>3. 3 \in Byte
    BY DEF Byte
  <2>4. /\ Append(o, 3) \in Seq(Byte) /\ Len(Append(o, 3)) = Len(o) + 1
        /\ Stripping(Append(o, 3))[Len(o) + 1] = Strip([out |-> kept, zeros |-> z], 3)
    BY <1>1, <2>3, StripOneMore
  <2>5. Strip([out |-> kept, zeros |-> z], 3) = [out |-> kept, zeros |-> 0]
    BY <1>2 DEF Strip, NeedsEmulation
  <2>6. /\ Len(Append(Append(o, 3), b)) = Len(o) + 1 + 1
        /\ Stripping(Append(Append(o, 3), b))[Len(o) + 1 + 1]
              = Strip([out |-> kept, zeros |-> 0], b)
    <3> DEFINE p == Append(o, 3)
    <3>1. /\ p \in Seq(Byte) /\ Len(p) = Len(o) + 1
          /\ Stripping(p)[Len(p)] = [out |-> kept, zeros |-> 0]
      BY <2>4, <2>5
    <3> HIDE DEF p
    <3>2. /\ Len(Append(p, b)) = Len(p) + 1
          /\ Stripping(Append(p, b))[Len(p) + 1] = Strip(Stripping(p)[Len(p)], b)
      BY <3>1, StripOneMore
    <3>3. QED
      BY <3>1, <3>2 DEF p
  <2>7. Strip([out |-> kept, zeros |-> 0], b)
           = [out |-> Append(kept, b), zeros |-> Scan(0, b)]
    BY DEF Strip
  <2>8. QED
    BY <2>2, <2>6, <2>7
<1>3. CASE ~NeedsEmulation(z, b)
  <2>1. Add(acc, b) = [out |-> Append(o, b), zeros |-> Scan(z, b)]
    BY <1>3 DEF Add
  <2>2. /\ Len(Append(o, b)) = Len(o) + 1
        /\ Stripping(Append(o, b))[Len(o) + 1] = Strip([out |-> kept, zeros |-> z], b)
    BY <1>1, StripOneMore
  <2>3. ~(z >= 2 /\ b = 3)
    BY <1>1, <1>3 DEF NeedsEmulation
  <2>4. Strip([out |-> kept, zeros |-> z], b)
           = [out |-> Append(kept, b), zeros |-> Scan(z, b)]
    BY <2>3 DEF Strip
  <2>5. QED
    BY <2>1, <2>2, <2>4
<1>4. QED
  BY <1>2, <1>3

\* What add_emulation puts in, strip_emulation takes out, whatever the bytes.
LEMMA EmulationRoundTrip ==
    ASSUME NEW bytes \in Seq(Byte)
    PROVE  StripEmulation(AddEmulation(bytes)) = bytes
<1> DEFINE acc(k) == Adding(bytes)[k]
           Stripped(k) == Stripping(acc(k).out)[Len(acc(k).out)]
           S == {k \in Nat : Stripped(k) = [out   |-> SubSeq(bytes, 1, k),
                                            zeros |-> acc(k).zeros]}
<1>1. 0 .. Len(bytes) \subseteq S
  <2>1. 0 \in S
    <3>1. acc(0).out = << >> /\ acc(0).zeros = 0
      BY AddingSteps DEF Nothing
    <3>2. << >> \in Seq(Byte) /\ Len(<< >>) = 0
      OBVIOUS
    <3>3. Stripping(<< >>)[Len(<< >>)] = Nothing
      BY <3>2, StrippingSteps
    <3>4. SubSeq(bytes, 1, 0) = << >>
      OBVIOUS
    <3>5. QED
      BY <3>1, <3>3, <3>4 DEF Nothing
  <2>2. \A k \in 0 .. Len(bytes) - 1 : k \in S => k + 1 \in S
    <3> SUFFICES ASSUME NEW k \in 0 .. Len(bytes) - 1, k \in S
                 PROVE  k + 1 \in S
      OBVIOUS
    <3> DEFINE kept == SubSeq(bytes, 1, k)
    <3>1. /\ bytes[k + 1] \in Byte /\ acc(k) \in States
          /\ acc(k + 1) = Add(acc(k), bytes[k + 1])
      BY AddingSteps
    <3>2. Stripped(k) = [out |-> kept, zeros |-> acc(k).zeros]
      OBVIOUS
    <3>3. kept \in Seq(Byte) /\ Append(kept, bytes[k + 1]) = SubSeq(bytes, 1, k + 1)
      BY SubSeqProperties
    <3> HIDE DEF kept
    <3>4. Stripped(k + 1) = [out   |-> Append(kept, bytes[k + 1]),
                             zeros |-> acc(k + 1).zeros]
      BY <3>1, <3>2, <3>3, RoundTripStep
    <3>5. QED
      BY <3>3, <3>4
  <2> HIDE DEF S
  <2>3. QED
    BY <2>1, <2>2, BoundedInduction
<1>2. Stripped(Len(bytes)) = [out   |-> SubSeq(bytes, 1, Len(bytes)),
                              zeros |-> acc(Len(bytes)).zeros]
  <2>1. Len(bytes) \in S
    <3> HIDE DEF S
    <3>1. Len(bytes) \in 0 .. Len(bytes)
      OBVIOUS
    <3>2. QED
      BY <1>1, <3>1
  <2>2. QED
    BY <2>1, Zenon
<1>3. SubSeq(bytes, 1, Len(bytes)) = bytes
  OBVIOUS
<1>4. Stripped(Len(bytes)).out = bytes
  BY <1>2, <1>3
<1>5. QED
  BY <1>4 DEF StripEmulation, AddEmulation

\* No two zeros are followed by a byte up to 2, and zeros is at least the number
\* of zeros at the end, as far as two matter.
Safe(o) == \A i \in 1 .. Len(o) - 2 : o[i] = 0 /\ o[i + 1] = 0 => o[i + 2] > 2

Counted(o, zeros) ==
    /\ Len(o) >= 1 /\ o[Len(o)] = 0 => zeros >= 1
    /\ Len(o) >= 2 /\ o[Len(o) - 1] = 0 /\ o[Len(o)] = 0 => zeros >= 2

\* A byte that is put behind safe bytes leaves them safe, when it is above 2 or
\* fewer than two zeros are in front of it.
LEMMA SafeOneMore ==
    ASSUME NEW o \in Seq(Byte), NEW zeros \in Nat, NEW b \in Byte,
           Safe(o), Counted(o, zeros), zeros >= 2 => b > 2
    PROVE  Safe(Append(o, b)) /\ Counted(Append(o, b), Scan(zeros, b))
<1> DEFINE n == Len(o)
           p == Append(o, b)
<1>1. /\ n \in Nat /\ Len(p) = n + 1 /\ p[n + 1] = b
      /\ \A i \in 1 .. n : p[i] = o[i]
  OBVIOUS
<1> HIDE DEF p, n
<1>2. Safe(p)
  <2> SUFFICES ASSUME NEW i \in 1 .. n - 1, p[i] = 0, p[i + 1] = 0
               PROVE  p[i + 2] > 2
    BY <1>1 DEF Safe
  <2>1. p[i] = o[i] /\ p[i + 1] = o[i + 1]
    BY <1>1
  <2>2. CASE i = n - 1
    <3>1. o[n - 1] = 0 /\ o[n] = 0 /\ n >= 2
      BY <1>1, <2>1, <2>2
    <3>2. zeros >= 2
      BY <3>1 DEF Counted, n
    <3>3. QED
      BY <1>1, <2>2, <3>2
  <2>3. CASE i # n - 1
    <3>1. i \in 1 .. n - 2 /\ p[i + 2] = o[i + 2]
      BY <1>1, <2>3
    <3>2. QED
      BY <2>1, <3>1 DEF Safe, n
  <2>4. QED
    BY <2>2, <2>3
<1>3. Counted(p, Scan(zeros, b))
  <2>1. CASE b # 0
    BY <1>1, <2>1 DEF Counted
  <2>2. CASE b = 0
    <3>1. Scan(zeros, b) = zeros + 1
      BY <2>2 DEF Scan
    <3>2. n >= 1 /\ p[n] = 0 => zeros >= 1
      BY <1>1 DEF Counted, n
    <3>3. QED
      BY <1>1, <3>1, <3>2 DEF Counted
  <2>3. QED
    BY <2>1, <2>2
<1>4. QED
  BY <1>2, <1>3 DEF p

\* One round of add_emulation does so, with the zeros it counts.
LEMMA SafeStep ==
    ASSUME NEW acc \in States, NEW b \in Byte, Safe(acc.out), Counted(acc.out, acc.zeros)
    PROVE  Safe(Add(acc, b).out) /\ Counted(Add(acc, b).out, Add(acc, b).zeros)
<1> DEFINE o == acc.out
           z == acc.zeros
<1>1. o \in Seq(Byte) /\ z \in Nat
  BY DEF States
<1>2. CASE NeedsEmulation(z, b)
  <2> DEFINE p == Append(o, 3)
  <2>1. 3 \in Byte /\ Scan(z, 3) = 0
    BY DEF Byte, Scan
  <2>2. p \in Seq(Byte) /\ Safe(p) /\ Counted(p, 0)
    <3>1. p \in Seq(Byte)
      BY <1>1, <2>1
    <3>2. Safe(p) /\ Counted(p, Scan(z, 3))
      BY <1>1, <2>1, SafeOneMore
    <3>3. QED
      BY <2>1, <3>1, <3>2
  <2>3. Add(acc, b) = [out |-> Append(p, b), zeros |-> Scan(0, b)]
    <3>1. o \o <<3, b>> = Append(p, b)
      BY <1>1
    <3>2. QED
      BY <1>2, <3>1 DEF Add
  <2> HIDE DEF p
  <2>4. Safe(Append(p, b)) /\ Counted(Append(p, b), Scan(0, b))
    BY <2>2, SafeOneMore
  <2>5. QED
    BY <2>3, <2>4
<1>3. CASE ~NeedsEmulation(z, b)
  <2>1. Add(acc, b) = [out |-> Append(o, b), zeros |-> Scan(z, b)]
    BY <1>3 DEF Add
  <2>2. z >= 2 => b > 2
    BY <1>1, <1>3 DEF NeedsEmulation, Byte
  <2>3. Safe(Append(o, b)) /\ Counted(Append(o, b), Scan(z, b))
    BY <1>1, <2>2, SafeOneMore
  <2>4. QED
    BY <2>1, <2>3
<1>4. QED
  BY <1>2, <1>3

\* What add_emulation returns can be put into a byte stream, whatever the bytes.
LEMMA AddedIsSafe ==
    ASSUME NEW bytes \in Seq(Byte)
    PROVE  Safe(AddEmulation(bytes))
<1> DEFINE f == Adding(bytes)
           S == {k \in Nat : Safe(f[k].out) /\ Counted(f[k].out, f[k].zeros)}
<1>1. 0 .. Len(bytes) \subseteq S
  <2>1. 0 \in S
    <3>1. f[0].out = << >>
      BY AddingSteps DEF Nothing
    <3>2. QED
      BY <3>1 DEF Safe, Counted
  <2>2. \A k \in 0 .. Len(bytes) - 1 : k \in S => k + 1 \in S
    <3> SUFFICES ASSUME NEW k \in 0 .. Len(bytes) - 1, k \in S
                 PROVE  k + 1 \in S
      OBVIOUS
    <3>1. /\ f[k] \in States /\ bytes[k + 1] \in Byte
          /\ f[k + 1] = Add(f[k], bytes[k + 1])
      BY AddingSteps
    <3> HIDE DEF f
    <3>2. QED
      BY <3>1, SafeStep
  <2> HIDE DEF S
  <2>3. QED
    BY <2>1, <2>2, BoundedInduction
<1>2. Len(bytes) \in S
  <2> HIDE DEF S
  <2>1. Len(bytes) \in 0 .. Len(bytes)
    OBVIOUS
  <2>2. QED
    BY <1>1, <2>1
<1>3. QED
  BY <1>2 DEF AddEmulation

\* Some bytes stay some bytes.
LEMMA EmptyRoundTrip ==
    ASSUME NEW bytes \in Seq(Byte), bytes # << >>
    PROVE  AddEmulation(bytes) # << >>
<1> SUFFICES ASSUME AddEmulation(bytes) = << >> PROVE FALSE
  OBVIOUS
<1>1. StripEmulation(<< >>) = bytes
  BY EmulationRoundTrip
<1>2. << >> \in Seq(Byte) /\ Len(<< >>) = 0
  OBVIOUS
<1>3. Stripping(<< >>)[Len(<< >>)] = Nothing
  BY <1>2, StrippingSteps
<1>4. QED
  BY <1>1, <1>3 DEF StripEmulation, Nothing

-----------------------------------------------------------------------------
(***************************************************************************)
(* Bits of bytes, and numbers of bits.                                     *)
(***************************************************************************)
\* Bytes are natural numbers.
LEMMA ByteIsNat ==
    ASSUME NEW x \in Byte
    PROVE  x \in Nat
BY DEF Byte

\* A bit of the bytes is 0 or 1.
LEMMA BitType ==
    ASSUME NEW bytes \in Seq(Byte), NEW p \in Nat, p < 8 * Len(bytes)
    PROVE  Bit(bytes, p) \in Digit
<1> DEFINE i == (p \div 8) + 1
           w == Weight[(p % 8) + 1]
<1>1. i \in 1 .. Len(bytes)
  OBVIOUS
<1>2. w \in Nat \ {0}
  BY DEF Weight
<1> HIDE DEF i, w
<1>3. bytes[i] \in Nat
  <2>1. bytes[i] \in Byte
    BY <1>1, ElementOfSeq
  <2>2. QED
    BY <2>1, ByteIsNat
<1>4. bytes[i] \div w \in Nat
  BY <1>2, <1>3
<1>5. (bytes[i] \div w) % 2 \in Digit
  BY <1>4 DEF Digit
<1>6. QED
  BY <1>5 DEF Bit, i, w

\* The bits from p on.
BitsFrom(bytes, p, n) == [i \in 1 .. n |-> Bit(bytes, p + i - 1)]

\* n bits of the bytes, and u(n) as their number.
LEMMA BitsFromType ==
    ASSUME NEW bytes \in Seq(Byte), NEW p \in Nat, NEW n \in Nat, p + n <= 8 * Len(bytes)
    PROVE  /\ BitsFrom(bytes, p, n) \in Seq(Digit) /\ Len(BitsFrom(bytes, p, n)) = n
           /\ Unsigned(bytes, p, n) = Number(BitsFrom(bytes, p, n))
<1>1. \A i \in 1 .. n : Bit(bytes, p + i - 1) \in Digit
  <2> SUFFICES ASSUME NEW i \in 1 .. n
               PROVE  Bit(bytes, p + i - 1) \in Digit
    OBVIOUS
  <2>1. p + i - 1 \in Nat /\ p + i - 1 < 8 * Len(bytes)
    BY LenProperties
  <2>2. QED
    BY <2>1, BitType
<1>2. QED
  BY <1>1 DEF BitsFrom, Unsigned

\* The first n bits, which copy_bits copies.
LEMMA BitsType ==
    ASSUME NEW bytes \in Seq(Byte), NEW n \in Nat, n <= 8 * Len(bytes)
    PROVE  Bits(bytes, n) \in Seq(Digit) /\ Len(Bits(bytes, n)) = n
<1>1. Bits(bytes, n) = BitsFrom(bytes, 0, n)
  BY DEF Bits, BitsFrom
<1>2. QED
  BY <1>1, BitsFromType

\* A number whose first bit is set is not zero.
LEMMA NumberPositive ==
    ASSUME NEW bits \in Seq(Digit), Len(bits) >= 1, bits[1] = 1
    PROVE  Number(bits) >= 1
<1> DEFINE f == Reading(bits)
           S == {k \in Nat : f[k + 1] >= 1}
           m == Len(bits) - 1
<1>1. /\ f[0] = 0 /\ m \in Nat
      /\ \A k \in 1 .. Len(bits) : f[k] = 2 * f[k - 1] + bits[k]
      /\ \A k \in 0 .. Len(bits) : f[k] \in Nat
      /\ \A k \in 1 .. Len(bits) : bits[k] \in Nat
  <2>1. \A k \in 1 .. Len(bits) : bits[k] \in Nat
    BY ElementOfSeq DEF Digit
  <2>2. QED
    BY <2>1, ReadingSteps
<1> HIDE DEF f
<1>2. 0 .. m \subseteq S
  <2>1. 0 \in S
    BY <1>1
  <2>2. \A k \in 0 .. m - 1 : k \in S => k + 1 \in S
    <3> SUFFICES ASSUME NEW k \in 0 .. m - 1, k \in S
                 PROVE  k + 1 \in S
      OBVIOUS
    <3>1. k + 2 \in 1 .. Len(bits) /\ k + 1 \in 0 .. Len(bits)
      BY <1>1
    <3>2. /\ f[k + 2] = 2 * f[k + 1] + bits[k + 2] /\ f[k + 1] \in Nat
          /\ bits[k + 2] \in Nat /\ f[k + 1] >= 1
      BY <1>1, <3>1
    <3>3. f[k + 1 + 1] >= 1
      BY ONLY <3>2
    <3>4. QED
      BY <3>3
  <2> HIDE DEF S, m
  <2>3. QED
    BY <1>1, <2>1, <2>2, BoundedInduction
<1>3. m \in S
  <2> HIDE DEF S, m
  <2>1. QED
    BY <1>1, <1>2
<1>4. QED
  BY <1>1, <1>3 DEF Number, f

-----------------------------------------------------------------------------
(***************************************************************************)
(* BitWriter: v >> n, and the bits of a number.                            *)
(***************************************************************************)
\* v >> n is n halvings, down to 0.
LEMMA ShiftedSteps ==
    ASSUME NEW v \in Nat
    PROVE  /\ ShiftRight(v, 0) = v
           /\ \A k \in 0 .. 31 : ShiftRight(v, k + 1) = ShiftRight(v, k) \div 2
           /\ \A k \in 0 .. 32 : ShiftRight(v, k) \in Nat
<1> DEFINE Of(f, n) == f = [k \in 0 .. n |-> IF k = 0 THEN v ELSE f[k - 1] \div 2]
<1>1. \E f : Of(f, 32)
  <2> DEFINE S == {n \in Nat : \E f : Of(f, n)}
  <2>1. 0 \in S
    <3> DEFINE f == [k \in 0 .. 0 |-> v]
    <3>1. Of(f, 0)
      OBVIOUS
    <3>2. QED
      BY <3>1
  <2>2. ASSUME NEW m \in Nat, m \in S PROVE m + 1 \in S
    <3>1. PICK f : Of(f, m)
      BY <2>2
    <3> DEFINE g == [k \in 0 .. m + 1 |-> IF k = m + 1 THEN f[m] \div 2 ELSE f[k]]
    <3>2. \A k \in 0 .. m + 1 : g[k] = IF k = 0 THEN v ELSE g[k - 1] \div 2
      BY <3>1
    <3>3. g = [k \in 0 .. m + 1 |-> g[k]]
      OBVIOUS
    <3> HIDE DEF g
    <3>4. Of(g, m + 1)
      BY <3>2, <3>3, Zenon
    <3>5. QED
      BY <3>4
  <2> HIDE DEF S
  <2>3. 32 \in S
    BY <2>1, <2>2, Induction
  <2>4. QED
    BY <2>3 DEF S
<1>2. Of(Shifted(v), 32)
  <2>1. PICK f : Of(f, 32)
    BY <1>1
  <2>2. QED
    BY <2>1, Zenon DEF Shifted
<1> DEFINE g == Shifted(v)
<1> HIDE DEF g
<1>3. /\ g[0] = v
      /\ \A k \in 0 .. 31 : g[k + 1] = g[k] \div 2
  BY <1>2 DEF g
<1> DEFINE S == {k \in Nat : g[k] \in Nat}
<1>4. 0 .. 32 \subseteq S
  <2>1. 0 \in S
    BY <1>3
  <2>2. \A k \in 0 .. 32 - 1 : k \in S => k + 1 \in S
    <3> SUFFICES ASSUME NEW k \in 0 .. 31, k \in S PROVE k + 1 \in S
      OBVIOUS
    <3>1. g[k + 1] = g[k] \div 2 /\ g[k] \in Nat
      BY <1>3
    <3>2. g[k + 1] \in Nat
      BY ONLY <3>1
    <3>3. QED
      BY <3>2
  <2> HIDE DEF S
  <2>3. QED
    BY <2>1, <2>2, BoundedInduction
<1>5. QED
  BY <1>3, <1>4 DEF ShiftRight, g

\* Once everything is shifted out, nothing comes back.
LEMMA ShiftedOut ==
    ASSUME NEW v \in Nat, NEW n \in 0 .. 32, ShiftRight(v, n) = 0, NEW m \in n .. 32
    PROVE  ShiftRight(v, m) = 0
<1> DEFINE S == {k \in Nat : ShiftRight(v, n + k) = 0}
<1>1. 0 .. m - n \subseteq S
  <2>1. 0 \in S
    OBVIOUS
  <2>2. \A k \in 0 .. m - n - 1 : k \in S => k + 1 \in S
    <3> SUFFICES ASSUME NEW k \in 0 .. m - n - 1, k \in S PROVE k + 1 \in S
      OBVIOUS
    <3> DEFINE j == n + k
    <3>1. j \in 0 .. 31 /\ ShiftRight(v, j) = 0 /\ n + (k + 1) = j + 1
      OBVIOUS
    <3> HIDE DEF j
    <3>2. ShiftRight(v, j + 1) = ShiftRight(v, j) \div 2
      BY <3>1, ShiftedSteps
    <3>3. ShiftRight(v, j + 1) = 0
      BY ONLY <3>1, <3>2
    <3>4. QED
      BY <3>1, <3>3
  <2> HIDE DEF S
  <2>3. m - n \in Nat
    OBVIOUS
  <2>4. QED
    BY <2>1, <2>2, <2>3, BoundedInduction
<1>2. m - n \in S
  BY <1>1
<1>3. QED
  BY <1>2

\* What BitWriter.u writes are n bits.
LEMMA UType ==
    ASSUME NEW v \in Nat, NEW n \in 0 .. 32
    PROVE  U(v, n) \in Seq(Digit) /\ Len(U(v, n)) = n
<1>1. \A i \in 1 .. n : ShiftRight(v, n - i) % 2 \in Digit
  <2> SUFFICES ASSUME NEW i \in 1 .. n PROVE ShiftRight(v, n - i) % 2 \in Digit
    OBVIOUS
  <2>1. n - i \in 0 .. 32
    OBVIOUS
  <2>2. ShiftRight(v, n - i) \in Nat
    BY <2>1, ShiftedSteps
  <2>3. QED
    BY ONLY <2>2 DEF Digit
<1>2. QED
  BY <1>1 DEF U

\* A number is twice its half, and its last bit.
LEMMA Doubling ==
    ASSUME NEW x \in Nat
    PROVE  2 * (x \div 2) + (x % 2) = x
OBVIOUS

\* A number that fits reads as it was written.
LEMMA NumberOfU ==
    ASSUME NEW v \in Nat, NEW n \in 0 .. 32, ShiftRight(v, n) = 0
    PROVE  Number(U(v, n)) = v
<1> DEFINE f == Reading(U(v, n))
           b == U(v, n)
           s(k) == ShiftRight(v, n - k)
           S == {k \in Nat : f[k] = s(k)}
<1>1. /\ f[0] = 0 /\ Len(b) = n
      /\ \A k \in 1 .. n : f[k] = 2 * f[k - 1] + b[k]
  BY UType, ReadingSteps
<1>2. \A k \in 1 .. n : b[k] = s(k) % 2
  BY DEF U
<1>3. \A k \in 0 .. n : s(k) \in Nat
  <2> SUFFICES ASSUME NEW k \in 0 .. n PROVE s(k) \in Nat
    OBVIOUS
  <2>1. n - k \in 0 .. 32
    OBVIOUS
  <2>2. QED
    BY <2>1, ShiftedSteps
<1>4. \A k \in 0 .. n - 1 : s(k) = s(k + 1) \div 2
  <2> SUFFICES ASSUME NEW k \in 0 .. n - 1 PROVE s(k) = s(k + 1) \div 2
    OBVIOUS
  <2> DEFINE j == n - (k + 1)
  <2>1. j \in 0 .. 31 /\ n - k = j + 1
    OBVIOUS
  <2> HIDE DEF j
  <2>2. ShiftRight(v, j + 1) = ShiftRight(v, j) \div 2
    BY <2>1, ShiftedSteps
  <2>3. QED
    BY <2>1, <2>2 DEF j
<1>5. s(0) = 0 /\ s(n) = v
  <2>1. n - 0 = n /\ n - n = 0
    OBVIOUS
  <2>2. QED
    BY <2>1, ShiftedSteps
<1> HIDE DEF f, b, s
<1>6. 0 .. n \subseteq S
  <2>1. 0 \in S
    BY <1>1, <1>5
  <2>2. \A k \in 0 .. n - 1 : k \in S => k + 1 \in S
    <3> SUFFICES ASSUME NEW k \in 0 .. n - 1, k \in S PROVE k + 1 \in S
      OBVIOUS
    <3>1. k + 1 \in 1 .. n /\ k + 1 - 1 = k
      OBVIOUS
    <3>2. f[k] = s(k) /\ f[k + 1] = 2 * f[k] + b[k + 1]
      BY <1>1, <3>1
    <3>3. /\ b[k + 1] = s(k + 1) % 2 /\ s(k) = s(k + 1) \div 2
          /\ s(k + 1) \in Nat
      BY <1>2, <1>3, <1>4, <3>1
    <3>4. 2 * (s(k + 1) \div 2) + (s(k + 1) % 2) = s(k + 1)
      BY <3>3, Doubling
    <3>5. f[k + 1] = s(k + 1)
      BY <3>2, <3>3, <3>4
    <3>6. QED
      BY <3>5
  <2> HIDE DEF S
  <2>3. n \in Nat
    OBVIOUS
  <2>4. QED
    BY <2>1, <2>2, <2>3, BoundedInduction
<1>7. f[n] = s(n)
  BY <1>6
<1>8. QED
  BY <1>1, <1>5, <1>7 DEF Number, f, b

\* A number of so many bits fits in them, and in 32.
LEMMA NumberFits ==
    ASSUME NEW bits \in Seq(Digit), Len(bits) <= 32
    PROVE  ShiftRight(Number(bits), Len(bits)) = 0 /\ ShiftRight(Number(bits), 32) = 0
<1> DEFINE f == Reading(bits)
           n == Len(bits)
           v == Number(bits)
           S == {k \in Nat : ShiftRight(v, k) = f[n - k]}
<1>1. /\ f[0] = 0 /\ v = f[n] /\ n \in 0 .. 32 /\ v \in Nat
      /\ \A k \in 1 .. n : f[k] = 2 * f[k - 1] + bits[k]
      /\ \A k \in 0 .. n : f[k] \in Nat
      /\ \A k \in 1 .. n : bits[k] \in Digit
  <2>1. n \in 0 .. 32 /\ n \in 0 .. n
    <3>1. n \in Nat /\ n <= 32
      OBVIOUS
    <3> HIDE DEF n
    <3>2. QED
      BY ONLY <3>1
  <2>2. /\ f[0] = 0 /\ v = f[n]
        /\ \A k \in 1 .. n : f[k] = 2 * f[k - 1] + bits[k]
        /\ \A k \in 0 .. n : f[k] \in Nat
    BY ReadingSteps DEF Number
  <2>3. \A k \in 1 .. n : bits[k] \in Digit
    BY ElementOfSeq
  <2> HIDE DEF f, n, v
  <2>4. QED
    BY <2>1, <2>2, <2>3
<1> HIDE DEF f, n, v
<1>2. 0 .. n \subseteq S
  <2>1. 0 \in S
    <3>1. n - 0 = n
      BY <1>1
    <3>2. QED
      BY <1>1, <3>1, ShiftedSteps
  <2>2. \A k \in 0 .. n - 1 : k \in S => k + 1 \in S
    <3> SUFFICES ASSUME NEW k \in 0 .. n - 1, k \in S PROVE k + 1 \in S
      OBVIOUS
    <3>1. /\ k \in 0 .. 31 /\ n - k \in 1 .. n /\ n - k - 1 = n - (k + 1)
          /\ n - (k + 1) \in 0 .. n
      BY <1>1
    <3>2. ShiftRight(v, k + 1) = f[n - k] \div 2
      BY <1>1, <3>1, ShiftedSteps, ZenonT(40)
    <3>3. f[n - k] = 2 * f[n - (k + 1)] + bits[n - k]
      BY <1>1, <3>1
    <3>4. (2 * f[n - (k + 1)] + bits[n - k]) \div 2 = f[n - (k + 1)]
      BY <1>1, <3>1, Halving
    <3>5. QED
      BY <3>2, <3>3, <3>4
  <2> HIDE DEF S
  <2>3. n \in Nat
    BY <1>1
  <2>4. QED
    BY <2>1, <2>2, <2>3, BoundedInduction
<1>3. ShiftRight(v, n) = 0
  <2>1. n \in 0 .. n /\ n - n = 0
    BY <1>1
  <2>2. QED
    BY <1>1, <1>2, <2>1
<1>4. ShiftRight(v, 32) = 0
  <2>1. 32 \in n .. 32
    BY <1>1
  <2>2. QED
    BY <1>1, <1>3, <2>1, ShiftedOut
<1>5. QED
  BY <1>3, <1>4 DEF v, n

\* bit_length is where the last one is shifted out.
LEMMA BitLengthType ==
    ASSUME NEW v \in Nat \ {0}, ShiftRight(v, 32) = 0
    PROVE  /\ BitLength(v) \in 1 .. 32
           /\ ShiftRight(v, BitLength(v) - 1) # 0 /\ ShiftRight(v, BitLength(v)) = 0
<1> DEFINE S == {k \in Nat : ShiftRight(v, k) # 0}
<1>1. \E k \in 0 .. 31 : k \in S /\ k + 1 \notin S
  <2> SUFFICES ASSUME \A k \in 0 .. 32 - 1 : k \in S => k + 1 \in S
               PROVE  FALSE
    OBVIOUS
  <2>1. 0 \in S
    BY ShiftedSteps
  <2> HIDE DEF S
  <2>2. 0 .. 32 \subseteq S
    BY <2>1, BoundedInduction
  <2>3. 32 \in S
    BY <2>2
  <2>4. QED
    BY <2>3 DEF S
<1>2. \E n \in 1 .. 32 : ShiftRight(v, n - 1) # 0 /\ ShiftRight(v, n) = 0
  <2>1. PICK k \in 0 .. 31 : k \in S /\ k + 1 \notin S
    BY <1>1
  <2>2. k + 1 \in 1 .. 32 /\ k + 1 - 1 = k
    OBVIOUS
  <2>3. ShiftRight(v, k) # 0 /\ ShiftRight(v, k + 1) = 0
    BY <2>1
  <2>4. QED
    BY <2>2, <2>3
<1>3. QED
  BY <1>2, Zenon DEF BitLength

\* A value an Exp-Golomb code of this tool can stand for.
Codable(v) == v \in Nat /\ ShiftRight(v + 1, 32) = 0

\* What BitWriter.ue writes for v: the bits of v + 1, and a zero for each but one.
LEMMA UEType ==
    ASSUME NEW v, Codable(v)
    PROVE  UE(v) \in Seq(Digit) /\ Len(UE(v)) = 2 * BitLength(v + 1) - 1
<1> DEFINE n == BitLength(v + 1)
           x == U(0, n - 1)
           y == U(v + 1, n)
<1>1. n \in 1 .. 32 /\ n - 1 \in 0 .. 32 /\ n \in 0 .. 32 /\ v + 1 \in Nat
  <2>1. n \in 1 .. 32
    BY BitLengthType DEF Codable
  <2>2. QED
    BY <2>1 DEF Codable
<1>2. UE(v) = x \o y
  BY DEF UE
<1> HIDE DEF n
<1>3. x \in Seq(Digit) /\ y \in Seq(Digit) /\ Len(x) = n - 1 /\ Len(y) = n
  BY <1>1, UType
<1> HIDE DEF x, y
<1>4. x \o y \in Seq(Digit) /\ Len(x \o y) = 2 * n - 1
  BY <1>1, <1>3
<1>5. QED
  BY <1>2, <1>4 DEF n

-----------------------------------------------------------------------------
(***************************************************************************)
(* rbsp_trailing and tobytes.                                              *)
(***************************************************************************)
\* Where the elements of two sequences are behind each other.
LEMMA ConcatType ==
    ASSUME NEW x \in Seq(Digit), NEW y \in Seq(Digit)
    PROVE  /\ x \o y \in Seq(Digit) /\ Len(x \o y) = Len(x) + Len(y)
           /\ \A i \in 1 .. Len(x) : (x \o y)[i] = x[i]
           /\ \A i \in 1 .. Len(y) : (x \o y)[Len(x) + i] = y[i]
OBVIOUS

\* rbsp_trailing fills a byte up behind a one.
LEMMA TrailingType ==
    ASSUME NEW bits \in Seq(Digit)
    PROVE  /\ Trailing(bits) \in Seq(Digit)
           /\ \E q \in Nat \ {0} : Len(Trailing(bits)) = 8 * q
           /\ Len(Trailing(bits)) > Len(bits)
           /\ \A i \in 1 .. Len(bits) : Trailing(bits)[i] = bits[i]
<1> DEFINE n == Len(bits)
           m == 7 - (n % 8)
           zeros == [i \in 1 .. m |-> 0]
           one == <<1>>
<1>1. n \in Nat /\ m \in Nat /\ n + 1 + m = 8 * ((n \div 8) + 1)
  <2>1. n \in Nat
    OBVIOUS
  <2> HIDE DEF n
  <2>2. QED
    BY <2>1
<1>2. /\ zeros \in Seq(Digit) /\ Len(zeros) = m
      /\ one \in Seq(Digit) /\ Len(one) = 1
  <2>1. m \in Nat
    BY <1>1
  <2> HIDE DEF m
  <2>2. QED
    BY <2>1 DEF Digit
<1>3. Trailing(bits) = (bits \o one) \o zeros
  BY DEF Trailing
<1> HIDE DEF m, zeros, one
<1>4. /\ bits \o one \in Seq(Digit) /\ Len(bits \o one) = n + 1
      /\ \A i \in 1 .. n : (bits \o one)[i] = bits[i]
  <2>1. /\ bits \o one \in Seq(Digit) /\ Len(bits \o one) = n + Len(one)
        /\ \A i \in 1 .. n : (bits \o one)[i] = bits[i]
    BY <1>2, ConcatType
  <2>2. QED
    BY <1>2, <2>1
<1> DEFINE x == bits \o one
<1> HIDE DEF x
<1>5. /\ x \o zeros \in Seq(Digit) /\ Len(x \o zeros) = n + 1 + m
      /\ \A i \in 1 .. n : (x \o zeros)[i] = x[i]
  <2>1. x \in Seq(Digit) /\ Len(x) = n + 1
    BY <1>4 DEF x
  <2>2. /\ x \o zeros \in Seq(Digit) /\ Len(x \o zeros) = Len(x) + Len(zeros)
        /\ \A i \in 1 .. Len(x) : (x \o zeros)[i] = x[i]
    BY <1>2, <2>1, ConcatType
  <2> HIDE DEF n
  <2>3. QED
    BY <1>1, <1>2, <2>1, <2>2
<1>6. Trailing(bits) = x \o zeros
  BY <1>3 DEF x
<1>7. \A i \in 1 .. n : Trailing(bits)[i] = bits[i]
  BY <1>4, <1>5, <1>6 DEF x
<1>8. Len(Trailing(bits)) = 8 * ((n \div 8) + 1) /\ (n \div 8) + 1 \in Nat \ {0}
  BY <1>1, <1>5, <1>6
<1>9. Len(Trailing(bits)) > n
  BY <1>1, <1>5, <1>6
<1>10. QED
  BY <1>5, <1>6, <1>7, <1>8, <1>9

\* What tobytes packs, the reader unpacks.
LEMMA ToBytesType ==
    ASSUME NEW bits \in Seq(Digit), NEW q \in Nat, Len(bits) = 8 * q
    PROVE  /\ ToBytes(bits) \in Seq(Byte) /\ Len(ToBytes(bits)) = q
           /\ \A p \in 0 .. 8 * q - 1 : Bit(ToBytes(bits), p) = bits[p + 1]
           /\ Bits(ToBytes(bits), 8 * q) = bits
<1> DEFINE octet(i) == [j \in 1 .. 8 |-> bits[8 * (i - 1) + j]]
           bytes == ToBytes(bits)
<1>1. \A i \in 1 .. 8 * q : bits[i] \in Digit
  BY ElementOfSeq
<1>2. \A i \in 1 .. q : octet(i) \in Seq(Digit) /\ Len(octet(i)) = 8
  <2> SUFFICES ASSUME NEW i \in 1 .. q
               PROVE  octet(i) \in Seq(Digit) /\ Len(octet(i)) = 8
    OBVIOUS
  <2>1. \A j \in 1 .. 8 : 8 * (i - 1) + j \in 1 .. 8 * q
    OBVIOUS
  <2>2. \A j \in 1 .. 8 : bits[8 * (i - 1) + j] \in Digit
    BY <1>1, <2>1
  <2>3. QED
    BY <2>2
<1>3. \A i \in 1 .. q :
         /\ Number(octet(i)) \in Byte
         /\ \A j \in 1 .. 8 : (Number(octet(i)) \div Weight[j]) % 2 = octet(i)[j]
  BY <1>2, ByteOfBits
<1>4. bytes = [i \in 1 .. q |-> Number(octet(i))]
  <2>1. Len(bits) \div 8 = q
    OBVIOUS
  <2>2. QED
    BY <2>1 DEF ToBytes
<1>5. bytes \in Seq(Byte) /\ Len(bytes) = q
  <2> HIDE DEF octet, bytes
  <2>1. QED
    BY <1>3, <1>4
<1>6. \A p \in 0 .. 8 * q - 1 : Bit(bytes, p) = bits[p + 1]
  <2> SUFFICES ASSUME NEW p \in 0 .. 8 * q - 1 PROVE Bit(bytes, p) = bits[p + 1]
    OBVIOUS
  <2> DEFINE i == (p \div 8) + 1
             j == (p % 8) + 1
  <2>1. i \in 1 .. q /\ j \in 1 .. 8 /\ 8 * (i - 1) + j = p + 1
    OBVIOUS
  <2>2. Bit(bytes, p) = (bytes[i] \div Weight[j]) % 2
    BY DEF Bit
  <2> HIDE DEF i, j
  <2>3. bytes[i] = Number(octet(i))
    <3> HIDE DEF octet, bytes
    <3>1. QED
      BY <1>4, <2>1
  <2>4. octet(i)[j] = bits[p + 1]
    BY <2>1
  <2> HIDE DEF octet, bytes
  <2>5. QED
    BY <1>3, <2>1, <2>2, <2>3, <2>4
<1>7. Bits(bytes, 8 * q) = bits
  <2>1. \A i \in 1 .. 8 * q : Bit(bytes, i - 1) = bits[i]
    <3> SUFFICES ASSUME NEW i \in 1 .. 8 * q PROVE Bit(bytes, i - 1) = bits[i]
      OBVIOUS
    <3>1. i - 1 \in 0 .. 8 * q - 1 /\ i - 1 + 1 = i
      OBVIOUS
    <3> HIDE DEF bytes
    <3>2. QED
      BY <1>6, <3>1
  <2>2. bits = [i \in 1 .. 8 * q |-> bits[i]]
    BY SeqDef
  <2> HIDE DEF bytes
  <2>3. QED
    BY <2>1, <2>2, Zenon DEF Bits
<1>8. QED
  BY <1>5, <1>6, <1>7

-----------------------------------------------------------------------------
(***************************************************************************)
(* The reader: what it returns for an element.                             *)
(***************************************************************************)
\* A set of natural numbers that is not empty has a least one.
LEMMA LeastOf ==
    ASSUME NEW T, T \subseteq Nat, T # {}
    PROVE  \E k \in T : \A j \in T : k <= j
<1> DEFINE S == {n \in Nat : \A k \in 0 .. n : k \notin T}
<1>1. SUFFICES ASSUME ~\E k \in T : \A j \in T : k <= j
               PROVE  FALSE
  OBVIOUS
<1>2. 0 \in S
  BY <1>1
<1>3. \A n \in Nat : n \in S => n + 1 \in S
  <2> SUFFICES ASSUME NEW n \in Nat, n \in S, n + 1 \in T
               PROVE  FALSE
    OBVIOUS
  <2>1. \A j \in T : n + 1 <= j
    OBVIOUS
  <2>2. QED
    BY <1>1, <2>1
<1> HIDE DEF S
<1>4. Nat \subseteq S
  BY <1>2, <1>3, Induction
<1>5. \A k \in Nat : k \notin T
  <2> SUFFICES ASSUME NEW k \in Nat PROVE k \notin T
    OBVIOUS
  <2>1. k \in S /\ k \in 0 .. k
    BY <1>4
  <2>2. QED
    BY <2>1 DEF S
<1>6. QED
  BY <1>5

\* The zeros in front of a code that is in the bytes.
LEMMA LeadingZerosType ==
    ASSUME NEW bytes \in Seq(Byte), NEW p \in Nat
    PROVE  \/ LeadingZeros(bytes, p) = -1
           \/ /\ LeadingZeros(bytes, p) \in 0 .. 31
              /\ p + LeadingZeros(bytes, p) < 8 * Len(bytes)
              /\ Bit(bytes, p + LeadingZeros(bytes, p)) = 1
              /\ \A j \in 0 .. LeadingZeros(bytes, p) - 1 : Bit(bytes, p + j) # 1
<1> DEFINE runs == {k \in 0 .. 31 : p + k < 8 * Len(bytes) /\ Bit(bytes, p + k) = 1}
<1>1. CASE runs = {}
  BY <1>1 DEF LeadingZeros
<1>2. CASE runs # {}
  <2> DEFINE z == LeadingZeros(bytes, p)
  <2>1. z \in runs /\ \A j \in runs : z <= j
    <3>1. \E k \in runs : \A j \in runs : k <= j
      <4>1. runs \subseteq Nat
        <5>1. runs \subseteq 0 .. 31
          BY Zenon
        <5> HIDE DEF runs
        <5>2. QED
          BY <5>1
      <4> HIDE DEF runs
      <4>2. QED
        BY <1>2, <4>1, LeastOf
    <3>2. z = CHOOSE k \in runs : \A j \in runs : k <= j
      BY <1>2 DEF LeadingZeros
    <3> HIDE DEF z, runs
    <3>3. QED
      BY <3>1, <3>2, Zenon
  <2>2. ASSUME NEW j \in 0 .. z - 1, Bit(bytes, p + j) = 1 PROVE FALSE
    <3>1. z \in 0 .. 31 /\ p + z < 8 * Len(bytes)
      BY <2>1
    <3> HIDE DEF z
    <3>2. j \in 0 .. 31 /\ p + j < 8 * Len(bytes) /\ ~(z <= j)
      <4>1. 8 * Len(bytes) \in Nat
        BY LenProperties
      <4>2. QED
        BY <3>1, <4>1
    <3>3. j \in runs
      BY <2>2, <3>2
    <3>4. QED
      BY <2>1, <3>2, <3>3
  <2>3. QED
    BY <2>1, <2>2
<1>3. QED
  BY <1>1, <1>2

-----------------------------------------------------------------------------
(***************************************************************************)
(* The invariants.                                                         *)
(***************************************************************************)
FrameField(f) == f.name = "max_num_ref_frames"
FlagField(f)  == f.name = "vui_present"

Frames(fs) == ValueOf(fs, "max_num_ref_frames")

FieldsType(fs) ==
    fs \in Seq(Entries) /\ \A i \in 1 .. Len(fs) : FrameField(fs[i]) => Codable(fs[i].value)

\* What is known of every state. An SPS that has been parsed has reference
\* frames, since they cannot get lost on their way from todo to fields.
TypeInv ==
    /\ TypeOK
    /\ FieldsType(fields) /\ FieldsType(original)
    /\ stage = "parse" =>
          /\ vuiFlagPos \in 0 .. 8 * Len(rbsp)
          /\ \/ \E i \in 1 .. Len(todo) : FrameField(todo[i])
             \/ \E i \in 1 .. Len(fields) : FrameField(fields[i])
    /\ stage = "verify" => rbsp # << >>
    /\ stage = "done" => output = AddEmulation(rbsp)

\* The flag is the last element of the first parse, and read but once.
FlagPending(es) ==
    /\ es # << >> /\ es[Len(es)] = u(1, "vui_present")
    /\ \A i \in 1 .. Len(es) - 1 : ~FlagField(es[i])

FlagRead(fs, bytes, p) ==
    /\ fs # << >>
    /\ fs[Len(fs)] = [name |-> "vui_present", value |-> Bit(bytes, p)]
    /\ \A i \in 1 .. Len(fs) - 1 : ~FlagField(fs[i])

\* What is written in the place of the first n bits of bytes and the rest.
Written(bytes, n, frames) == Bits(bytes, n) \o VuiBits(frames)
Patched(bytes, n, frames) == ToBytes(Trailing(Written(bytes, n, frames)))

Old == StripEmulation(input)
New == Patched(Old, vuiFlagPos, Frames(original))

FlagInv ==
    /\ stage = "parse" =>
          /\ rbsp = Old
          /\ \/ FlagPending(todo) /\ \A i \in 1 .. Len(fields) : ~FlagField(fields[i])
             \/ /\ todo = << >> /\ FlagRead(fields, Old, vuiFlagPos)
                /\ pos = vuiFlagPos + 1
    /\ stage \in {"verify", "done"} =>
          /\ vuiFlagPos \in Nat /\ vuiFlagPos < 8 * Len(Old) /\ Bit(Old, vuiFlagPos) = 0
          /\ Codable(Frames(original))
          /\ rbsp = New

\* How the first parse came from the first element to where it is: the position
\* and what was still to be read after each field.
TraceStep(tr, bytes, fs, i) ==
    LET e == Head(tr[i].todo)
        d == Decode(bytes, tr[i].pos, e)
    IN /\ tr[i].todo # << >> /\ d.end >= 0 /\ Asserted(e.name, d.value, FALSE)
       /\ fs[i + 1] = [name |-> e.name, value |-> d.value]
       /\ tr[i + 1] = [pos  |-> d.end,
                       todo |-> Expands(e.name, d.value, FALSE) \o Tail(tr[i].todo)]

Trace(tr, bytes, fs) ==
    /\ tr[0] = [pos |-> 0, todo |-> Syntax]
    /\ \A i \in 0 .. Len(fs) - 1 : TraceStep(tr, bytes, fs, i)
    /\ \A i \in 0 .. Len(fs) : tr[i].pos \in Nat /\ tr[i].todo \in Seq(Elements)
    /\ \A i, j \in 0 .. Len(fs) : i <= j => tr[i].pos <= tr[j].pos

VuiValues(frames) ==
    <<0, 0, 0, 0, 1, 1, 60, 1, 0, 0, 0, 1, 1, 0, 0, 16, 16, 0, frames>>
\* Where each of them begins, counted from the flag, and where the last one ends.
VuiStarts(frames) ==
    <<1, 2, 3, 4, 5, 6, 38, 70, 71, 72, 73, 74, 75, 76, 77, 78, 87, 96, 97,
      97 + Len(UE(frames))>>

\* Names only the VUI has.
VuiName(f) == f.name \in {"time_scale", "max_num_reorder_frames"}
Plain(fs) == \A i \in 1 .. Len(fs) : ~VuiName(fs[i])

\* The second parse is where the first one was with as many fields,
Copying(tr, fs, p, es) ==
    /\ Len(fs) < Len(original) /\ \A i \in 1 .. Len(fs) : fs[i] = original[i]
    /\ p = tr[Len(fs)].pos /\ es = tr[Len(fs)].todo

VuiRest(j) == SubSeq(VuiSyntax, j + 1, 19)

\* or behind the flag and j elements of the VUI.
InVui(fs, p, es, j) ==
    LET n == Len(original)
    IN /\ Len(fs) = n + j /\ \A i \in 1 .. n - 1 : fs[i] = original[i]
       /\ ~VuiName(fs[n])
       /\ \A i \in 1 .. j : fs[n + i] = [name  |-> VuiSyntax[i].name,
                                      value |-> VuiValues(Frames(original))[i]]
       /\ es = VuiRest(j) /\ p = vuiFlagPos + VuiStarts(Frames(original))[j + 1]

VerifyAt(tr, fs, p, es) == Copying(tr, fs, p, es) \/ \E j \in 0 .. 19 : InVui(fs, p, es, j)

\* What the second parse relies on of the first.
Parsed(tr) ==
    /\ Plain(original) /\ FlagRead(original, Old, vuiFlagPos)
    /\ Trace(tr, Old, original)
    /\ tr[Len(original) - 1].pos = vuiFlagPos /\ tr[Len(original)].todo = << >>

CheckInv ==
    /\ stage = "parse" =>
          /\ Plain(todo) /\ Plain(fields)
          /\ \E tr : /\ Trace(tr, Old, fields)
                     /\ tr[Len(fields)] = [pos |-> pos, todo |-> todo]
    /\ stage = "verify" => \E tr : Parsed(tr) /\ VerifyAt(tr, fields, pos, todo)

-----------------------------------------------------------------------------
(***************************************************************************)
(* The syntax, element by element.                                         *)
(***************************************************************************)
OtherElements ==
    {ue("log2_max_poc_lsb"), u(1, "delta_pic_order_always_zero"),
     se("offset_for_non_ref_pic"), se("offset_for_top_to_bottom"), ue("n"),
     se("offset"), u(1, "mb_adaptive_frame_field"), ue("crop")}

\* Every element is in one of the two tables, or depends on a value.
LEMMA ElementsSplit ==
    /\ Elements = {Syntax[i] : i \in 1 .. 19} \cup {VuiSyntax[i] : i \in 1 .. 19}
                      \cup OtherElements
    /\ Len(Syntax) = 19 /\ Len(VuiSyntax) = 19
<1>1. DOMAIN Syntax = 1 .. 19 /\ DOMAIN VuiSyntax = 1 .. 19
  BY DEF Syntax, VuiSyntax
<1>2. Len(Syntax) = 19 /\ Len(VuiSyntax) = 19
  BY DEF Syntax, VuiSyntax
<1>3. QED
  BY <1>1, <1>2, Zenon DEF Elements, ToSet, OtherElements

\* The table of parse_sps, place by place,
LEMMA SyntaxList ==
    /\ Syntax[1] = u(8, "profile_idc") /\ Syntax[2] = u(8, "constraint_flags")
    /\ Syntax[3] = u(8, "level_idc") /\ Syntax[4] = ue("sps_id")
    /\ Syntax[5] = ue("chroma_format_idc") /\ Syntax[6] = ue("bit_depth_luma")
    /\ Syntax[7] = ue("bit_depth_chroma") /\ Syntax[8] = u(1, "qpprime_y_zero_flag")
    /\ Syntax[9] = u(1, "seq_scaling_matrix_present")
    /\ Syntax[10] = ue("log2_max_frame_num") /\ Syntax[11] = ue("pic_order_cnt_type")
    /\ Syntax[12] = ue("max_num_ref_frames")
    /\ Syntax[13] = u(1, "gaps_in_frame_num_allowed")
    /\ Syntax[14] = ue("pic_width_in_mbs_minus1")
    /\ Syntax[15] = ue("pic_height_in_map_units_minus1")
    /\ Syntax[16] = u(1, "frame_mbs_only_flag")
    /\ Syntax[17] = u(1, "direct_8x8_inference_flag")
    /\ Syntax[18] = u(1, "frame_cropping_flag") /\ Syntax[19] = u(1, "vui_present")
BY DEF Syntax

\* and that of the VUI.
LEMMA VuiList ==
    /\ VuiSyntax[1] = u(1, "aspect_ratio_info") /\ VuiSyntax[2] = u(1, "overscan_info")
    /\ VuiSyntax[3] = u(1, "video_signal_type")
    /\ VuiSyntax[4] = u(1, "chroma_loc_info") /\ VuiSyntax[5] = u(1, "timing_info")
    /\ VuiSyntax[6] = u(32, "num_units_in_tick") /\ VuiSyntax[7] = u(32, "time_scale")
    /\ VuiSyntax[8] = u(1, "fixed_frame_rate") /\ VuiSyntax[9] = u(1, "nal_hrd")
    /\ VuiSyntax[10] = u(1, "vcl_hrd") /\ VuiSyntax[11] = u(1, "pic_struct_present")
    /\ VuiSyntax[12] = u(1, "bitstream_restriction")
    /\ VuiSyntax[13] = u(1, "mv_over_pic_boundaries")
    /\ VuiSyntax[14] = ue("max_bytes_per_pic_denom")
    /\ VuiSyntax[15] = ue("max_bits_per_mb_denom") /\ VuiSyntax[16] = ue("log2_max_mv_h")
    /\ VuiSyntax[17] = ue("log2_max_mv_v") /\ VuiSyntax[18] = ue("max_num_reorder_frames")
    /\ VuiSyntax[19] = ue("max_dec_frame_buffering")
BY DEF VuiSyntax

\* The count n and the reference frames are Exp-Golomb codes, without which
\* neither could be counted with.
ElementFact(e) ==
    /\ e.code \in {"u", "ue", "se"} /\ e.width \in Nat
    /\ e.name = "n" \/ FrameField(e) => e.code = "ue"
    /\ FlagField(e) => e = u(1, "vui_present")

\* What the invariants tell apart of an element goes by its name.
LEMMA ElementFacts ==
    ASSUME NEW e \in Elements
    PROVE  ElementFact(e)
<1>1. \A i \in 1 .. 19 : ElementFact(Syntax[i])
  <2>1. \A i \in 1 .. 18 : ElementFact(Syntax[i])
    BY SyntaxList DEF ElementFact, u, ue, FrameField, FlagField
  <2>2. ElementFact(Syntax[19])
    BY SyntaxList DEF ElementFact, u, ue, FrameField, FlagField
  <2>3. QED
    BY <2>1, <2>2
<1>2. \A i \in 1 .. 19 : ElementFact(VuiSyntax[i])
  BY VuiList DEF ElementFact, u, ue, FrameField, FlagField
<1>3. \A x \in OtherElements : ElementFact(x)
  BY DEF OtherElements, ElementFact, u, ue, se, FrameField, FlagField
<1>4. QED
  BY <1>1, <1>2, <1>3, ElementsSplit

\* The table of parse_sps ends with the flag, and has the reference frames.
LEMMA SyntaxType ==
    /\ Syntax \in Seq(Elements) /\ Len(Syntax) = 19
    /\ FlagPending(Syntax) /\ Plain(Syntax)
    /\ \E i \in 1 .. Len(Syntax) : FrameField(Syntax[i])
<1>1. Syntax = [i \in 1 .. 19 |-> Syntax[i]]
  BY DEF Syntax
<1>2. \A i \in 1 .. 19 : Syntax[i] \in Elements
  BY ElementsSplit
<1>3. Syntax \in Seq(Elements) /\ Len(Syntax) = 19
  BY <1>1, <1>2, ElementsSplit
<1>4. \A i \in 1 .. 18 : ~FlagField(Syntax[i]) /\ ~VuiName(Syntax[i])
  BY SyntaxList DEF FlagField, VuiName, u, ue
<1>5. /\ ~VuiName(Syntax[19]) /\ FrameField(Syntax[12])
      /\ Syntax[19] = u(1, "vui_present")
  BY SyntaxList DEF VuiName, FrameField, u, ue
<1>6. FlagPending(Syntax)
  <2>1. Syntax # << >>
    BY DEF Syntax
  <2>2. QED
    BY <1>3, <1>4, <1>5, <2>1 DEF FlagPending
<1>7. Plain(Syntax)
  BY <1>3, <1>4, <1>5 DEF Plain
<1>8. QED
  BY <1>3, <1>5, <1>6, <1>7

\* The VUI has 19 elements.
LEMMA VuiSyntaxType ==
    VuiSyntax \in Seq(Elements) /\ Len(VuiSyntax) = 19
<1>1. VuiSyntax = [i \in 1 .. 19 |-> VuiSyntax[i]]
  BY DEF VuiSyntax
<1>2. \A i \in 1 .. 19 : VuiSyntax[i] \in Elements
  BY ElementsSplit
<1>3. QED
  BY <1>1, <1>2, ElementsSplit

\* Elements of the stream's own parameters, the flag apart.
Inner == {e \in Elements : ~FlagField(e) /\ ~VuiName(e)}

\* What a value adds to an SPS, the VUI apart, are parameters of the stream.
LEMMA ExpandsInner ==
    ASSUME NEW name, NEW v \in Int, name = "n" => v \in Nat
    PROVE  Expands(name, v, FALSE) \in Seq(Inner)
<1>1. \A e \in OtherElements : e \in Inner
  <2>1. \A e \in OtherElements : ~FlagField(e) /\ ~VuiName(e)
    BY DEF OtherElements, FlagField, VuiName, u, ue, se
  <2>2. QED
    BY <2>1, ElementsSplit DEF Inner
<1>2. /\ ue("log2_max_poc_lsb") \in Inner /\ u(1, "delta_pic_order_always_zero") \in Inner
      /\ se("offset_for_non_ref_pic") \in Inner /\ se("offset_for_top_to_bottom") \in Inner
      /\ ue("n") \in Inner /\ se("offset") \in Inner /\ ue("crop") \in Inner
      /\ u(1, "mb_adaptive_frame_field") \in Inner
  BY <1>1 DEF OtherElements
<1>3. /\ <<ue("log2_max_poc_lsb")>> \in Seq(Inner)
      /\ <<u(1, "mb_adaptive_frame_field")>> \in Seq(Inner)
      /\ << >> \in Seq(Inner)
  BY <1>2
<1>4. <<u(1, "delta_pic_order_always_zero"), se("offset_for_non_ref_pic"),
        se("offset_for_top_to_bottom"), ue("n")>> \in Seq(Inner)
  BY <1>2
<1>5. ASSUME name = "n" PROVE [i \in 1 .. v |-> se("offset")] \in Seq(Inner)
  <2>1. v \in Nat
    BY <1>5
  <2>2. QED
    BY <1>2, <2>1
<1>6. [i \in 1 .. 4 |-> ue("crop")] \in Seq(Inner)
  BY <1>2
<1>7. QED
  BY <1>3, <1>4, <1>5, <1>6, Zenon DEF Expands

\* What a value adds are elements.
LEMMA ExpandsType ==
    ASSUME NEW name, NEW v \in Int, name = "n" => v \in Nat, NEW verifying \in BOOLEAN
    PROVE  Expands(name, v, verifying) \in Seq(Elements)
<1>1. CASE name = "vui_present" /\ verifying
  <2>1. Expands(name, v, verifying) = VuiSyntax
    BY <1>1 DEF Expands
  <2>2. QED
    BY <2>1, VuiSyntaxType
<1>2. CASE ~(name = "vui_present" /\ verifying)
  <2>1. Expands(name, v, verifying) = Expands(name, v, FALSE)
    BY <1>2 DEF Expands
  <2>2. Seq(Inner) \subseteq Seq(Elements)
    <3>1. Inner \subseteq Elements
      BY DEF Inner
    <3>2. QED
      BY <3>1
  <2>3. QED
    BY <2>1, <2>2, ExpandsInner
<1>3. QED
  BY <1>1, <1>2

\* u(n) is a natural number.
LEMMA UnsignedType ==
    ASSUME NEW bytes \in Seq(Byte), NEW p \in Nat, NEW n \in Nat, p + n <= 8 * Len(bytes)
    PROVE  Unsigned(bytes, p, n) \in Nat
BY BitsFromType, NumberType

\* An Exp-Golomb code in the bytes stands for a number that can be written again.
LEMMA CodeRead ==
    ASSUME NEW bytes \in Seq(Byte), NEW p \in Nat, NEW zeros \in 0 .. 31,
           p + 2 * zeros + 1 <= 8 * Len(bytes), Bit(bytes, p + zeros) = 1
    PROVE  Codable(Unsigned(bytes, p + zeros, zeros + 1) - 1)
<1> DEFINE bits == BitsFrom(bytes, p + zeros, zeros + 1)
           v == Unsigned(bytes, p + zeros, zeros + 1)
<1>1. bits \in Seq(Digit) /\ Len(bits) = zeros + 1 /\ v = Number(bits)
  <2>1. p + zeros \in Nat /\ zeros + 1 \in Nat /\ p + zeros + (zeros + 1) <= 8 * Len(bytes)
    BY LenProperties
  <2>2. QED
    BY <2>1, BitsFromType
<1>2. bits[1] = 1
  <2>1. 1 \in 1 .. zeros + 1 /\ p + zeros + 1 - 1 = p + zeros
    OBVIOUS
  <2>2. QED
    BY <2>1 DEF BitsFrom
<1> HIDE DEF bits, v
<1>3. v \in Nat /\ v >= 1 /\ ShiftRight(v, 32) = 0
  BY <1>1, <1>2, NumberType, NumberPositive, NumberFits
<1>4. v - 1 \in Nat /\ v - 1 + 1 = v
  BY <1>3
<1>5. QED
  BY <1>3, <1>4 DEF Codable, v

\* se(v) is an integer.
LEMMA SignedType ==
    ASSUME NEW k \in Nat
    PROVE  Signed(k) \in Int
BY DEF Signed

\* What the reader returns for an element.
LEMMA DecodeType ==
    ASSUME NEW bytes \in Seq(Byte), NEW p \in Nat, NEW e \in Elements,
           Decode(bytes, p, e).end # -1
    PROVE  /\ Decode(bytes, p, e).end \in p .. 8 * Len(bytes)
           /\ Decode(bytes, p, e).value \in Int
           /\ e.code = "ue" => Codable(Decode(bytes, p, e).value)
           /\ e.code = "u" => /\ Decode(bytes, p, e).end = p + e.width
                              /\ Decode(bytes, p, e).value = Unsigned(bytes, p, e.width)
<1> DEFINE d == Decode(bytes, p, e)
           zeros == LeadingZeros(bytes, p)
           k == Unsigned(bytes, p + zeros, zeros + 1) - 1
           code == p + 2 * zeros + 1
<1>1. e.code \in {"u", "ue", "se"} /\ e.width \in Nat
  BY ElementFacts DEF ElementFact
<1>2. CASE e.code = "u" /\ p + e.width <= 8 * Len(bytes)
  <2>1. d = [value |-> Unsigned(bytes, p, e.width), end |-> p + e.width]
    BY <1>2 DEF Decode
  <2> DEFINE w == e.width
  <2>2. w \in Nat /\ p + w <= 8 * Len(bytes) /\ Len(bytes) \in Nat
    <3>1. w \in Nat
      BY <1>1
    <3>2. p + w <= 8 * Len(bytes)
      BY <1>2
    <3>3. Len(bytes) \in Nat
      BY LenProperties
    <3>4. QED
      BY <3>1, <3>2, <3>3
  <2>3. Unsigned(bytes, p, w) \in Nat
    <3> HIDE DEF w
    <3>1. QED
      BY <2>2, UnsignedType
  <2>4. p + w \in p .. 8 * Len(bytes)
    <3> HIDE DEF w
    <3>1. QED
      BY <2>2
  <2> HIDE DEF d
  <2>5. QED
    BY <1>2, <2>1, <2>3, <2>4 DEF d
<1>3. CASE e.code # "u" /\ zeros >= 0 /\ code <= 8 * Len(bytes)
  <2>1. d = [value |-> IF e.code = "ue" THEN k ELSE Signed(k), end |-> code]
    BY <1>3 DEF Decode
  <2>2. zeros \in 0 .. 31 /\ Bit(bytes, p + zeros) = 1
    BY <1>3, LeadingZerosType
  <2> HIDE DEF zeros
  <2>3. Codable(k) /\ k \in Nat
    BY <1>3, <2>2, CodeRead DEF Codable
  <2>4. Signed(k) \in Int
    BY <2>3, SignedType
  <2>5. code \in p .. 8 * Len(bytes)
    BY <1>3, <2>2, LenProperties
  <2> HIDE DEF d, k, code
  <2>6. QED
    BY <1>3, <2>1, <2>3, <2>4, <2>5 DEF d
<1>4. CASE /\ ~(e.code = "u" /\ p + e.width <= 8 * Len(bytes))
           /\ ~(e.code # "u" /\ zeros >= 0 /\ code <= 8 * Len(bytes))
  <2>1. d = [value |-> 0, end |-> -1]
    BY <1>4 DEF Decode
  <2>2. QED
    BY <2>1
<1>5. QED
  BY <1>2, <1>3, <1>4

-----------------------------------------------------------------------------
(***************************************************************************)
(* The VUI that is appended, and where in it each code is.                 *)
(***************************************************************************)
\* The numbers the VUI is written with, and their bit lengths.
LEMMA SmallNumbers ==
    /\ ShiftRight(1, 32) = 0 /\ BitLength(1) = 1
    /\ ShiftRight(17, 32) = 0 /\ BitLength(17) = 5
    /\ ShiftRight(60, 32) = 0
<1>1. /\ ShiftRight(1, 0) = 1 /\ ShiftRight(1, 1) = 0
  <2>1. 0 \in 0 .. 31 /\ 1 \in Nat
    OBVIOUS
  <2>2. ShiftRight(1, 0) = 1 /\ ShiftRight(1, 0 + 1) = ShiftRight(1, 0) \div 2
    BY <2>1, ShiftedSteps
  <2>3. QED
    BY <2>2
<1>2. /\ ShiftRight(17, 0) = 17 /\ ShiftRight(17, 1) = 8 /\ ShiftRight(17, 2) = 4
      /\ ShiftRight(17, 3) = 2 /\ ShiftRight(17, 4) = 1 /\ ShiftRight(17, 5) = 0
  <2>1. 17 \in Nat /\ \A k \in {0, 1, 2, 3, 4} : k \in 0 .. 31
    OBVIOUS
  <2>2. /\ ShiftRight(17, 0) = 17
        /\ \A k \in {0, 1, 2, 3, 4} : ShiftRight(17, k + 1) = ShiftRight(17, k) \div 2
    BY <2>1, ShiftedSteps
  <2>3. QED
    BY <2>2
<1>3. /\ ShiftRight(60, 0) = 60 /\ ShiftRight(60, 1) = 30 /\ ShiftRight(60, 2) = 15
      /\ ShiftRight(60, 3) = 7 /\ ShiftRight(60, 4) = 3 /\ ShiftRight(60, 5) = 1
      /\ ShiftRight(60, 6) = 0
  <2>1. 60 \in Nat /\ \A k \in {0, 1, 2, 3, 4, 5} : k \in 0 .. 31
    OBVIOUS
  <2>2. /\ ShiftRight(60, 0) = 60
        /\ \A k \in {0, 1, 2, 3, 4, 5} : ShiftRight(60, k + 1) = ShiftRight(60, k) \div 2
    BY <2>1, ShiftedSteps
  <2>3. QED
    BY <2>2
<1>4. /\ \A m \in 1 .. 32 : ShiftRight(1, m) = 0
      /\ \A m \in 5 .. 32 : ShiftRight(17, m) = 0
      /\ \A m \in 6 .. 32 : ShiftRight(60, m) = 0
  <2>1. \A n \in {1, 5, 6} : n \in 0 .. 32
    OBVIOUS
  <2>2. 1 \in Nat /\ 17 \in Nat /\ 60 \in Nat
    OBVIOUS
  <2>3. QED
    BY <1>1, <1>2, <1>3, <2>1, <2>2, ShiftedOut
<1>5. ShiftRight(1, 32) = 0 /\ ShiftRight(17, 32) = 0 /\ ShiftRight(60, 32) = 0
  BY <1>4
<1>6. BitLength(1) = 1
  <2> DEFINE n == BitLength(1)
  <2>1. 1 \in Nat \ {0}
    OBVIOUS
  <2>2. n \in 1 .. 32 /\ ShiftRight(1, n - 1) # 0
    BY <1>5, <2>1, BitLengthType
  <2> HIDE DEF n
  <2>3. n - 1 \notin 1 .. 32
    BY <1>4, <2>2
  <2>4. n = 1
    BY <2>2, <2>3
  <2>5. QED
    BY <2>4 DEF n
<1>7. BitLength(17) = 5
  <2> DEFINE n == BitLength(17)
  <2>1. 17 \in Nat \ {0}
    OBVIOUS
  <2>2. n \in 1 .. 32 /\ ShiftRight(17, n - 1) # 0 /\ ShiftRight(17, n) = 0
    BY <1>5, <2>1, BitLengthType
  <2> HIDE DEF n
  <2>3. n - 1 \notin 5 .. 32
    BY <1>4, <2>2
  <2>4. n \notin {1, 2, 3, 4}
    BY <1>2, <2>2
  <2>5. n = 5
    BY <2>2, <2>3, <2>4
  <2>6. QED
    BY <2>5 DEF n
<1>8. QED
  BY <1>5, <1>6, <1>7

\* Their Exp-Golomb codes.
LEMMA SmallCodes ==
    /\ Codable(0) /\ UE(0) \in Seq(Digit) /\ Len(UE(0)) = 1
    /\ Codable(16) /\ UE(16) \in Seq(Digit) /\ Len(UE(16)) = 9
<1>1. 0 + 1 = 1 /\ 16 + 1 = 17 /\ 2 * 1 - 1 = 1 /\ 2 * 5 - 1 = 9
  OBVIOUS
<1>2. Codable(0) /\ Codable(16)
  BY <1>1, SmallNumbers DEF Codable
<1>3. UE(0) \in Seq(Digit) /\ Len(UE(0)) = 2 * BitLength(0 + 1) - 1
  BY <1>2, UEType
<1>4. UE(16) \in Seq(Digit) /\ Len(UE(16)) = 2 * BitLength(16 + 1) - 1
  BY <1>2, UEType
<1>5. QED
  BY <1>1, <1>2, <1>3, <1>4, SmallNumbers

\* t is in s, behind the first p elements.
Has(s, p, t) == p + Len(t) <= Len(s) /\ \A i \in 1 .. Len(t) : s[p + i] = t[i]

\* What stands in one of two sequences stands in both together.
LEMMA HasBoth ==
    ASSUME NEW x \in Seq(Digit), NEW y \in Seq(Digit)
    PROVE  /\ x \o y \in Seq(Digit) /\ Len(x \o y) = Len(x) + Len(y)
           /\ Has(x \o y, Len(x), y) /\ Has(x \o y, 0, x)
           /\ \A p \in Nat : \A t \in Seq(Digit) : Has(x, p, t) => Has(x \o y, p, t)
<1> DEFINE z == x \o y
<1>1. /\ z \in Seq(Digit) /\ Len(z) = Len(x) + Len(y)
      /\ \A i \in 1 .. Len(x) : z[i] = x[i]
      /\ \A i \in 1 .. Len(y) : z[Len(x) + i] = y[i]
      /\ Len(x) \in Nat /\ Len(y) \in Nat
  BY ConcatType, LenProperties
<1> HIDE DEF z
<1>2. Has(z, Len(x), y) /\ Has(z, 0, x)
  BY <1>1 DEF Has
<1>3. ASSUME NEW p \in Nat, NEW t \in Seq(Digit), Has(x, p, t) PROVE Has(z, p, t)
  <2>1. Len(t) \in Nat
    OBVIOUS
  <2>2. \A i \in 1 .. Len(t) : p + i \in 1 .. Len(x)
    BY <1>1, <1>3, <2>1 DEF Has
  <2>3. QED
    BY <1>1, <1>3, <2>1, <2>2 DEF Has
<1>4. QED
  BY <1>1, <1>2, <1>3 DEF z

\* The same of several, given with their places.
Laid(s, K) ==
    s \in Seq(Digit) /\ \A k \in K : k \in Nat \X Seq(Digit) /\ Has(s, k[1], k[2])

\* One more sequence behind those that are laid out.
LEMMA LaidMore ==
    ASSUME NEW x, NEW y \in Seq(Digit), NEW K, Laid(x, K), NEW n \in Nat, Len(x) = n
    PROVE  Laid(x \o y, K \cup {<<n, y>>})
<1>1. x \in Seq(Digit)
  BY DEF Laid
<1>2. /\ x \o y \in Seq(Digit) /\ Has(x \o y, n, y)
      /\ \A p \in Nat : \A t \in Seq(Digit) : Has(x, p, t) => Has(x \o y, p, t)
  BY <1>1, HasBoth
<1>3. ASSUME NEW k \in K PROVE k \in Nat \X Seq(Digit) /\ Has(x \o y, k[1], k[2])
  <2>1. k \in Nat \X Seq(Digit) /\ Has(x, k[1], k[2])
    BY DEF Laid
  <2>2. QED
    BY <1>2, <2>1
<1>4. QED
  BY <1>2, <1>3 DEF Laid

VuiHead == <<1, 0, 0, 0, 0, 1>>
VuiTail == <<1, 0, 0, 0, 1, 1>>

VuiLayout(v, frames) ==
    /\ v \in Seq(Digit) /\ Len(v) = 97 + Len(UE(frames))
    /\ Has(v, 0, VuiHead) /\ Has(v, 6, U(1, 32)) /\ Has(v, 38, U(60, 32))
    /\ Has(v, 70, VuiTail) /\ Has(v, 76, UE(0)) /\ Has(v, 77, UE(0))
    /\ Has(v, 78, UE(16)) /\ Has(v, 87, UE(16)) /\ Has(v, 96, UE(0))
    /\ Has(v, 97, UE(frames))

\* Where in the VUI each of its codes is.
LEMMA VuiBitsLayout ==
    ASSUME NEW frames, Codable(frames)
    PROVE  VuiLayout(VuiBits(frames), frames)
<1>1. /\ VuiHead \in Seq(Digit) /\ Len(VuiHead) = 6
      /\ VuiTail \in Seq(Digit) /\ Len(VuiTail) = 6
  BY DEF VuiHead, VuiTail, Digit
<1>2. /\ U(1, 32) \in Seq(Digit) /\ Len(U(1, 32)) = 32
      /\ U(60, 32) \in Seq(Digit) /\ Len(U(60, 32)) = 32
  <2>1. 1 \in Nat /\ 60 \in Nat /\ 32 \in 0 .. 32
    OBVIOUS
  <2>2. QED
    BY <2>1, UType
<1>3. UE(frames) \in Seq(Digit)
  BY UEType
<1> DEFINE a == VuiHead
           b == a \o U(1, 32)
           c == b \o U(60, 32)
           d == c \o VuiTail
           e == d \o UE(0)
           f == e \o UE(0)
           g == f \o UE(16)
           h == g \o UE(16)
           i == h \o UE(0)
           j == i \o UE(frames)
<1>4. VuiBits(frames) = j
  BY DEF VuiBits, VuiHead, VuiTail
<1> HIDE DEF a, b, c, d, e, f, g, h, i, j
<1> DEFINE A == {<<0, VuiHead>>}
           B == A \cup {<<6, U(1, 32)>>}
           C == B \cup {<<38, U(60, 32)>>}
           D == C \cup {<<70, VuiTail>>}
           E == D \cup {<<76, UE(0)>>}
           F == E \cup {<<77, UE(0)>>}
           G == F \cup {<<78, UE(16)>>}
           H == G \cup {<<87, UE(16)>>}
           I == H \cup {<<96, UE(0)>>}
           J == I \cup {<<97, UE(frames)>>}
<1>5. Laid(a, A) /\ Len(a) = 6
  <2>1. a \in Seq(Digit) /\ Len(a) = 6 /\ Has(a, 0, VuiHead)
    BY <1>1 DEF a, Has
  <2>2. QED
    BY <1>1, <2>1 DEF Laid
<1> HIDE DEF A
<1>6. Laid(b, B) /\ Len(b) = 38
  <2>1. a \in Seq(Digit) /\ U(1, 32) \in Seq(Digit) /\ 6 \in Nat
    BY <1>5, <1>2 DEF Laid
  <2>2. Laid(b, B)
    BY <1>5, <2>1, LaidMore, Zenon DEF b
  <2>3. Len(b) = 38
    <3>1. Len(b) = Len(a) + Len(U(1, 32))
      BY <2>1, ConcatType, Zenon DEF b
    <3>2. Len(a) = 6 /\ Len(U(1, 32)) = 32
      BY <1>5, <1>2, Zenon
    <3>3. 6 + 32 = 38
      OBVIOUS
    <3>4. QED
      BY <3>1, <3>2, <3>3, Zenon
  <2>4. QED
    BY <2>2, <2>3
<1> HIDE DEF B
<1>7. Laid(c, C) /\ Len(c) = 70
  <2>1. b \in Seq(Digit) /\ U(60, 32) \in Seq(Digit) /\ 38 \in Nat
    BY <1>6, <1>2 DEF Laid
  <2>2. Laid(c, C)
    BY <1>6, <2>1, LaidMore, Zenon DEF c
  <2>3. Len(c) = 70
    <3>1. Len(c) = Len(b) + Len(U(60, 32))
      BY <2>1, ConcatType, Zenon DEF c
    <3>2. Len(b) = 38 /\ Len(U(60, 32)) = 32
      BY <1>6, <1>2, Zenon
    <3>3. 38 + 32 = 70
      OBVIOUS
    <3>4. QED
      BY <3>1, <3>2, <3>3, Zenon
  <2>4. QED
    BY <2>2, <2>3
<1> HIDE DEF C
<1>8. Laid(d, D) /\ Len(d) = 76
  <2>1. c \in Seq(Digit) /\ VuiTail \in Seq(Digit) /\ 70 \in Nat
    BY <1>7, <1>1 DEF Laid
  <2>2. Laid(d, D)
    BY <1>7, <2>1, LaidMore, Zenon DEF d
  <2>3. Len(d) = 76
    <3>1. Len(d) = Len(c) + Len(VuiTail)
      BY <2>1, ConcatType, Zenon DEF d
    <3>2. Len(c) = 70 /\ Len(VuiTail) = 6
      BY <1>7, <1>1, Zenon
    <3>3. 70 + 6 = 76
      OBVIOUS
    <3>4. QED
      BY <3>1, <3>2, <3>3, Zenon
  <2>4. QED
    BY <2>2, <2>3
<1> HIDE DEF D
<1>9. Laid(e, E) /\ Len(e) = 77
  <2>1. d \in Seq(Digit) /\ UE(0) \in Seq(Digit) /\ 76 \in Nat
    BY <1>8, SmallCodes DEF Laid
  <2>2. Laid(e, E)
    BY <1>8, <2>1, LaidMore, Zenon DEF e
  <2>3. Len(e) = 77
    <3>1. Len(e) = Len(d) + Len(UE(0))
      BY <2>1, ConcatType, Zenon DEF e
    <3>2. Len(d) = 76 /\ Len(UE(0)) = 1
      BY <1>8, SmallCodes, Zenon
    <3>3. 76 + 1 = 77
      OBVIOUS
    <3>4. QED
      BY <3>1, <3>2, <3>3, Zenon
  <2>4. QED
    BY <2>2, <2>3
<1> HIDE DEF E
<1>10. Laid(f, F) /\ Len(f) = 78
  <2>1. e \in Seq(Digit) /\ UE(0) \in Seq(Digit) /\ 77 \in Nat
    BY <1>9, SmallCodes DEF Laid
  <2>2. Laid(f, F)
    BY <1>9, <2>1, LaidMore, Zenon DEF f
  <2>3. Len(f) = 78
    <3>1. Len(f) = Len(e) + Len(UE(0))
      BY <2>1, ConcatType, Zenon DEF f
    <3>2. Len(e) = 77 /\ Len(UE(0)) = 1
      BY <1>9, SmallCodes, Zenon
    <3>3. 77 + 1 = 78
      OBVIOUS
    <3>4. QED
      BY <3>1, <3>2, <3>3, Zenon
  <2>4. QED
    BY <2>2, <2>3
<1> HIDE DEF F
<1>11. Laid(g, G) /\ Len(g) = 87
  <2>1. f \in Seq(Digit) /\ UE(16) \in Seq(Digit) /\ 78 \in Nat
    BY <1>10, SmallCodes DEF Laid
  <2>2. Laid(g, G)
    BY <1>10, <2>1, LaidMore, Zenon DEF g
  <2>3. Len(g) = 87
    <3>1. Len(g) = Len(f) + Len(UE(16))
      BY <2>1, ConcatType, Zenon DEF g
    <3>2. Len(f) = 78 /\ Len(UE(16)) = 9
      BY <1>10, SmallCodes, Zenon
    <3>3. 78 + 9 = 87
      OBVIOUS
    <3>4. QED
      BY <3>1, <3>2, <3>3, Zenon
  <2>4. QED
    BY <2>2, <2>3
<1> HIDE DEF G
<1>12. Laid(h, H) /\ Len(h) = 96
  <2>1. g \in Seq(Digit) /\ UE(16) \in Seq(Digit) /\ 87 \in Nat
    BY <1>11, SmallCodes DEF Laid
  <2>2. Laid(h, H)
    BY <1>11, <2>1, LaidMore, Zenon DEF h
  <2>3. Len(h) = 96
    <3>1. Len(h) = Len(g) + Len(UE(16))
      BY <2>1, ConcatType, Zenon DEF h
    <3>2. Len(g) = 87 /\ Len(UE(16)) = 9
      BY <1>11, SmallCodes, Zenon
    <3>3. 87 + 9 = 96
      OBVIOUS
    <3>4. QED
      BY <3>1, <3>2, <3>3, Zenon
  <2>4. QED
    BY <2>2, <2>3
<1> HIDE DEF H
<1>13. Laid(i, I) /\ Len(i) = 97
  <2>1. h \in Seq(Digit) /\ UE(0) \in Seq(Digit) /\ 96 \in Nat
    BY <1>12, SmallCodes DEF Laid
  <2>2. Laid(i, I)
    BY <1>12, <2>1, LaidMore, Zenon DEF i
  <2>3. Len(i) = 97
    <3>1. Len(i) = Len(h) + Len(UE(0))
      BY <2>1, ConcatType, Zenon DEF i
    <3>2. Len(h) = 96 /\ Len(UE(0)) = 1
      BY <1>12, SmallCodes, Zenon
    <3>3. 96 + 1 = 97
      OBVIOUS
    <3>4. QED
      BY <3>1, <3>2, <3>3, Zenon
  <2>4. QED
    BY <2>2, <2>3
<1> HIDE DEF I
<1>14. Laid(j, J) /\ Len(j) = 97 + Len(UE(frames))
  <2>1. i \in Seq(Digit) /\ 97 \in Nat
    BY <1>13 DEF Laid
  <2>2. Laid(j, J)
    BY <1>3, <1>13, <2>1, LaidMore, Zenon DEF j
  <2>3. Len(j) = 97 + Len(UE(frames))
    <3>1. Len(j) = Len(i) + Len(UE(frames))
      BY <1>3, <2>1, ConcatType, Zenon DEF j
    <3>2. QED
      BY <1>13, <3>1, Zenon
  <2>4. QED
    BY <2>2, <2>3
<1>15. VuiLayout(j, frames)
  <2>1. /\ <<0, VuiHead>> \in J /\ <<6, U(1, 32)>> \in J /\ <<38, U(60, 32)>> \in J
        /\ <<70, VuiTail>> \in J /\ <<76, UE(0)>> \in J /\ <<77, UE(0)>> \in J
        /\ <<78, UE(16)>> \in J /\ <<87, UE(16)>> \in J /\ <<96, UE(0)>> \in J
        /\ <<97, UE(frames)>> \in J
    BY ZenonT(40) DEF A, B, C, D, E, F, G, H, I
  <2> HIDE DEF J
  <2>2. \A p, t : <<p, t>> \in J => Has(j, p, t)
    BY <1>14 DEF Laid
  <2>3. QED
    BY <1>14, <2>1, <2>2, Zenon DEF VuiLayout, Laid
<1>16. QED
  BY <1>4, <1>15

\* The bits that are written, as they are read again.
PatchedFact(bytes, n, frames, bits, new) ==
    /\ bits \in Seq(Digit) /\ Len(bits) = n + (97 + Len(UE(frames)))
    /\ new \in Seq(Byte) /\ new # << >>
    /\ Bits(new, 8 * Len(new)) = Trailing(bits)
    /\ \A p \in 0 .. Len(bits) - 1 : p < 8 * Len(new) /\ Bit(new, p) = bits[p + 1]
    /\ \A p \in 0 .. n - 1 : Bit(new, p) = Bit(bytes, p)
    /\ Has(bits, n, VuiBits(frames))

\* The patched SPS has the bits of the input up to the flag, and then the VUI.
LEMMA PatchedType ==
    ASSUME NEW bytes \in Seq(Byte), NEW n \in 0 .. 8 * Len(bytes), NEW frames,
           Codable(frames)
    PROVE  PatchedFact(bytes, n, frames, Written(bytes, n, frames),
                       Patched(bytes, n, frames))
<1> DEFINE bits == Written(bytes, n, frames)
           new == Patched(bytes, n, frames)
<1>1. /\ Bits(bytes, n) \in Seq(Digit) /\ Len(Bits(bytes, n)) = n
  <2>1. n \in Nat /\ n <= 8 * Len(bytes)
    BY LenProperties
  <2>2. QED
    BY <2>1, BitsType
<1>2. VuiBits(frames) \in Seq(Digit) /\ Len(VuiBits(frames)) = 97 + Len(UE(frames))
  BY VuiBitsLayout DEF VuiLayout
<1> DEFINE x == Bits(bytes, n)
           y == VuiBits(frames)
<1>3. /\ bits \in Seq(Digit) /\ Len(bits) = Len(x) + Len(y)
      /\ Has(bits, Len(x), y) /\ Has(bits, 0, x)
  <2>1. bits = x \o y
    BY DEF Written
  <2>2. x \in Seq(Digit) /\ y \in Seq(Digit)
    BY <1>1, <1>2
  <2> HIDE DEF x, y, bits
  <2>3. QED
    BY <2>1, <2>2, HasBoth
<1> HIDE DEF bits, new
<1>4. Len(bits) = n + (97 + Len(UE(frames)))
  BY <1>1, <1>2, <1>3, Zenon
<1>5. /\ Trailing(bits) \in Seq(Digit)
      /\ Len(Trailing(bits)) > Len(bits)
      /\ \A i \in 1 .. Len(bits) : Trailing(bits)[i] = bits[i]
  BY <1>3, TrailingType
<1>6. PICK q \in Nat \ {0} : Len(Trailing(bits)) = 8 * q
  BY <1>3, TrailingType
<1>7. /\ new \in Seq(Byte) /\ Len(new) = q
      /\ \A p \in 0 .. 8 * q - 1 : Bit(new, p) = Trailing(bits)[p + 1]
      /\ Bits(new, 8 * q) = Trailing(bits)
  BY <1>5, <1>6, ToBytesType DEF new, bits, Patched
<1>8. new # << >>
  <2>1. Len(new) # 0
    BY <1>7
  <2>2. Len(<< >>) = 0
    OBVIOUS
  <2>3. QED
    BY <2>1, <2>2, Zenon
<1>9. \A p \in 0 .. Len(bits) - 1 : p < 8 * Len(new) /\ Bit(new, p) = bits[p + 1]
  <2> SUFFICES ASSUME NEW p \in 0 .. Len(bits) - 1
               PROVE  p < 8 * Len(new) /\ Bit(new, p) = bits[p + 1]
    OBVIOUS
  <2>1. Len(bits) \in Nat /\ Len(bits) < 8 * q
    BY <1>3, <1>5, <1>6
  <2> DEFINE l == Len(bits)
  <2> HIDE DEF l
  <2>2. p \in 0 .. 8 * q - 1 /\ p + 1 \in 1 .. l
    <3>1. l \in Nat /\ l < 8 * q /\ p \in 0 .. l - 1
      BY <2>1 DEF l
    <3>2. QED
      BY <3>1
  <2>3. p < 8 * q
    BY <2>2
  <2>4. QED
    BY <1>5, <1>7, <2>2, <2>3 DEF l
<1>10. \A p \in 0 .. n - 1 : Bit(new, p) = Bit(bytes, p)
  <2> SUFFICES ASSUME NEW p \in 0 .. n - 1 PROVE Bit(new, p) = Bit(bytes, p)
    OBVIOUS
  <2>1. p + 1 \in 1 .. n /\ p + 1 - 1 = p /\ 0 + (p + 1) = p + 1
    OBVIOUS
  <2>2. bits[p + 1] = x[p + 1]
    BY <1>1, <1>3, <2>1 DEF Has
  <2>3. x[p + 1] = Bit(bytes, p)
    BY <2>1 DEF Bits
  <2>4. p \in 0 .. Len(bits) - 1
    <3>1. Len(x) = n /\ Len(y) \in Nat /\ Len(bits) = Len(x) + Len(y)
      BY <1>1, <1>2, <1>3
    <3> HIDE DEF x, y
    <3>2. QED
      BY <3>1
  <2>5. QED
    BY <1>9, <2>2, <2>3, <2>4
<1>11. Has(bits, n, y)
  BY <1>1, <1>3
<1>12. QED
  BY <1>3, <1>4, <1>7, <1>8, <1>9, <1>10, <1>11 DEF PatchedFact, bits, new

-----------------------------------------------------------------------------
(***************************************************************************)
(* Types.                                                                  *)
(***************************************************************************)
\* max_num_ref_frames of an SPS that was parsed can be written again.
LEMMA FramesCodable ==
    ASSUME NEW fs, FieldsType(fs), \E i \in 1 .. Len(fs) : FrameField(fs[i])
    PROVE  Codable(Frames(fs))
<1> DEFINE T == ToSet(fs)
           f == CHOOSE f \in T : f.name = "max_num_ref_frames"
<1>1. DOMAIN fs = 1 .. Len(fs)
  BY DEF FieldsType
<1>2. \A g \in T : FrameField(g) => Codable(g.value)
  BY <1>1 DEF FieldsType, ToSet
<1>3. \E g \in T : g.name = "max_num_ref_frames"
  BY <1>1 DEF ToSet, FrameField
<1> HIDE DEF T
<1>4. f \in T /\ f.name = "max_num_ref_frames"
  BY <1>3, Zenon
<1>5. Frames(fs) = f.value
  BY Zenon DEF Frames, ValueOf, T
<1> HIDE DEF f
<1>6. QED
  BY <1>2, <1>4, <1>5 DEF FrameField

\* One element read, whatever the stage.
LEMMA ReadElementTypes ==
    ASSUME TypeInv, ReadElement
    PROVE  /\ Element \in Elements /\ todo = <<Element>> \o Tail(todo)
           /\ Tail(todo) \in Seq(Elements) /\ Len(todo) = Len(Tail(todo)) + 1
           /\ \A i \in 1 .. Len(Tail(todo)) : Tail(todo)[i] = todo[i + 1]
           /\ Decoded = Decode(rbsp, pos, Element) /\ pos' = Decoded.end
           /\ pos' \in pos .. 8 * Len(rbsp) /\ pos \in Nat /\ Decoded.value \in Int
           /\ Element.code = "u" =>
                 /\ pos' = pos + Element.width
                 /\ Decoded.value = Unsigned(rbsp, pos, Element.width)
           /\ Element.name = "n" => Decoded.value \in Nat
           /\ todo' = Expands(Element.name, Decoded.value, Verifying) \o Tail(todo)
           /\ Expands(Element.name, Decoded.value, Verifying) \in Seq(Elements)
           /\ todo' \in Seq(Elements)
           /\ [name |-> Element.name, value |-> Decoded.value] \in Entries
           /\ fields' \in Seq(Entries) /\ FieldsType(fields')
           /\ Len(fields') = Len(fields) + 1
           /\ fields'[Len(fields) + 1] = [name |-> Element.name, value |-> Decoded.value]
           /\ \A i \in 1 .. Len(fields) : fields'[i] = fields[i]
<1> DEFINE e == Element
           d == Decoded
           x == Expands(e.name, d.value, Verifying)
           t == Tail(todo)
           f == [name |-> e.name, value |-> d.value]
<1>1. /\ rbsp \in Seq(Byte) /\ pos \in Nat /\ todo \in Seq(Elements) /\ todo # << >>
      /\ fields \in Seq(Entries) /\ Len(rbsp) \in Nat
  BY DEF TypeInv, TypeOK, ReadElement, Byte
<1>2. e \in Elements /\ t \in Seq(Elements) /\ todo = <<e>> \o t /\ Len(todo) = Len(t) + 1
      /\ \A i \in 1 .. Len(t) : t[i] = todo[i + 1]
  BY <1>1, HeadTailProperties DEF Element
<1>3. /\ d = Decode(rbsp, pos, e) /\ Accepted(d) /\ d.end >= 0
      /\ pos' = d.end /\ fields' = Append(fields, f) /\ todo' = x \o t
  BY DEF ReadElement, Decoded, Accepted
<1> HIDE DEF d, e
<1>4. d.end # -1
  BY <1>3
<1>5. /\ d.end \in pos .. 8 * Len(rbsp) /\ d.value \in Int
      /\ e.code = "ue" => Codable(d.value)
      /\ e.code = "u" => /\ d.end = pos + e.width
                         /\ d.value = Unsigned(rbsp, pos, e.width)
  BY <1>1, <1>2, <1>3, <1>4, DecodeType
<1>6. /\ e.name = "n" => d.value \in Nat
      /\ FrameField(f) => Codable(d.value)
  BY <1>2, <1>5, ElementFacts DEF ElementFact, Codable, FrameField
<1>7. Verifying \in BOOLEAN
  BY DEF Verifying
<1>8. x \in Seq(Elements)
  BY <1>5, <1>6, <1>7, ExpandsType
<1>9. f \in Entries
  BY <1>2, <1>5 DEF Entries
<1> HIDE DEF f, x, t
<1>10. todo' \in Seq(Elements)
  BY <1>2, <1>3, <1>8
<1>11. /\ fields' \in Seq(Entries) /\ Len(fields') = Len(fields) + 1
       /\ fields'[Len(fields) + 1] = f
       /\ \A i \in 1 .. Len(fields) : fields'[i] = fields[i]
  BY <1>1, <1>3, <1>9
<1>12. FieldsType(fields')
  <2> SUFFICES ASSUME NEW i \in 1 .. Len(fields'), FrameField(fields'[i])
               PROVE  Codable(fields'[i].value)
    BY <1>11 DEF FieldsType
  <2>1. CASE i \in 1 .. Len(fields)
    BY <1>11, <2>1 DEF TypeInv, FieldsType
  <2>2. CASE i = Len(fields) + 1
    BY <1>6, <1>11, <2>2 DEF f
  <2>3. i \in 1 .. Len(fields) \/ i = Len(fields) + 1
    BY <1>1, <1>11
  <2>4. QED
    BY <2>1, <2>2, <2>3
<1>13. QED
  BY <1>1, <1>2, <1>3, <1>5, <1>6, <1>8, <1>9, <1>10, <1>11, <1>12 DEF f, x, t, e, d

\* The reference frames are still to be read, or were read.
FramesSomewhere ==
    \/ \E i \in 1 .. Len(todo) : FrameField(todo[i])
    \/ \E i \in 1 .. Len(fields) : FrameField(fields[i])

\* max_num_ref_frames is still to be read, or has been.
LEMMA FramesNotLost ==
    ASSUME TypeInv, ReadElement, FramesSomewhere
    PROVE  FramesSomewhere'
<1> DEFINE x == Expands(Element.name, Decoded.value, Verifying)
           t == Tail(todo)
<1>1. /\ x \in Seq(Elements) /\ t \in Seq(Elements) /\ todo' = x \o t
      /\ Len(todo) = Len(t) + 1
      /\ \A i \in 1 .. Len(t) : t[i] = todo[i + 1]
      /\ todo[1] = Element
  <2>1. todo[1] = Element /\ todo' = x \o t
    BY DEF ReadElement, Element
  <2>2. QED
    BY <2>1, ReadElementTypes
<1>2. /\ Len(fields') = Len(fields) + 1 /\ Len(fields) \in Nat
      /\ fields'[Len(fields) + 1] = [name |-> Element.name, value |-> Decoded.value]
      /\ \A i \in 1 .. Len(fields) : fields'[i] = fields[i]
  <2>1. Len(fields) \in Nat
    BY DEF TypeInv, TypeOK
  <2>2. QED
    BY <2>1, ReadElementTypes, Zenon
<1> HIDE DEF x, t
<1>3. ASSUME NEW i \in 1 .. Len(todo), FrameField(todo[i]) PROVE FramesSomewhere'
  <2>1. CASE i = 1
    <3>1. FrameField(fields'[Len(fields) + 1])
      BY <1>1, <1>2, <1>3, <2>1 DEF FrameField
    <3>2. QED
      BY <1>2, <3>1 DEF FramesSomewhere
  <2>2. CASE i # 1
    <3> DEFINE j == i - 1
    <3>1. Len(t) \in Nat
      BY <1>1
    <3>2. j \in 1 .. Len(t) /\ i = j + 1
      BY <1>1, <2>2, <3>1
    <3> HIDE DEF j
    <3>3. t[j] = todo[i]
      BY <1>1, <3>2, Zenon
    <3>4. todo'[Len(x) + j] = t[j] /\ Len(x) + j \in 1 .. Len(todo')
      BY <1>1, <3>2
    <3>5. QED
      BY <1>3, <3>3, <3>4 DEF FramesSomewhere
  <2>3. QED
    BY <2>1, <2>2
<1>4. ASSUME NEW i \in 1 .. Len(fields), FrameField(fields[i]) PROVE FramesSomewhere'
  <2>1. i \in 1 .. Len(fields') /\ FrameField(fields'[i])
    BY <1>2, <1>4
  <2>2. QED
    BY <2>1 DEF FramesSomewhere
<1>5. QED
  BY <1>3, <1>4 DEF FramesSomewhere

\* TypeInv holds when the tool starts,
LEMMA TypeInit ==
    ASSUME Init
    PROVE  TypeInv
<1>1. input \in Seq(Byte)
  BY InputsAssumption DEF Init, Byte
<1>2. rbsp \in Seq(Byte)
  BY <1>1, EmulationTypes DEF Init
<1>3. pos \in 0 .. 8 * Len(rbsp) /\ vuiFlagPos \in 0 .. 8 * Len(rbsp)
  BY <1>2 DEF Init
<1>4. << >> \in Seq(Entries) /\ << >> \in Seq(Byte) /\ Len(<< >>) = 0
  OBVIOUS
<1>5. FieldsType(<< >>)
  BY <1>4 DEF FieldsType
<1>6. QED
  BY <1>2, <1>3, <1>4, <1>5, SyntaxType DEF Init, TypeInv, TypeOK, Byte

\* and each step of it keeps TypeInv.
LEMMA TypeStep ==
    ASSUME TypeInv, [Next]_vars
    PROVE  TypeInv'
<1>1. CASE ReadElement
  <2>1. UNCHANGED <<stage, input, rbsp, original, output>>
    BY <1>1 DEF ReadElement
  <2>2. pos' \in 0 .. 8 * Len(rbsp)
    <3>1. pos' \in pos .. 8 * Len(rbsp) /\ pos \in Nat
      BY <1>1, ReadElementTypes, Zenon
    <3>2. Len(rbsp) \in Nat
      BY DEF TypeInv, TypeOK
    <3>3. QED
      BY <3>1, <3>2
  <2>3. todo' \in Seq(Elements) /\ fields' \in Seq(Entries) /\ FieldsType(fields')
    BY <1>1, ReadElementTypes
  <2>4. stage = "parse" => vuiFlagPos' \in 0 .. 8 * Len(rbsp)
    BY <1>1 DEF ReadElement, TypeInv, TypeOK
  <2>5. stage = "parse" => FramesSomewhere'
    BY <1>1, FramesNotLost DEF TypeInv, FramesSomewhere
  <2>6. stage # "done"
    BY <1>1 DEF ReadElement
  <2>7. TypeOK'
    BY <2>1, <2>2, <2>3 DEF TypeInv, TypeOK
  <2>8. FieldsType(original)'
    BY <2>1 DEF TypeInv, FieldsType
  <2>9. QED
    BY <2>1, <2>3, <2>4, <2>5, <2>6, <2>7, <2>8 DEF TypeInv, FramesSomewhere
<1>2. CASE Patch
  <2>1. /\ stage = "parse" /\ stage' = "verify" /\ todo = << >>
        /\ pos' = 0 /\ todo' = Syntax /\ fields' = << >> /\ original' = fields
        /\ UNCHANGED <<input, vuiFlagPos, output>>
    BY <1>2 DEF Patch
  <2>2. \E i \in 1 .. Len(fields) : FrameField(fields[i])
    BY <2>1 DEF TypeInv
  <2>3. Codable(Frames(fields))
    BY <2>2, FramesCodable DEF TypeInv
  <2>4. /\ rbsp \in Seq(Byte) /\ vuiFlagPos \in 0 .. 8 * Len(rbsp)
    BY <2>1 DEF TypeInv, TypeOK, Byte
  <2>5. rbsp' = Patched(rbsp, vuiFlagPos, Frames(fields))
    BY <1>2 DEF Patch, CopiedBits, Frames, Patched, Written
  <2>6. rbsp' \in Seq(Byte) /\ rbsp' # << >>
    BY <2>3, <2>4, <2>5, PatchedType DEF PatchedFact
  <2>7. 0 \in 0 .. 8 * Len(rbsp')
    BY <2>6
  <2>8. << >> \in Seq(Entries) /\ Len(<< >>) = 0
    OBVIOUS
  <2>9. FieldsType(<< >>) /\ FieldsType(fields)
    BY <2>8 DEF FieldsType, TypeInv
  <2>10. TypeOK'
    BY <2>1, <2>6, <2>7, <2>8, SyntaxType DEF TypeInv, TypeOK, Byte
  <2>11. FieldsType(fields)' /\ FieldsType(original)'
    BY <2>1, <2>9 DEF FieldsType
  <2>12. QED
    BY <2>1, <2>6, <2>10, <2>11 DEF TypeInv
<1>3. CASE Emit
  <2>1. /\ stage = "verify" /\ stage' = "done" /\ output' = AddEmulation(rbsp)
        /\ UNCHANGED <<input, rbsp, pos, todo, fields, vuiFlagPos, original>>
    BY <1>3 DEF Emit
  <2>2. rbsp \in Seq(Byte) /\ rbsp # << >>
    BY <2>1 DEF TypeInv, TypeOK, Byte
  <2>3. output' \in Seq(Byte) /\ output' # << >>
    BY <2>1, <2>2, EmulationTypes, EmptyRoundTrip
  <2>4. TypeOK'
    BY <2>1, <2>3 DEF TypeInv, TypeOK, Byte
  <2>5. QED
    BY <2>1, <2>4 DEF TypeInv, FieldsType
<1>4. CASE Raises
  <2>1. /\ stage \in {"parse", "verify"} /\ stage' = "failed"
        /\ UNCHANGED <<input, rbsp, pos, todo, fields, vuiFlagPos, original, output>>
    BY <1>4 DEF Raises
  <2>2. TypeOK'
    BY <2>1 DEF TypeInv, TypeOK
  <2>3. QED
    BY <2>1, <2>2 DEF TypeInv, FieldsType
<1>5. CASE Exited \/ UNCHANGED vars
  BY <1>5 DEF Exited, vars, TypeInv, TypeOK, FieldsType
<1>6. QED
  BY <1>1, <1>2, <1>3, <1>4, <1>5 DEF Next

\* TypeInv holds in every state of patch_sps_vui.py, whatever NAL it is given.
THEOREM TypeCorrect == Spec => []TypeInv
<1>1. Init => TypeInv
  BY TypeInit
<1>2. TypeInv /\ [Next]_vars => TypeInv'
  BY TypeStep
<1>3. QED
  BY <1>1, <1>2, PTL DEF Spec

\* The reader stays within its bytes and what it packs are bytes, whatever NAL
\* patch_sps_vui.py is given.
THEOREM Typed == Spec => []TypeOK
<1>1. TypeInv => TypeOK
  BY DEF TypeInv
<1>2. QED
  BY <1>1, TypeCorrect, PTL

\* What patch_sps_vui.py emits has no start code in it, nor a part of one, whatever
\* NAL it was given: add_emulation misses no place that needs a byte.
THEOREM OutputIsSafe == Spec => []EmulationSafe
<1>1. TypeInv => EmulationSafe
  <2> SUFFICES ASSUME TypeInv PROVE EmulationSafe
    OBVIOUS
  <2>1. CASE stage = "done"
    <3>1. rbsp \in Seq(Byte) /\ output = AddEmulation(rbsp)
      BY <2>1 DEF TypeInv, TypeOK, Byte
    <3>2. Safe(output)
      BY <3>1, AddedIsSafe
    <3>3. QED
      BY <3>2 DEF Safe, EmulationSafe
  <2>2. CASE stage # "done"
    <3>1. output = << >>
      BY <2>2 DEF TypeInv, TypeOK
    <3>2. QED
      BY <3>1 DEF EmulationSafe
  <2>3. QED
    BY <2>1, <2>2
<1>2. QED
  BY <1>1, TypeCorrect, PTL

-----------------------------------------------------------------------------
(***************************************************************************)
(* What is emitted.                                                        *)
(***************************************************************************)
\* u(1) is the bit itself.
LEMMA OneBit ==
    ASSUME NEW bytes \in Seq(Byte), NEW p \in Nat, p < 8 * Len(bytes)
    PROVE  Unsigned(bytes, p, 1) = Bit(bytes, p)
<1> DEFINE b == BitsFrom(bytes, p, 1)
<1>1. b \in Seq(Digit) /\ Len(b) = 1 /\ Unsigned(bytes, p, 1) = Number(b)
  <2>1. 1 \in Nat /\ p + 1 <= 8 * Len(bytes)
    BY LenProperties
  <2>2. QED
    BY <2>1, BitsFromType
<1>2. b[1] = Bit(bytes, p)
  BY DEF BitsFrom
<1>3. Bit(bytes, p) \in Nat
  BY BitType DEF Digit
<1> HIDE DEF b
<1>4. Reading(b)[0] = 0 /\ Reading(b)[1] = 2 * Reading(b)[1 - 1] + b[1]
  <2>1. 1 \in 1 .. Len(b)
    BY <1>1
  <2>2. QED
    BY <1>1, <2>1, ReadingSteps, Zenon
<1>5. Number(b) = Reading(b)[1]
  BY <1>1 DEF Number
<1>6. QED
  BY <1>1, <1>2, <1>3, <1>4, <1>5

\* One element of the first parse: what it leaves to be read ends as before, or
\* it was the flag.
LEMMA FirstParseStep ==
    ASSUME TypeInv, ReadElement, stage = "parse", FlagPending(todo)
    PROVE  \/ /\ FlagPending(todo') /\ ~FlagField(Element)
              /\ Expands(Element.name, Decoded.value, FALSE) \in Seq(Inner)
           \/ /\ todo' = << >> /\ vuiFlagPos' = pos /\ pos' = pos + 1
              /\ Element = u(1, "vui_present") /\ Decoded.value = Bit(rbsp, pos)
<1> DEFINE x == Expands(Element.name, Decoded.value, FALSE)
           t == Tail(todo)
<1>1. Verifying = FALSE
  BY DEF Verifying
<1>2. /\ todo' = x \o t /\ x \in Seq(Elements) /\ t \in Seq(Elements)
      /\ Len(todo) = Len(t) + 1 /\ Len(t) \in Nat
      /\ \A i \in 1 .. Len(t) : t[i] = todo[i + 1]
      /\ Decoded.value \in Int /\ (Element.name = "n" => Decoded.value \in Nat)
  <2>1. t \in Seq(Elements)
    BY ReadElementTypes, Zenon
  <2>2. Len(t) \in Nat
    BY <2>1
  <2>3. QED
    BY <1>1, <2>2, ReadElementTypes, Zenon
<1>3. todo[1] = Element
  BY DEF Element, ReadElement
<1>4. CASE Len(t) = 0
  <2>1. Element = u(1, "vui_present")
    <3>1. Len(todo) = 1
      <4> HIDE DEF x, t
      <4>1. QED
        BY <1>2, <1>4
    <3>2. QED
      BY <1>3, <3>1 DEF FlagPending
  <2>2. Element.name = "vui_present" /\ Element.code = "u" /\ Element.width = 1
    BY <2>1 DEF u
  <2>3. x = << >>
    BY <2>2 DEF Expands
  <2>4. todo' = << >>
    <3>1. t = << >>
      BY <1>2, <1>4, EmptySeq
    <3>2. << >> \o << >> = << >>
      OBVIOUS
    <3>3. QED
      BY <1>2, <2>3, <3>1, <3>2, Zenon
  <2>5. /\ pos' = pos + 1 /\ Decoded.value = Unsigned(rbsp, pos, 1)
        /\ pos' \in pos .. 8 * Len(rbsp) /\ pos \in Nat
    BY <2>2, ReadElementTypes
  <2>6. rbsp \in Seq(Byte) /\ pos < 8 * Len(rbsp)
    <3>1. rbsp \in Seq(Byte) /\ Len(rbsp) \in Nat
      BY DEF TypeInv, TypeOK, Byte
    <3>2. QED
      BY <2>5, <3>1
  <2>7. Decoded.value = Bit(rbsp, pos)
    BY <2>5, <2>6, OneBit
  <2>8. vuiFlagPos' = pos
    BY <1>1, <2>2 DEF ReadElement
  <2>9. QED
    BY <2>1, <2>4, <2>5, <2>7, <2>8
<1>5. CASE Len(t) # 0
  <2>1. ~FlagField(Element)
    BY <1>2, <1>3, <1>5 DEF FlagPending
  <2>2. x \in Seq(Inner)
    BY <1>2, ExpandsInner
  <2>3. \A i \in 1 .. Len(x) : ~FlagField(x[i])
    <3>1. \A i \in 1 .. Len(x) : x[i] \in Inner
      <4> HIDE DEF x
      <4>1. QED
        BY <2>2
    <3>2. QED
      BY <3>1 DEF Inner
  <2>4. t[Len(t)] = u(1, "vui_present") /\ \A i \in 1 .. Len(t) - 1 : ~FlagField(t[i])
    <3> HIDE DEF t
    <3>1. QED
      BY <1>2, <1>5 DEF FlagPending
  <2> HIDE DEF x, t
  <2>5. /\ Len(todo') = Len(x) + Len(t) /\ Len(x) \in Nat
        /\ \A i \in 1 .. Len(x) : todo'[i] = x[i]
        /\ \A i \in 1 .. Len(t) : todo'[Len(x) + i] = t[i]
    BY <1>2
  <2>6. todo'[Len(todo')] = u(1, "vui_present")
    BY <1>2, <1>5, <2>4, <2>5
  <2>7. \A i \in 1 .. Len(todo') - 1 : ~FlagField(todo'[i])
    <3> SUFFICES ASSUME NEW i \in 1 .. Len(todo') - 1 PROVE ~FlagField(todo'[i])
      OBVIOUS
    <3>1. CASE i \in 1 .. Len(x)
      BY <2>3, <2>5, <3>1
    <3>2. CASE i \notin 1 .. Len(x)
      <4> DEFINE k == i - Len(x)
      <4>1. k \in 1 .. Len(t) - 1 /\ Len(x) + k = i
        BY <1>2, <2>5, <3>2
      <4> HIDE DEF k
      <4>2. todo'[i] = t[k]
        BY <1>2, <2>5, <4>1
      <4>3. QED
        BY <2>4, <4>1, <4>2
    <3>3. QED
      BY <3>1, <3>2
  <2>8. todo' # << >>
    BY <1>2, <1>5, <2>5
  <2>9. QED
    BY <2>1, <2>2, <2>6, <2>7, <2>8 DEF FlagPending, x
<1>6. QED
  BY <1>4, <1>5

\* Each step keeps FlagInv,
LEMMA FlagStep ==
    ASSUME TypeInv, FlagInv, [Next]_vars
    PROVE  FlagInv'
<1>1. CASE ReadElement /\ stage = "parse"
  <2>1. UNCHANGED <<stage, input, rbsp, original, output>> /\ todo # << >>
    BY <1>1 DEF ReadElement
  <2>2. /\ FlagPending(todo) /\ rbsp = Old
        /\ \A i \in 1 .. Len(fields) : ~FlagField(fields[i])
    BY <1>1, <2>1 DEF FlagInv
  <2>3. Old' = Old
    BY <2>1 DEF Old
  <2>4. /\ Len(fields') = Len(fields) + 1 /\ Len(fields) \in Nat
        /\ fields'[Len(fields) + 1] = [name |-> Element.name, value |-> Decoded.value]
        /\ \A i \in 1 .. Len(fields) : fields'[i] = fields[i]
    <3>1. Len(fields) \in Nat
      BY DEF TypeInv, TypeOK
    <3>2. QED
      BY <1>1, <3>1, ReadElementTypes, Zenon
  <2>5. CASE FlagPending(todo') /\ ~FlagField(Element)
    <3>1. \A i \in 1 .. Len(fields') : ~FlagField(fields'[i])
      <4>1. ~FlagField(fields'[Len(fields) + 1])
        BY <2>4, <2>5 DEF FlagField
      <4>2. QED
        BY <2>2, <2>4, <4>1
    <3>2. QED
      BY <1>1, <2>1, <2>2, <2>3, <2>5, <3>1 DEF FlagInv
  <2>6. CASE /\ todo' = << >> /\ vuiFlagPos' = pos /\ pos' = pos + 1
             /\ Element = u(1, "vui_present") /\ Decoded.value = Bit(rbsp, pos)
    <3>1. fields' # << >>
      BY <2>4
    <3>2. FlagRead(fields', Old, vuiFlagPos')
      BY <2>2, <2>4, <2>6, <3>1 DEF FlagRead, u
    <3>3. QED
      BY <1>1, <2>1, <2>2, <2>3, <2>6, <3>2 DEF FlagInv
  <2>7. QED
    BY <1>1, <2>2, <2>5, <2>6, FirstParseStep
<1>2. CASE ReadElement /\ stage # "parse"
  <2>1. UNCHANGED <<stage, input, rbsp, original, output, vuiFlagPos>>
    BY <1>2 DEF ReadElement, Verifying
  <2>2. QED
    BY <1>2, <2>1 DEF FlagInv, Old, New
<1>3. CASE Patch
  <2>1. /\ stage = "parse" /\ stage' = "verify" /\ todo = << >> /\ original' = fields
        /\ UNCHANGED <<input, vuiFlagPos, output>>
        /\ ValueOf(fields, "vui_present") = 0
        /\ rbsp' = Patched(rbsp, vuiFlagPos, Frames(fields))
    BY <1>3 DEF Patch, Expected, CopiedBits, Frames, Patched, Written
  <2>2. /\ rbsp = Old /\ FlagRead(fields, Old, vuiFlagPos) /\ pos = vuiFlagPos + 1
    BY <2>1 DEF FlagInv, FlagPending
  <2>3. vuiFlagPos \in Nat /\ vuiFlagPos < 8 * Len(Old)
    <3>1. pos \in 0 .. 8 * Len(rbsp) /\ vuiFlagPos \in 0 .. 8 * Len(rbsp)
      BY <2>1 DEF TypeInv, TypeOK
    <3>2. Len(rbsp) \in Nat
      BY DEF TypeInv, TypeOK
    <3>3. QED
      BY <2>2, <3>1, <3>2
  <2>4. Bit(Old, vuiFlagPos) = 0
    <3> DEFINE T == ToSet(fields)
               f == CHOOSE f \in T : f.name = "vui_present"
               n == Len(fields)
    <3>1. DOMAIN fields = 1 .. n /\ n \in Nat
      BY DEF TypeInv, TypeOK
    <3>2. fields # << >> /\ fields[n].name = "vui_present"
          /\ fields[n].value = Bit(Old, vuiFlagPos)
          /\ \A i \in 1 .. n - 1 : fields[i].name # "vui_present"
      BY <2>2 DEF FlagRead, FlagField
    <3>3. n \in 1 .. n
      <4>1. n # 0
        BY <3>2, EmptySeq DEF TypeInv, TypeOK
      <4>2. QED
        BY <3>1, <4>1
    <3>4. fields[n] \in T /\ \A g \in T : g.name = "vui_present" => g = fields[n]
      <4>1. T = {fields[i] : i \in 1 .. n}
        BY <3>1 DEF ToSet
      <4> HIDE DEF T, n
      <4>2. QED
        BY <3>1, <3>2, <3>3, <4>1
    <3> HIDE DEF T, n
    <3>5. f = fields[n]
      BY <3>2, <3>4, Zenon
    <3>6. f.value = 0
      BY <2>1, Zenon DEF ValueOf, T
    <3>7. QED
      BY <3>2, <3>5, <3>6, Zenon
  <2>5. Codable(Frames(fields))
    BY <2>1, FramesCodable DEF TypeInv
  <2>6. Old' = Old /\ New' = Patched(Old, vuiFlagPos, Frames(fields))
    BY <2>1 DEF Old, New
  <2>7. QED
    BY <2>1, <2>2, <2>3, <2>4, <2>5, <2>6 DEF FlagInv
<1>4. CASE Emit
  BY <1>4 DEF Emit, FlagInv, Old, New
<1>5. CASE Raises
  BY <1>5 DEF Raises, FlagInv
<1>6. CASE Exited \/ UNCHANGED vars
  BY <1>6 DEF Exited, vars, FlagInv, Old, New
<1>7. QED
  BY <1>1, <1>2, <1>3, <1>4, <1>5, <1>6 DEF Next

\* which holds when the tool starts.
LEMMA FlagInit ==
    ASSUME Init
    PROVE  FlagInv
<1>1. stage = "parse" /\ rbsp = Old /\ todo = Syntax /\ fields = << >>
  BY DEF Init, Old
<1>2. \A i \in 1 .. Len(<< >>) : FALSE
  OBVIOUS
<1>3. QED
  BY <1>1, <1>2, SyntaxType DEF FlagInv

\* In every state of patch_sps_vui.py the position of the flag, once it is known, is
\* that of a clear flag of the input, and what is verified was written from there.
THEOREM FlagCorrect == Spec => []FlagInv
<1>1. Init => FlagInv
  BY FlagInit
<1>2. TypeInv /\ FlagInv /\ [Next]_vars => FlagInv'
  BY FlagStep
<1>3. QED
  BY <1>1, <1>2, TypeCorrect, PTL DEF Spec

\* What the tool emits is the SPS it was given with the VUI in the place of its
\* flag, whatever the SPS and whatever the bytes emulation prevention had to treat.
THEOREM EmitsTheSameWithVui == Spec => []OnlyVuiAppended
<1>1. TypeInv /\ FlagInv => OnlyVuiAppended
  <2> SUFFICES ASSUME TypeInv, FlagInv, stage = "done" PROVE OnlyVuiAppended
    BY DEF OnlyVuiAppended
  <2>1. /\ rbsp \in Seq(Byte) /\ output = AddEmulation(rbsp)
        /\ Old \in Seq(Byte)
    <3>1. input \in Seq(Byte)
      BY InputsAssumption DEF TypeInv, TypeOK, Byte
    <3>2. QED
      BY <3>1, EmulationTypes DEF TypeInv, TypeOK, Byte, Old
  <2>2. StripEmulation(output) = rbsp
    BY <2>1, EmulationRoundTrip
  <2>3. /\ vuiFlagPos \in 0 .. 8 * Len(Old) /\ Bit(Old, vuiFlagPos) = 0
        /\ Codable(Frames(original)) /\ rbsp = New
    <3>1. Len(Old) \in Nat
      BY <2>1
    <3>2. QED
      BY <3>1 DEF FlagInv
  <2>4. Bits(rbsp, 8 * Len(rbsp)) = Trailing(Written(Old, vuiFlagPos, Frames(original)))
    BY <2>1, <2>3, PatchedType DEF PatchedFact, New
  <2>5. QED
    BY <2>2, <2>3, <2>4 DEF OnlyVuiAppended, Old, Written, Frames
<1>2. QED
  BY <1>1, TypeCorrect, FlagCorrect, PTL

-----------------------------------------------------------------------------
(***************************************************************************)
(* The reader on what was copied and on what was written.                  *)
(***************************************************************************)
\* So many zeros and a one are read as so many leading zeros.
LEMMA LeadingZerosIs ==
    ASSUME NEW bytes \in Seq(Byte), NEW p \in Nat, NEW z \in 0 .. 31,
           p + z < 8 * Len(bytes), Bit(bytes, p + z) = 1,
           \A j \in 0 .. z - 1 : Bit(bytes, p + j) # 1
    PROVE  LeadingZeros(bytes, p) = z
<1> DEFINE l == LeadingZeros(bytes, p)
           runs == {k \in 0 .. 31 : p + k < 8 * Len(bytes) /\ Bit(bytes, p + k) = 1}
<1>1. z \in runs
  OBVIOUS
<1>2. l # -1
  <2>1. l \in runs
    <3>1. runs \subseteq Nat
      <4>1. runs \subseteq 0 .. 31
        BY Zenon
      <4> HIDE DEF runs
      <4>2. QED
        BY <4>1
    <3>2. l = CHOOSE k \in runs : \A j \in runs : k <= j
      BY <1>1, Zenon DEF LeadingZeros
    <3> HIDE DEF l, runs
    <3>3. \E k \in runs : \A j \in runs : k <= j
      BY <1>1, <3>1, LeastOf
    <3>4. QED
      BY <3>2, <3>3, Zenon
  <2>2. \A k \in 0 .. 31 : k # -1
    OBVIOUS
  <2>3. QED
    BY <2>1, <2>2, Zenon
<1>3. /\ l \in 0 .. 31 /\ Bit(bytes, p + l) = 1
      /\ \A j \in 0 .. l - 1 : Bit(bytes, p + j) # 1
  BY <1>2, LeadingZerosType, Zenon
<1> HIDE DEF l, runs
<1>4. ~(l < z)
  <2>1. l < z => l \in 0 .. z - 1
    BY <1>3
  <2>2. QED
    BY <1>3, <2>1
<1>5. ~(z < l)
  <2>1. z < l => z \in 0 .. l - 1
    BY <1>3
  <2>2. QED
    BY <1>3, <2>1
<1>6. l = z
  BY <1>3, <1>4, <1>5
<1>7. QED
  BY <1>6 DEF l

\* u(n) of the same bits is the same.
LEMMA UnsignedSame ==
    ASSUME NEW a, NEW b, NEW p \in Nat, NEW n \in Nat, NEW m \in Nat, p + n <= m,
           \A q \in 0 .. m - 1 : Bit(a, q) = Bit(b, q)
    PROVE  Unsigned(a, p, n) = Unsigned(b, p, n)
<1>1. \A i \in 1 .. n : Bit(a, p + i - 1) = Bit(b, p + i - 1)
  <2> SUFFICES ASSUME NEW i \in 1 .. n PROVE Bit(a, p + i - 1) = Bit(b, p + i - 1)
    OBVIOUS
  <2>1. p + i - 1 \in 0 .. m - 1
    OBVIOUS
  <2>2. QED
    BY <2>1
<1>2. [i \in 1 .. n |-> Bit(a, p + i - 1)] = [i \in 1 .. n |-> Bit(b, p + i - 1)]
  BY <1>1
<1>3. QED
  BY <1>2, Zenon DEF Unsigned

\* The reader returns the same where it has read the same bits.
LEMMA DecodeSame ==
    ASSUME NEW a \in Seq(Byte), NEW b \in Seq(Byte), NEW p \in Nat, NEW e \in Elements,
           NEW m \in Nat, m <= 8 * Len(a), m <= 8 * Len(b),
           \A q \in 0 .. m - 1 : Bit(a, q) = Bit(b, q),
           Decode(a, p, e).end # -1, Decode(a, p, e).end <= m
    PROVE  Decode(b, p, e) = Decode(a, p, e)
<1> DEFINE d == Decode(a, p, e)
           zeros == LeadingZeros(a, p)
           w == e.width
           code == p + 2 * zeros + 1
<1>1. e.code \in {"u", "ue", "se"} /\ w \in Nat
  BY ElementFacts DEF ElementFact
<1>2. CASE e.code = "u" /\ p + w <= 8 * Len(a)
  <2>1. d = [value |-> Unsigned(a, p, w), end |-> p + w]
    BY <1>2 DEF Decode
  <2>2. p + w <= m
    BY <2>1
  <2>3. Unsigned(a, p, w) = Unsigned(b, p, w)
    <3> HIDE DEF w
    <3>1. QED
      BY <1>1, <2>2, UnsignedSame
  <2>4. p + w <= 8 * Len(b)
    <3> HIDE DEF w
    <3>1. Len(b) \in Nat
      OBVIOUS
    <3>2. QED
      BY <1>1, <2>2, <3>1
  <2>5. Decode(b, p, e) = [value |-> Unsigned(b, p, w), end |-> p + w]
    BY <1>2, <2>4 DEF Decode
  <2>6. QED
    BY <2>1, <2>3, <2>5
<1>3. CASE e.code # "u" /\ zeros >= 0 /\ code <= 8 * Len(a)
  <2> DEFINE k(x) == Unsigned(x, p + zeros, zeros + 1) - 1
  <2>1. d = [value |-> IF e.code = "ue" THEN k(a) ELSE Signed(k(a)), end |-> code]
    BY <1>3 DEF Decode
  <2>2. /\ zeros \in 0 .. 31 /\ Bit(a, p + zeros) = 1
        /\ \A j \in 0 .. zeros - 1 : Bit(a, p + j) # 1
    BY <1>3, LeadingZerosType
  <2>3. code <= m
    BY <2>1
  <2>4. Len(b) \in Nat /\ Len(a) \in Nat
    OBVIOUS
  <2>5. LeadingZeros(b, p) = zeros
    <3> HIDE DEF zeros
    <3>1. p + zeros \in 0 .. m - 1 /\ p + zeros < 8 * Len(b)
      BY <2>2, <2>3, <2>4
    <3>2. Bit(b, p + zeros) = 1
      BY <2>2, <3>1
    <3>3. \A j \in 0 .. zeros - 1 : Bit(b, p + j) # 1
      <4> SUFFICES ASSUME NEW j \in 0 .. zeros - 1 PROVE Bit(b, p + j) # 1
        OBVIOUS
      <4>1. p + j \in 0 .. m - 1
        BY <2>2, <3>1
      <4>2. QED
        BY <2>2, <4>1
    <3>4. QED
      BY <2>2, <3>1, <3>2, <3>3, LeadingZerosIs
  <2>6. k(a) = k(b)
    <3> HIDE DEF zeros
    <3>1. p + zeros \in Nat /\ zeros + 1 \in Nat /\ p + zeros + (zeros + 1) <= m
      BY <2>2, <2>3
    <3>2. Unsigned(a, p + zeros, zeros + 1) = Unsigned(b, p + zeros, zeros + 1)
      BY <3>1, UnsignedSame, ZenonT(40)
    <3>3. QED
      BY <3>2
  <2>7. code <= 8 * Len(b)
    <3> HIDE DEF zeros
    <3>1. QED
      BY <2>2, <2>3, <2>4
  <2>8. Decode(b, p, e)
           = [value |-> IF e.code = "ue" THEN k(b) ELSE Signed(k(b)), end |-> code]
    BY <1>3, <2>5, <2>7 DEF Decode
  <2>9. QED
    BY <2>1, <2>6, <2>8
<1>4. CASE /\ ~(e.code = "u" /\ p + w <= 8 * Len(a))
           /\ ~(e.code # "u" /\ zeros >= 0 /\ code <= 8 * Len(a))
  <2>1. d = [value |-> 0, end |-> -1]
    BY <1>4 DEF Decode
  <2>2. QED
    BY <2>1
<1>5. QED
  BY <1>2, <1>3, <1>4

\* The bits of 0 are zeros.
LEMMA ZeroBits ==
    ASSUME NEW n \in 0 .. 32, NEW i \in 1 .. n
    PROVE  U(0, n)[i] = 0
<1>1. 0 \in Nat /\ 0 \in 0 .. 32 /\ n - i \in 0 .. 32
  OBVIOUS
<1>2. ShiftRight(0, 0) = 0
  BY <1>1, ShiftedSteps
<1>3. ShiftRight(0, n - i) = 0
  BY <1>1, <1>2, ShiftedOut
<1>4. U(0, n)[i] = ShiftRight(0, n - i) % 2
  BY DEF U
<1>5. QED
  BY <1>3, <1>4

\* The reader returns v for the element e at p, and q is behind it.
Reads(bytes, p, e, v, q) == Decode(bytes, p, e) = [value |-> v, end |-> q]

\* An Exp-Golomb code is read as it was written,
LEMMA DecodeUE ==
    ASSUME NEW bytes \in Seq(Byte), NEW p \in Nat, NEW v, Codable(v), NEW name,
           p + Len(UE(v)) <= 8 * Len(bytes),
           \A i \in 1 .. Len(UE(v)) : Bit(bytes, p + i - 1) = UE(v)[i]
    PROVE  Reads(bytes, p, ue(name), v, p + Len(UE(v)))
<1> DEFINE n == BitLength(v + 1)
           z == n - 1
           x == U(0, n - 1)
           y == U(v + 1, n)
<1>1. /\ v \in Nat /\ v + 1 \in Nat /\ n \in 1 .. 32
      /\ ShiftRight(v + 1, n - 1) # 0 /\ ShiftRight(v + 1, n) = 0
  <2>1. v + 1 \in Nat \ {0} /\ ShiftRight(v + 1, 32) = 0
    BY DEF Codable
  <2>2. QED
    BY <2>1, BitLengthType DEF Codable
<1>2. Len(UE(v)) = 2 * n - 1 /\ UE(v) = x \o y
  BY UEType DEF UE
<1> HIDE DEF n
<1>3. /\ z \in 0 .. 31 /\ z \in 0 .. 32 /\ n \in 0 .. 32 /\ z + 1 = n
      /\ 2 * n - 1 = z + n
  BY <1>1
<1>4. /\ x \in Seq(Digit) /\ Len(x) = z /\ y \in Seq(Digit) /\ Len(y) = n
  BY <1>1, <1>3, UType
<1>5. \A i \in 1 .. z : x[i] = 0
  BY <1>3, ZeroBits
<1>6. y[1] = 1
  <2> DEFINE s == ShiftRight(v + 1, n - 1)
             k == n - 1
  <2>1. k \in 0 .. 31 /\ k + 1 = n /\ 1 \in 1 .. n
    BY <1>1
  <2> HIDE DEF k
  <2>2. ShiftRight(v + 1, k) \in Nat /\ ShiftRight(v + 1, k + 1) = ShiftRight(v + 1, k) \div 2
    <3>1. \A w \in Nat : \A j \in 0 .. 31 :
             ShiftRight(w, j) \in Nat /\ ShiftRight(w, j + 1) = ShiftRight(w, j) \div 2
      <4>1. \A j \in 0 .. 31 : j \in 0 .. 32
        OBVIOUS
      <4>2. QED
        BY <4>1, ShiftedSteps, Zenon
    <3>2. QED
      BY <1>1, <2>1, <3>1, Zenon
  <2>3. s # 0 /\ s \div 2 = 0 /\ s \in Nat
    BY <1>1, <2>1, <2>2 DEF k
  <2>4. y[1] = s % 2
    BY <2>1, Zenon DEF U
  <2> HIDE DEF s
  <2>5. s = 1
    BY <2>3
  <2>6. QED
    BY <2>4, <2>5
<1> HIDE DEF x, y, z
<1>7. /\ \A i \in 1 .. z : UE(v)[i] = x[i]
      /\ \A i \in 1 .. n : UE(v)[z + i] = y[i]
  <2>1. /\ \A i \in 1 .. Len(x) : (x \o y)[i] = x[i]
        /\ \A i \in 1 .. Len(y) : (x \o y)[Len(x) + i] = y[i]
    BY <1>4, ConcatType
  <2>2. QED
    BY <1>2, <1>4, <2>1, Zenon
<1>8. /\ \A i \in 1 .. z : Bit(bytes, p + i - 1) = 0
      /\ \A i \in 1 .. n : Bit(bytes, p + (z + i) - 1) = y[i]
  <2>1. \A i \in 1 .. z : i \in 1 .. 2 * n - 1
    BY <1>1, <1>3
  <2>2. \A i \in 1 .. n : z + i \in 1 .. 2 * n - 1
    BY <1>1, <1>3
  <2>3. QED
    BY <1>2, <1>5, <1>7, <2>1, <2>2
<1>9. LeadingZeros(bytes, p) = z
  <2>1. Bit(bytes, p + z) = 1
    <3>1. 1 \in 1 .. n /\ p + (z + 1) - 1 = p + z
      BY <1>1, <1>3
    <3>2. QED
      BY <1>6, <1>8, <3>1
  <2>2. \A j \in 0 .. z - 1 : Bit(bytes, p + j) # 1
    <3> SUFFICES ASSUME NEW j \in 0 .. z - 1 PROVE Bit(bytes, p + j) # 1
      OBVIOUS
    <3>1. j + 1 \in 1 .. z /\ p + (j + 1) - 1 = p + j
      BY <1>3
    <3>2. Bit(bytes, p + j) = 0
      BY <1>8, <3>1
    <3>3. QED
      BY <3>2
  <2>3. p + z < 8 * Len(bytes)
    <3>1. p + (2 * n - 1) <= 8 * Len(bytes) /\ Len(bytes) \in Nat
      BY <1>2
    <3>2. QED
      BY <1>1, <1>3, <3>1
  <2>4. QED
    BY <1>3, <2>1, <2>2, <2>3, LeadingZerosIs
<1>10. Unsigned(bytes, p + z, z + 1) = v + 1
  <2>1. BitsFrom(bytes, p + z, n) = y
    <3>1. \A i \in 1 .. n : Bit(bytes, p + z + i - 1) = y[i]
      <4> SUFFICES ASSUME NEW i \in 1 .. n PROVE Bit(bytes, p + z + i - 1) = y[i]
        OBVIOUS
      <4>1. p + z + i - 1 = p + (z + i) - 1
        BY <1>3
      <4>2. QED
        BY <1>8, <4>1
    <3>2. y = [i \in 1 .. n |-> y[i]]
      BY DEF y, U
    <3>3. QED
      BY <3>1, <3>2, Zenon DEF BitsFrom
  <2>2. Number(y) = v + 1
    BY <1>1, <1>3, NumberOfU DEF y
  <2>3. Unsigned(bytes, p + z, n) = Number(y)
    BY <2>1, Zenon DEF BitsFrom, Unsigned
  <2>4. QED
    BY <1>3, <2>2, <2>3
<1>11. ue(name).code = "ue"
  BY DEF ue
<1>12. p + 2 * z + 1 = p + Len(UE(v)) /\ z >= 0 /\ v + 1 - 1 = v
  BY <1>1, <1>2, <1>3
<1>13. Reads(bytes, p, ue(name), v + 1 - 1, p + 2 * z + 1)
  <2>1. p + 2 * z + 1 <= 8 * Len(bytes)
    BY <1>12
  <2>2. ue(name).code # "u"
    BY <1>11
  <2>3. Reads(bytes, p, ue(name), IF ue(name).code = "ue"
                        THEN Unsigned(bytes, p + z, z + 1) - 1
                        ELSE Signed(Unsigned(bytes, p + z, z + 1) - 1), p + 2 * z + 1)
    BY <1>9, <1>12, <2>1, <2>2 DEF Decode, Reads
  <2>4. Reads(bytes, p, ue(name), Unsigned(bytes, p + z, z + 1) - 1, p + 2 * z + 1)
    BY <1>11, <2>3
  <2> DEFINE r == Unsigned(bytes, p + z, z + 1)
  <2>5. r = v + 1
    BY <1>10
  <2> HIDE DEF r
  <2>6. r - 1 = v + 1 - 1
    BY <1>1, <2>5
  <2>7. QED
    BY <2>4, <2>6, Zenon DEF r
<1>14. QED
  BY <1>12, <1>13

-----------------------------------------------------------------------------
(***************************************************************************)
(* The VUI as the reader finds it behind n copied bits.                    *)
(***************************************************************************)
\* At q, counted from the flag, the bits are those of t.
Stands(new, n, q, t) ==
    /\ n + q + Len(t) <= 8 * Len(new)
    /\ \A i \in 1 .. Len(t) : Bit(new, n + q + i - 1) = t[i]

\* What stands in the written bits stands in the bytes, behind the copied ones.
LEMMA Placed ==
    ASSUME NEW bytes, NEW n \in Nat, NEW frames, NEW bits, NEW new, Codable(frames),
           PatchedFact(bytes, n, frames, bits, new),
           NEW q \in Nat, NEW t \in Seq(Digit), Has(VuiBits(frames), q, t)
    PROVE  Stands(new, n, q, t)
<1> DEFINE v == VuiBits(frames)
           l == Len(t)
           m == Len(v)
           b == Len(bits)
           k == Len(new)
<1>1. /\ v \in Seq(Digit) /\ m = 97 + Len(UE(frames)) /\ m \in Nat
  BY VuiBitsLayout DEF VuiLayout
<1>2. /\ b = n + m /\ k \in Nat
      /\ n + m <= b /\ \A i \in 1 .. m : bits[n + i] = v[i]
      /\ \A p \in 0 .. b - 1 : p < 8 * k /\ Bit(new, p) = bits[p + 1]
  <2>1. new \in Seq(Byte)
    BY DEF PatchedFact
  <2>2. k \in Nat
    BY <2>1
  <2>3. b = n + m
    BY <1>1, Zenon DEF PatchedFact
  <2>4. QED
    BY <2>2, <2>3 DEF PatchedFact, Has
<1>3. l \in Nat /\ q + l <= m /\ \A i \in 1 .. l : v[q + i] = t[i]
  BY DEF Has
<1> HIDE DEF v, l, m, b, k
<1>4. \A i \in 1 .. l : Bit(new, n + q + i - 1) = t[i] /\ n + q + i - 1 < 8 * k
  <2> SUFFICES ASSUME NEW i \in 1 .. l
               PROVE  Bit(new, n + q + i - 1) = t[i] /\ n + q + i - 1 < 8 * k
    OBVIOUS
  <2>1. /\ n + q + i - 1 \in 0 .. b - 1 /\ q + i \in 1 .. m
        /\ n + q + i - 1 + 1 = n + (q + i)
    BY <1>1, <1>2, <1>3, SMTT(20)
  <2>2. QED
    BY <1>2, <1>3, <2>1
<1>5. n + q + l <= 8 * k
  <2>1. m >= 97
    <3>1. Len(UE(frames)) \in Nat
      BY UEType
    <3>2. m = 97 + Len(UE(frames))
      BY <1>1
    <3>3. QED
      BY <3>1, <3>2
  <2>2. b - 1 \in 0 .. b - 1
    BY <1>1, <1>2, <2>1
  <2>3. b - 1 < 8 * k
    BY <1>2, <2>2
  <2>4. QED
    BY <1>1, <1>2, <1>3, <2>3
<1>6. QED
  BY <1>4, <1>5 DEF Stands, l, k

\* A flag is read as it is.
LEMMA DecodeFlag ==
    ASSUME NEW new \in Seq(Byte), NEW p \in Nat, p < 8 * Len(new), NEW name
    PROVE  Reads(new, p, u(1, name), Bit(new, p), p + 1)
<1>1. Unsigned(new, p, 1) = Bit(new, p)
  BY OneBit
<1>2. u(1, name).code = "u" /\ u(1, name).width = 1
  BY DEF u
<1>3. p + 1 <= 8 * Len(new)
  BY LenProperties
<1>4. Reads(new, p, u(1, name), Unsigned(new, p, 1), p + 1)
  BY <1>2, <1>3 DEF Decode, Reads
<1>5. QED
  BY <1>1, <1>4

\* Several flags are read as they are.
LEMMA DecodeFlags ==
    ASSUME NEW new \in Seq(Byte), NEW n \in Nat, NEW q \in Nat, NEW t \in Seq(Digit),
           Stands(new, n, q, t), NEW name, NEW i \in 1 .. Len(t)
    PROVE  Reads(new, n + (q + i - 1), u(1, name), t[i], n + (q + i))
<1> DEFINE l == Len(t)
           k == Len(new)
           p == n + q + i - 1
<1>1. l \in Nat /\ k \in Nat /\ n + q + l <= 8 * k /\ i \in 1 .. l /\ Bit(new, p) = t[i]
  BY DEF Stands
<1> HIDE DEF l, k
<1>2. p \in Nat /\ p < 8 * k /\ n + (q + i - 1) = p /\ p + 1 = n + (q + i)
  BY <1>1
<1> HIDE DEF p
<1>3. Reads(new, p, u(1, name), Bit(new, p), p + 1)
  BY <1>2, DecodeFlag, Zenon DEF k
<1>4. QED
  BY <1>1, <1>2, <1>3, Zenon

\* and so is a code of fixed width.
LEMMA DecodeWide ==
    ASSUME NEW new \in Seq(Byte), NEW n \in Nat, NEW q \in Nat, NEW v \in Nat,
           NEW w \in 0 .. 32, ShiftRight(v, w) = 0, Stands(new, n, q, U(v, w)),
           NEW name
    PROVE  Reads(new, n + q, u(w, name), v, n + q + w)
<1>1. Len(U(v, w)) = w /\ U(v, w) \in Seq(Digit)
  BY UType
<1>2. U(v, w) = [i \in 1 .. w |-> U(v, w)[i]]
  BY DEF U
<1>3. /\ n + q + w <= 8 * Len(new)
      /\ \A i \in 1 .. w : Bit(new, n + q + i - 1) = U(v, w)[i]
  BY <1>1, Zenon DEF Stands
<1>4. BitsFrom(new, n + q, w) = U(v, w)
  BY <1>2, <1>3, Zenon DEF BitsFrom
<1>5. Unsigned(new, n + q, w) = Number(U(v, w))
  BY <1>4, Zenon DEF BitsFrom, Unsigned
<1>6. Number(U(v, w)) = v
  BY NumberOfU
<1>7. u(w, name).code = "u" /\ u(w, name).width = w
  BY DEF u
<1>8. Reads(new, n + q, u(w, name), Unsigned(new, n + q, w), n + q + w)
  BY <1>3, <1>7 DEF Decode, Reads
<1>9. QED
  BY <1>5, <1>6, <1>8, Zenon

\* A code of the VUI is read as it was written.
LEMMA DecodeCode ==
    ASSUME NEW new \in Seq(Byte), NEW n \in Nat, NEW q \in Nat, NEW v, Codable(v),
           Stands(new, n, q, UE(v)), NEW name
    PROVE  Reads(new, n + q, ue(name), v, n + (q + Len(UE(v))))
<1>1. Len(UE(v)) \in Nat
  BY UEType
<1>2. n + q \in Nat /\ n + q + Len(UE(v)) = n + (q + Len(UE(v)))
  BY <1>1
<1>3. Reads(new, n + q, ue(name), v, n + q + Len(UE(v)))
  BY <1>2, DecodeUE, Zenon DEF Stands
<1>4. QED
  BY <1>2, <1>3, Zenon

\* Each place of the tables of the VUI.
LEMMA VuiTables ==
    ASSUME NEW frames
    PROVE  /\ VuiValues(frames)[1] = 0 /\ VuiValues(frames)[2] = 0
           /\ VuiValues(frames)[3] = 0 /\ VuiValues(frames)[4] = 0
           /\ VuiValues(frames)[5] = 1 /\ VuiValues(frames)[6] = 1
           /\ VuiValues(frames)[7] = 60 /\ VuiValues(frames)[8] = 1
           /\ VuiValues(frames)[9] = 0 /\ VuiValues(frames)[10] = 0
           /\ VuiValues(frames)[11] = 0 /\ VuiValues(frames)[12] = 1
           /\ VuiValues(frames)[13] = 1 /\ VuiValues(frames)[14] = 0
           /\ VuiValues(frames)[15] = 0 /\ VuiValues(frames)[16] = 16
           /\ VuiValues(frames)[17] = 16 /\ VuiValues(frames)[18] = 0
           /\ VuiValues(frames)[19] = frames
           /\ VuiStarts(frames)[1] = 1 /\ VuiStarts(frames)[2] = 2
           /\ VuiStarts(frames)[3] = 3 /\ VuiStarts(frames)[4] = 4
           /\ VuiStarts(frames)[5] = 5 /\ VuiStarts(frames)[6] = 6
           /\ VuiStarts(frames)[7] = 38 /\ VuiStarts(frames)[8] = 70
           /\ VuiStarts(frames)[9] = 71 /\ VuiStarts(frames)[10] = 72
           /\ VuiStarts(frames)[11] = 73 /\ VuiStarts(frames)[12] = 74
           /\ VuiStarts(frames)[13] = 75 /\ VuiStarts(frames)[14] = 76
           /\ VuiStarts(frames)[15] = 77 /\ VuiStarts(frames)[16] = 78
           /\ VuiStarts(frames)[17] = 87 /\ VuiStarts(frames)[18] = 96
           /\ VuiStarts(frames)[19] = 97
           /\ VuiStarts(frames)[20] = 97 + Len(UE(frames))
<1>1. ASSUME NEW l
      PROVE  LET s == <<1, 2, 3, 4, 5, 6, 38, 70, 71, 72, 73, 74, 75, 76, 77, 78, 87,
                        96, 97, l>>
             IN /\ s[1] = 1 /\ s[2] = 2 /\ s[3] = 3 /\ s[4] = 4 /\ s[5] = 5
                /\ s[6] = 6 /\ s[7] = 38 /\ s[8] = 70 /\ s[9] = 71 /\ s[10] = 72
                /\ s[11] = 73 /\ s[12] = 74 /\ s[13] = 75 /\ s[14] = 76 /\ s[15] = 77
                /\ s[16] = 78 /\ s[17] = 87 /\ s[18] = 96 /\ s[19] = 97
                /\ s[20] = l
  OBVIOUS
<1>2. QED
  BY <1>1 DEF VuiValues, VuiStarts

\* After an element of the VUI the reader has its value and is at the next one.
ReadsVui(new, n, frames, j) ==
    Reads(new, n + VuiStarts(frames)[j], VuiSyntax[j], VuiValues(frames)[j],
          n + VuiStarts(frames)[j + 1])

\* ReadsVui, put together.
LEMMA ReadsVuiIs ==
    ASSUME NEW new, NEW n, NEW frames, NEW j, NEW p, NEW e, NEW v, NEW q, NEW k,
           VuiStarts(frames)[j] = p, VuiSyntax[j] = e, VuiValues(frames)[j] = v,
           j + 1 = k, VuiStarts(frames)[k] = q, Reads(new, n + p, e, v, n + q)
    PROVE  ReadsVui(new, n, frames, j)
BY Zenon DEF ReadsVui

\* Every element of the VUI is read with the value it was written with.
LEMMA VuiReads ==
    ASSUME NEW bytes, NEW n \in Nat, NEW frames, NEW bits, NEW new, Codable(frames),
           PatchedFact(bytes, n, frames, bits, new)
    PROVE  /\ \A j \in 1 .. 19 : ReadsVui(new, n, frames, j)
           /\ Reads(new, n, u(1, "vui_present"), 1, n + 1)
<1> DEFINE a == VuiValues(frames)
           s == VuiStarts(frames)
<1>1. new \in Seq(Byte)
  BY DEF PatchedFact
<1>tables. /\ a[1] = 0 /\ a[2] = 0 /\ a[3] = 0 /\ a[4] = 0 /\ a[5] = 1
      /\ a[6] = 1 /\ a[7] = 60 /\ a[8] = 1 /\ a[9] = 0 /\ a[10] = 0
      /\ a[11] = 0 /\ a[12] = 1 /\ a[13] = 1 /\ a[14] = 0 /\ a[15] = 0
      /\ a[16] = 16 /\ a[17] = 16 /\ a[18] = 0 /\ a[19] = frames
      /\ s[1] = 1 /\ s[2] = 2 /\ s[3] = 3 /\ s[4] = 4 /\ s[5] = 5
      /\ s[6] = 6 /\ s[7] = 38 /\ s[8] = 70 /\ s[9] = 71 /\ s[10] = 72
      /\ s[11] = 73 /\ s[12] = 74 /\ s[13] = 75 /\ s[14] = 76 /\ s[15] = 77
      /\ s[16] = 78 /\ s[17] = 87 /\ s[18] = 96 /\ s[19] = 97
      /\ s[20] = 97 + Len(UE(frames))
  BY VuiTables
<1> HIDE DEF a, s
<1>2. VuiLayout(VuiBits(frames), frames)
  BY VuiBitsLayout
<1>3. /\ VuiHead \in Seq(Digit) /\ Len(VuiHead) = 6
      /\ VuiTail \in Seq(Digit) /\ Len(VuiTail) = 6
  BY DEF VuiHead, VuiTail, Digit
<1>4. /\ U(1, 32) \in Seq(Digit) /\ U(60, 32) \in Seq(Digit)
      /\ 32 \in 0 .. 32 /\ 1 \in Nat /\ 60 \in Nat
      /\ ShiftRight(1, 32) = 0 /\ ShiftRight(60, 32) = 0
  <2>1. 1 \in Nat /\ 60 \in Nat /\ 32 \in 0 .. 32
    OBVIOUS
  <2>2. QED
    BY <2>1, UType, SmallNumbers
<1>5. /\ UE(0) \in Seq(Digit) /\ UE(16) \in Seq(Digit) /\ UE(frames) \in Seq(Digit)
      /\ Codable(0) /\ Codable(16) /\ Len(UE(0)) = 1 /\ Len(UE(16)) = 9
  BY SmallCodes, UEType
<1>6. ASSUME NEW q \in Nat, NEW t \in Seq(Digit), Has(VuiBits(frames), q, t)
      PROVE  Stands(new, n, q, t)
  BY <1>6, Placed
<1>7. /\ 0 \in Nat /\ 6 \in Nat /\ 38 \in Nat /\ 70 \in Nat /\ 76 \in Nat
      /\ 77 \in Nat /\ 78 \in Nat /\ 87 \in Nat /\ 96 \in Nat /\ 97 \in Nat
  OBVIOUS
<1>8. /\ Stands(new, n, 0, VuiHead) /\ Stands(new, n, 6, U(1, 32))
      /\ Stands(new, n, 38, U(60, 32)) /\ Stands(new, n, 70, VuiTail)
      /\ Stands(new, n, 76, UE(0)) /\ Stands(new, n, 77, UE(0))
      /\ Stands(new, n, 78, UE(16)) /\ Stands(new, n, 87, UE(16))
      /\ Stands(new, n, 96, UE(0)) /\ Stands(new, n, 97, UE(frames))
  BY <1>2, <1>3, <1>4, <1>5, <1>6, <1>7, Zenon DEF VuiLayout
<1>9. \A name : \A p \in 0 .. 5 :
         Reads(new, n + p, u(1, name), VuiHead[p + 1], n + (p + 1))
  <2> SUFFICES ASSUME NEW name, NEW p \in 0 .. 5
               PROVE  Reads(new, n + p, u(1, name), VuiHead[p + 1], n + (p + 1))
    OBVIOUS
  <2> DEFINE i == p + 1
  <2>1. i \in 1 .. Len(VuiHead) /\ 0 \in Nat /\ 0 + i - 1 = p /\ 0 + i = i
    BY <1>3
  <2> HIDE DEF i
  <2>2. Reads(new, n + (0 + i - 1), u(1, name), VuiHead[i], n + (0 + i))
    BY <1>1, <1>3, <1>8, <2>1, DecodeFlags, Zenon
  <2>3. QED
    BY <2>1, <2>2, Zenon DEF i
<1>10. \A name : \A p \in 0 .. 5 :
         Reads(new, n + (70 + p), u(1, name), VuiTail[p + 1], n + (70 + p + 1))
  <2> SUFFICES ASSUME NEW name, NEW p \in 0 .. 5
               PROVE  Reads(new, n + (70 + p), u(1, name), VuiTail[p + 1], n + (70 + p + 1))
    OBVIOUS
  <2> DEFINE i == p + 1
             q == 70
  <2>1. /\ i \in 1 .. Len(VuiTail) /\ q \in Nat
        /\ q + i - 1 = 70 + p /\ q + i = 70 + p + 1
    BY <1>3
  <2>2. Stands(new, n, q, VuiTail)
    BY <1>8
  <2> HIDE DEF i, q
  <2>3. Reads(new, n + (q + i - 1), u(1, name), VuiTail[i], n + (q + i))
    BY <1>1, <1>3, <2>1, <2>2, DecodeFlags, Zenon
  <2>4. QED
    BY <2>1, <2>3, Zenon DEF i
<1>11. ASSUME NEW j \in 1 .. 5 PROVE ReadsVui(new, n, frames, j)
  <2>1. /\ VuiSyntax[j] = u(1, VuiSyntax[j].name)
        /\ s[j] = j /\ s[j + 1] = j + 1 /\ a[j] = VuiHead[j + 1] /\ j \in 0 .. 5
    <3>1. /\ VuiHead[2] = 0 /\ VuiHead[3] = 0 /\ VuiHead[4] = 0 /\ VuiHead[5] = 0
          /\ VuiHead[6] = 1
      BY DEF VuiHead
    <3>6. j = 1 \/ j = 2 \/ j = 3 \/ j = 4 \/ j = 5
      OBVIOUS
    <3>2. \/ j = 1 /\ j + 1 = 2
          \/ j = 2 /\ j + 1 = 3
          \/ j = 3 /\ j + 1 = 4
          \/ j = 4 /\ j + 1 = 5
          \/ j = 5 /\ j + 1 = 6
      BY <3>6
    <3>3. VuiSyntax[j] = u(1, VuiSyntax[j].name)
      BY <3>2, VuiList DEF u
    <3>4. s[j] = j /\ s[j + 1] = j + 1 /\ a[j] = VuiHead[j + 1]
      BY <1>tables, <3>1, <3>2, Zenon
    <3>5. QED
      BY <3>3, <3>4
  <2>2. Reads(new, n + j, u(1, VuiSyntax[j].name), VuiHead[j + 1], n + (j + 1))
    BY <1>9, <2>1, Zenon
  <2>3. QED
    BY <2>1, <2>2, Zenon DEF ReadsVui, a, s
<1>12. ASSUME NEW j \in 8 .. 13 PROVE ReadsVui(new, n, frames, j)
  <2> DEFINE p == j - 8
  <2>1. /\ VuiSyntax[j] = u(1, VuiSyntax[j].name)
        /\ s[j] = 70 + p /\ s[j + 1] = 70 + p + 1 /\ a[j] = VuiTail[p + 1] /\ p \in 0 .. 5
    <3>1. /\ VuiTail[1] = 1 /\ VuiTail[2] = 0 /\ VuiTail[3] = 0
          /\ VuiTail[4] = 0 /\ VuiTail[5] = 1 /\ VuiTail[6] = 1
      BY DEF VuiTail
    <3>6. j = 8 \/ j = 9 \/ j = 10 \/ j = 11 \/ j = 12 \/ j = 13
      OBVIOUS
    <3>2. \/ j = 8 /\ j + 1 = 9 /\ p + 1 = 1 /\ 70 + p = 70 /\ 70 + p + 1 = 71
          \/ j = 9 /\ j + 1 = 10 /\ p + 1 = 2 /\ 70 + p = 71 /\ 70 + p + 1 = 72
          \/ j = 10 /\ j + 1 = 11 /\ p + 1 = 3 /\ 70 + p = 72 /\ 70 + p + 1 = 73
          \/ j = 11 /\ j + 1 = 12 /\ p + 1 = 4 /\ 70 + p = 73 /\ 70 + p + 1 = 74
          \/ j = 12 /\ j + 1 = 13 /\ p + 1 = 5 /\ 70 + p = 74 /\ 70 + p + 1 = 75
          \/ j = 13 /\ j + 1 = 14 /\ p + 1 = 6 /\ 70 + p = 75 /\ 70 + p + 1 = 76
      BY <3>6
    <3>3. VuiSyntax[j] = u(1, VuiSyntax[j].name)
      BY <3>2, VuiList DEF u
    <3>4. s[j] = 70 + p /\ s[j + 1] = 70 + p + 1 /\ a[j] = VuiTail[p + 1]
      <4> HIDE DEF p
      <4>1. QED
        BY <1>tables, <3>1, <3>2, ZenonT(40)
    <3>5. QED
      BY <3>3, <3>4
  <2> HIDE DEF p
  <2>2. Reads(new, n + (70 + p), u(1, VuiSyntax[j].name), VuiTail[p + 1], n + (70 + p + 1))
    BY <1>10, <2>1, Zenon
  <2>3. QED
    BY <2>1, <2>2, Zenon DEF ReadsVui, a, s
<1>13. ReadsVui(new, n, frames, 6) /\ ReadsVui(new, n, frames, 7)
  <2>1. /\ VuiSyntax[6] = u(32, "num_units_in_tick") /\ VuiSyntax[7] = u(32, "time_scale")
        /\ s[6] = 6 /\ s[7] = 38 /\ s[8] = 70 /\ a[6] = 1 /\ a[7] = 60
    BY <1>tables, VuiList, Zenon
  <2>2. n + 6 + 32 = n + 38 /\ n + 38 + 32 = n + 70 /\ 6 + 1 = 7 /\ 7 + 1 = 8
    OBVIOUS
  <2>wide. ASSUME NEW q \in Nat, NEW v \in Nat, NEW w \in 0 .. 32, NEW name,
               ShiftRight(v, w) = 0, Stands(new, n, q, U(v, w))
        PROVE  Reads(new, n + q, u(w, name), v, n + q + w)
    BY <1>1, <2>wide, DecodeWide, Zenon
  <2>3. \A name : Reads(new, n + 6, u(32, name), 1, n + 6 + 32)
    BY <1>4, <1>7, <1>8, <2>wide, Zenon
  <2>4. \A name : Reads(new, n + 38, u(32, name), 60, n + 38 + 32)
    BY <1>4, <1>7, <1>8, <2>wide, Zenon
  <2>5. /\ Reads(new, n + 6, u(32, "num_units_in_tick"), 1, n + 38)
        /\ Reads(new, n + 38, u(32, "time_scale"), 60, n + 70)
    BY <2>2, <2>3, <2>4, Zenon
  <2>6. ReadsVui(new, n, frames, 6)
    BY <2>1, <2>2, <2>5, ReadsVuiIs, ZenonT(40) DEF a, s
  <2>7. ReadsVui(new, n, frames, 7)
    BY <2>1, <2>2, <2>5, ReadsVuiIs, ZenonT(40) DEF a, s
  <2>8. QED
    BY <2>6, <2>7
<1>14. /\ ReadsVui(new, n, frames, 14) /\ ReadsVui(new, n, frames, 15)
       /\ ReadsVui(new, n, frames, 16) /\ ReadsVui(new, n, frames, 17)
       /\ ReadsVui(new, n, frames, 18) /\ ReadsVui(new, n, frames, 19)
  <2>1. /\ VuiSyntax[14] = ue("max_bytes_per_pic_denom")
        /\ VuiSyntax[15] = ue("max_bits_per_mb_denom") /\ VuiSyntax[16] = ue("log2_max_mv_h")
        /\ VuiSyntax[17] = ue("log2_max_mv_v") /\ VuiSyntax[18] = ue("max_num_reorder_frames")
        /\ VuiSyntax[19] = ue("max_dec_frame_buffering")
    BY VuiList
  <2>2. /\ s[14] = 76 /\ s[15] = 77 /\ s[16] = 78 /\ s[17] = 87 /\ s[18] = 96 /\ s[19] = 97
        /\ s[20] = 97 + Len(UE(frames)) /\ a[14] = 0 /\ a[15] = 0 /\ a[16] = 16
        /\ a[17] = 16 /\ a[18] = 0 /\ a[19] = frames
    BY <1>tables, Zenon
  <2>3. /\ 76 + 1 = 77 /\ 77 + 1 = 78 /\ 78 + 9 = 87 /\ 87 + 9 = 96 /\ 96 + 1 = 97
        /\ 14 + 1 = 15 /\ 15 + 1 = 16 /\ 16 + 1 = 17 /\ 17 + 1 = 18 /\ 18 + 1 = 19
        /\ 19 + 1 = 20
    OBVIOUS
  <2>code. ASSUME NEW q \in Nat, NEW v, Codable(v), Stands(new, n, q, UE(v)), NEW name
        PROVE  Reads(new, n + q, ue(name), v, n + (q + Len(UE(v))))
    BY <1>1, <2>code, DecodeCode, Zenon
  <2>4. \A name : /\ Reads(new, n + 76, ue(name), 0, n + (76 + 1))
                  /\ Reads(new, n + 77, ue(name), 0, n + (77 + 1))
                  /\ Reads(new, n + 96, ue(name), 0, n + (96 + 1))
    BY <1>5, <1>7, <1>8, <2>code, ZenonT(40)
  <2>5. \A name : /\ Reads(new, n + 78, ue(name), 16, n + (78 + 9))
                  /\ Reads(new, n + 87, ue(name), 16, n + (87 + 9))
    BY <1>5, <1>7, <1>8, <2>code, Zenon
  <2>6. \A name : Reads(new, n + 97, ue(name), frames, n + (97 + Len(UE(frames))))
    BY <1>5, <1>7, <1>8, <2>code, Zenon
  <2>7. /\ Reads(new, n + 76, ue("max_bytes_per_pic_denom"), 0, n + 77)
        /\ Reads(new, n + 77, ue("max_bits_per_mb_denom"), 0, n + 78)
        /\ Reads(new, n + 78, ue("log2_max_mv_h"), 16, n + 87)
        /\ Reads(new, n + 87, ue("log2_max_mv_v"), 16, n + 96)
        /\ Reads(new, n + 96, ue("max_num_reorder_frames"), 0, n + 97)
    BY <2>3, <2>4, <2>5, Zenon
  <2>8. ReadsVui(new, n, frames, 14)
    <3>1. /\ s[14] = 76 /\ VuiSyntax[14] = ue("max_bytes_per_pic_denom")
          /\ a[14] = 0 /\ 14 + 1 = 15 /\ s[15] = 77
          /\ Reads(new, n + 76, ue("max_bytes_per_pic_denom"), 0, n + 77)
      BY <2>1, <2>2, <2>3, <2>7, Zenon
    <3>2. QED
      BY <3>1 DEF ReadsVui, a, s
  <2>9. ReadsVui(new, n, frames, 15)
    <3>1. /\ s[15] = 77 /\ VuiSyntax[15] = ue("max_bits_per_mb_denom")
          /\ a[15] = 0 /\ 15 + 1 = 16 /\ s[16] = 78
          /\ Reads(new, n + 77, ue("max_bits_per_mb_denom"), 0, n + 78)
      BY <2>1, <2>2, <2>3, <2>7, Zenon
    <3>2. QED
      BY <3>1 DEF ReadsVui, a, s
  <2>10. ReadsVui(new, n, frames, 16)
    <3>1. /\ s[16] = 78 /\ VuiSyntax[16] = ue("log2_max_mv_h")
          /\ a[16] = 16 /\ 16 + 1 = 17 /\ s[17] = 87
          /\ Reads(new, n + 78, ue("log2_max_mv_h"), 16, n + 87)
      BY <2>1, <2>2, <2>3, <2>7, Zenon
    <3>2. QED
      BY <3>1 DEF ReadsVui, a, s
  <2>11. ReadsVui(new, n, frames, 17)
    <3>1. /\ s[17] = 87 /\ VuiSyntax[17] = ue("log2_max_mv_v")
          /\ a[17] = 16 /\ 17 + 1 = 18 /\ s[18] = 96
          /\ Reads(new, n + 87, ue("log2_max_mv_v"), 16, n + 96)
      BY <2>1, <2>2, <2>3, <2>7, Zenon
    <3>2. QED
      BY <3>1 DEF ReadsVui, a, s
  <2>12. ReadsVui(new, n, frames, 18)
    <3>1. /\ s[18] = 96 /\ VuiSyntax[18] = ue("max_num_reorder_frames")
          /\ a[18] = 0 /\ 18 + 1 = 19 /\ s[19] = 97
          /\ Reads(new, n + 96, ue("max_num_reorder_frames"), 0, n + 97)
      BY <2>1, <2>2, <2>3, <2>7, Zenon
    <3>2. QED
      BY <3>1 DEF ReadsVui, a, s
  <2>13. ReadsVui(new, n, frames, 19)
    <3>1. /\ s[19] = 97 /\ VuiSyntax[19] = ue("max_dec_frame_buffering")
          /\ a[19] = frames /\ 19 + 1 = 20 /\ s[20] = 97 + Len(UE(frames))
          /\ Reads(new, n + 97, ue("max_dec_frame_buffering"), frames, n + (97 + Len(UE(frames))))
      BY <2>1, <2>2, <2>3, <2>6, Zenon
    <3>2. QED
      BY <3>1 DEF ReadsVui, a, s
  <2>14. QED
    BY <2>8, <2>9, <2>10, <2>11, <2>12, <2>13
<1>15. Reads(new, n, u(1, "vui_present"), 1, n + 1)
  <2>1. 0 \in 0 .. 5 /\ 0 + 1 = 1 /\ n + 0 = n
    OBVIOUS
  <2>2. VuiHead[1] = 1
    BY DEF VuiHead
  <2>3. Reads(new, n + 0, u(1, "vui_present"), VuiHead[0 + 1], n + (0 + 1))
    BY <1>9, <2>1, Zenon
  <2>4. QED
    BY <2>1, <2>2, <2>3, Zenon
<1>16. \A j \in 1 .. 19 : \/ j \in 1 .. 5 \/ j = 6 \/ j = 7 \/ j \in 8 .. 13
                         \/ j = 14 \/ j = 15 \/ j = 16 \/ j = 17 \/ j = 18 \/ j = 19
  OBVIOUS
<1>17. QED
  BY <1>11, <1>12, <1>13, <1>14, <1>15, <1>16, Zenon

-----------------------------------------------------------------------------
(***************************************************************************)
(* The second parse.                                                       *)
(***************************************************************************)
\* The assertions of the second parse accept these values.
LEMMA VuiAccepted ==
    ASSUME NEW frames, NEW j \in 1 .. 19
    PROVE  /\ Asserted(VuiSyntax[j].name, VuiValues(frames)[j], TRUE)
           /\ Expands(VuiSyntax[j].name, VuiValues(frames)[j], TRUE) = << >>
<1> DEFINE Name == VuiSyntax[j].name
           Other == {"profile_idc", "chroma_format_idc", "seq_scaling_matrix_present",
                     "vui_present", "pic_order_cnt_type", "n", "frame_mbs_only_flag",
                     "frame_cropping_flag"}
           Clear == {"aspect_ratio_info", "overscan_info", "video_signal_type",
                     "chroma_loc_info", "nal_hrd", "vcl_hrd", "pic_struct_present"}
           Set   == {"timing_info", "bitstream_restriction"}
<1>1. Name \notin Other
  <2>1. \A i \in 1 .. 19 : VuiSyntax[i].name \notin Other
    BY VuiList DEF u, ue
  <2>2. QED
    BY <2>1
<1>2. Expands(Name, VuiValues(frames)[j], TRUE) = << >>
  BY <1>1 DEF Expands
<1>3. Name \in Clear => VuiValues(frames)[j] = 0
  <2>1. \A i \in {1, 2, 3, 4, 9, 10, 11} : VuiValues(frames)[i] = 0
    BY VuiTables
  <2>2. \A i \in 1 .. 19 : VuiSyntax[i].name \in Clear => i \in {1, 2, 3, 4, 9, 10, 11}
    BY VuiList DEF u, ue
  <2>3. QED
    BY <2>1, <2>2
<1>4. Name \in Set => VuiValues(frames)[j] = 1
  <2>1. VuiValues(frames)[5] = 1 /\ VuiValues(frames)[12] = 1
    BY VuiTables
  <2>2. \A i \in 1 .. 19 : VuiSyntax[i].name \in Set => i \in {5, 12}
    BY VuiList DEF u, ue
  <2>3. QED
    BY <2>1, <2>2
<1>5. Asserted(Name, VuiValues(frames)[j], TRUE)
  <2> HIDE DEF Name
  <2>1. QED
    BY <1>1, <1>3, <1>4 DEF Asserted
<1>6. QED
  BY <1>2, <1>5

\* What is still to be read of the VUI, one element later.
LEMMA VuiRestSteps ==
    /\ VuiRest(0) = VuiSyntax /\ VuiRest(19) = << >>
    /\ \A j \in 0 .. 18 : /\ VuiRest(j) # << >> /\ Head(VuiRest(j)) = VuiSyntax[j + 1]
                          /\ << >> \o Tail(VuiRest(j)) = VuiRest(j + 1)
<1> DEFINE R(j) == VuiRest(j)
<1>1. ASSUME NEW j \in 0 .. 19
      PROVE  /\ R(j) \in Seq(Elements) /\ Len(R(j)) = 19 - j
             /\ \A i \in 1 .. 19 - j : R(j)[i] = VuiSyntax[j + i]
  <2> DEFINE k == 19
             m == j + 1
  <2>1. /\ m \in Int /\ k \in Int /\ \A i \in m .. k : i \in 1 .. 19
        /\ k - m + 1 = 19 - j /\ (m <= k \/ 19 - j = 0)
    OBVIOUS
  <2>2. \A i \in m .. k : VuiSyntax[i] \in Elements
    <3>1. \A i \in 1 .. 19 : VuiSyntax[i] \in Elements
      BY ElementsSplit
    <3>2. QED
      BY <2>1, <3>1, Zenon
  <2>6. R(j) = SubSeq(VuiSyntax, m, k)
    BY DEF VuiRest
  <2> HIDE DEF m, k, R
  <2>3. /\ R(j) \in Seq(Elements) /\ Len(R(j)) = IF m <= k THEN k - m + 1 ELSE 0
        /\ \A i \in 1 .. k - m + 1 : R(j)[i] = VuiSyntax[m + i - 1]
    BY <2>1, <2>2, <2>6, SubSeqProperties
  <2>4. \A i \in 1 .. 19 - j : m + i - 1 = j + i
    BY DEF m
  <2>5. QED
    BY <2>1, <2>3, <2>4
<1> HIDE DEF R
<1>2. R(0) = VuiSyntax
  <2>1. 0 \in 0 .. 19 /\ 19 - 0 = 19 /\ \A i \in 1 .. 19 : 0 + i = i
    OBVIOUS
  <2>2. /\ R(0) \in Seq(Elements) /\ Len(R(0)) = 19
        /\ \A i \in 1 .. 19 : R(0)[i] = VuiSyntax[0 + i]
    BY <1>1, <2>1
  <2>3. ASSUME NEW i \in 1 .. 19 PROVE R(0)[i] = VuiSyntax[i]
    <3>1. R(0)[i] = VuiSyntax[0 + i] /\ 0 + i = i
      BY <2>1, <2>2
    <3>2. QED
      BY <3>1, Zenon
  <2>4. QED
    BY <2>2, <2>3, VuiSyntaxType, SeqEqual
<1>3. R(19) = << >>
  <2>1. 19 \in 0 .. 19 /\ 19 - 19 = 0
    OBVIOUS
  <2>2. R(19) \in Seq(Elements) /\ Len(R(19)) = 0
    BY <1>1, <2>1, Zenon
  <2>3. QED
    BY <2>2, EmptySeq
<1>4. ASSUME NEW j \in 0 .. 18
      PROVE  R(j) # << >> /\ Head(R(j)) = VuiSyntax[j + 1] /\ << >> \o Tail(R(j)) = R(j + 1)
  <2>1. /\ j \in 0 .. 19 /\ j + 1 \in 0 .. 19 /\ 1 \in 1 .. 19 - j
        /\ 19 - (j + 1) = 19 - j - 1
    OBVIOUS
  <2>2. /\ R(j) \in Seq(Elements) /\ Len(R(j)) = 19 - j
        /\ \A i \in 1 .. 19 - j : R(j)[i] = VuiSyntax[j + i]
    BY <1>1, <2>1
  <2>3. /\ R(j + 1) \in Seq(Elements) /\ Len(R(j + 1)) = 19 - j - 1
        /\ \A i \in 1 .. 19 - j - 1 : R(j + 1)[i] = VuiSyntax[j + 1 + i]
    BY <1>1, <2>1, Zenon
  <2>4. R(j) # << >> /\ Head(R(j)) = VuiSyntax[j + 1]
    BY <2>1, <2>2
  <2>5. /\ Tail(R(j)) \in Seq(Elements) /\ Len(Tail(R(j))) = 19 - j - 1
        /\ \A i \in 1 .. 19 - j - 1 : Tail(R(j))[i] = R(j)[i + 1]
    BY <2>2, <2>4, HeadTailProperties
  <2>6. \A i \in 1 .. 19 - j - 1 : Tail(R(j))[i] = R(j + 1)[i]
    <3> SUFFICES ASSUME NEW i \in 1 .. 19 - j - 1 PROVE Tail(R(j))[i] = R(j + 1)[i]
      OBVIOUS
    <3>1. i + 1 \in 1 .. 19 - j /\ j + (i + 1) = j + 1 + i
      OBVIOUS
    <3>2. QED
      BY <2>2, <2>3, <2>5, <3>1
  <2>7. Tail(R(j)) = R(j + 1)
    BY <2>3, <2>5, <2>6, SeqEqual
  <2>8. << >> \o Tail(R(j)) = Tail(R(j))
    BY <2>5, ConcatEmptySeq
  <2>9. QED
    BY <2>4, <2>7, <2>8
<1>5. QED
  BY <1>2, <1>3, <1>4 DEF R

\* What the second parse knows of the bytes it reads.
Copy ==
    /\ rbsp \in Seq(Byte) /\ Old \in Seq(Byte) /\ vuiFlagPos \in Nat
    /\ vuiFlagPos <= 8 * Len(rbsp) /\ vuiFlagPos <= 8 * Len(Old)
    /\ \A q \in 0 .. vuiFlagPos - 1 : Bit(Old, q) = Bit(rbsp, q)
    /\ \A j \in 1 .. 19 : ReadsVui(rbsp, vuiFlagPos, Frames(original), j)
    /\ Reads(rbsp, vuiFlagPos, u(1, "vui_present"), 1, vuiFlagPos + 1)

\* The stripped input is bytes.
LEMMA OldType ==
    ASSUME TypeInv
    PROVE  Old \in Seq(Byte)
<1>1. input \in Seq(Byte)
  BY InputsAssumption DEF TypeInv, TypeOK, Byte
<1>2. QED
  BY <1>1, EmulationTypes DEF Old

\* What FlagInv says of the bytes, for the second parse.
LEMMA CopyHolds ==
    ASSUME TypeInv, FlagInv, stage = "verify"
    PROVE  Copy
<1> DEFINE n == vuiFlagPos
           fr == Frames(original)
           bits == Written(Old, n, fr)
<1>1. /\ Old \in Seq(Byte) /\ n \in Nat /\ n < 8 * Len(Old) /\ Len(Old) \in Nat
      /\ Codable(fr) /\ rbsp = Patched(Old, n, fr)
  BY OldType DEF FlagInv, New
<1>2. n \in 0 .. 8 * Len(Old)
  BY <1>1
<1>3. PatchedFact(Old, n, fr, bits, rbsp)
  BY <1>1, <1>2, PatchedType
<1> HIDE DEF bits, fr
<1>4. /\ \A j \in 1 .. 19 : ReadsVui(rbsp, n, fr, j)
      /\ Reads(rbsp, n, u(1, "vui_present"), 1, n + 1)
  BY <1>1, <1>3, VuiReads, Zenon
<1>5. /\ rbsp \in Seq(Byte) /\ bits \in Seq(Digit) /\ Len(bits) = n + (97 + Len(UE(fr)))
      /\ \A p \in 0 .. Len(bits) - 1 : p < 8 * Len(rbsp)
      /\ \A q \in 0 .. n - 1 : Bit(rbsp, q) = Bit(Old, q)
  BY <1>3 DEF PatchedFact
<1>6. n < 8 * Len(rbsp)
  <2> DEFINE b == Len(bits)
             l == Len(UE(fr))
  <2>1. l \in Nat
    BY <1>1, UEType
  <2>2. b = n + (97 + l)
    BY <1>5, Zenon
  <2>3. \A p \in 0 .. b - 1 : p < 8 * Len(rbsp)
    BY <1>5, Zenon
  <2> HIDE DEF b, l
  <2>4. n \in 0 .. b - 1
    BY <1>1, <2>1, <2>2
  <2>5. QED
    BY <2>3, <2>4, Zenon
<1>7. n <= 8 * Len(rbsp) /\ n <= 8 * Len(Old)
  <2>1. Len(rbsp) \in Nat
    BY <1>5
  <2>2. QED
    BY <1>1, <1>6, <2>1
<1>8. \A q \in 0 .. n - 1 : Bit(Old, q) = Bit(rbsp, q)
  BY <1>5, Zenon
<1>9. QED
  BY <1>1, <1>4, <1>5, <1>7, <1>8, Zenon DEF Copy, fr

\* The values for which nothing depends on which of the parses reads them.
LEMMA SameForBoth ==
    ASSUME NEW name, NEW v, name # "vui_present"
    PROVE  /\ Asserted(name, v, TRUE) = Asserted(name, v, FALSE)
           /\ Expands(name, v, TRUE) = Expands(name, v, FALSE)
<1>1. Expands(name, v, TRUE) = Expands(name, v, FALSE)
  BY Zenon DEF Expands
<1>2. Asserted(name, v, TRUE) = Asserted(name, v, FALSE)
  BY Zenon DEF Asserted
<1>3. QED
  BY <1>1, <1>2

\* fs with what was read.
With(fs, e, v) == Append(fs, [name |-> e.name, value |-> v])

\* What the second parse reads at p, with es left to be read, it accepts, and it
\* goes on in step with the first one.
Continues(tr, fs, p, es) ==
    LET e == Head(es)
        d == Decode(rbsp, p, e)
    IN /\ d.end >= 0 /\ Asserted(e.name, d.value, TRUE)
       /\ VerifyAt(tr, With(fs, e, d.value), d.end, Expands(e.name, d.value, TRUE) \o Tail(es))

\* One more field behind the others.
LEMMA WithType ==
    ASSUME NEW fs \in Seq(Entries), NEW e \in Elements, NEW v \in Int
    PROVE  /\ Len(With(fs, e, v)) = Len(fs) + 1 /\ Len(fs) \in Nat
           /\ With(fs, e, v)[Len(fs) + 1] = [name |-> e.name, value |-> v]
           /\ \A i \in 1 .. Len(fs) : With(fs, e, v)[i] = fs[i]
<1> DEFINE f == [name |-> e.name, value |-> v]
<1>1. f \in Entries
  BY DEF Entries
<1> HIDE DEF f
<1>2. QED
  BY <1>1, AppendProperties DEF With, f

\* It reads a field of the input again, before the flag.
LEMMA ReadsCopied ==
    ASSUME Copy, NEW tr, Parsed(tr), original \in Seq(Entries),
           NEW fs \in Seq(Entries), NEW p, NEW es, Copying(tr, fs, p, es),
           Len(fs) + 1 < Len(original)
    PROVE  Continues(tr, fs, p, es)
<1> DEFINE m == Len(fs)
           n == Len(original)
           e == Head(es)
           d == Decode(Old, p, e)
<1>1. /\ m \in Nat /\ n \in Nat /\ m + 1 < n
      /\ m \in 0 .. n - 1 /\ m \in 0 .. n /\ m + 1 \in 0 .. n /\ n - 1 \in 0 .. n
      /\ m + 1 \in 1 .. n - 1 /\ m + 1 <= n - 1
  <2>1. m \in Nat /\ n \in Nat /\ m + 1 < n
    OBVIOUS
  <2> HIDE DEF m, n
  <2>2. QED
    BY <2>1
<1>2. /\ p = tr[m].pos /\ es = tr[m].todo /\ \A i \in 1 .. m : fs[i] = original[i]
  BY DEF Copying
<1>3. /\ TraceStep(tr, Old, original, m)
      /\ tr[m].pos \in Nat /\ tr[m].todo \in Seq(Elements)
      /\ tr[m + 1].pos <= tr[n - 1].pos /\ tr[n - 1].pos = vuiFlagPos
      /\ original[m + 1].name # "vui_present"
  <2>1. Trace(tr, Old, original) /\ tr[n - 1].pos = vuiFlagPos
    BY Zenon DEF Parsed
  <2>2. original[m + 1].name # "vui_present"
    BY <1>1, Zenon DEF Parsed, FlagRead, FlagField
  <2>3. QED
    BY <1>1, <2>1, <2>2, Zenon DEF Trace
<1>4. /\ es # << >> /\ d.end >= 0 /\ Asserted(e.name, d.value, FALSE)
      /\ original[m + 1] = [name |-> e.name, value |-> d.value]
      /\ tr[m + 1] = [pos  |-> d.end,
                      todo |-> Expands(e.name, d.value, FALSE) \o Tail(es)]
  BY <1>2, <1>3, Zenon DEF TraceStep
<1>5. e \in Elements /\ es \in Seq(Elements) /\ p \in Nat
  <2>1. es \in Seq(Elements) /\ p \in Nat /\ es # << >>
    BY <1>2, <1>3, <1>4, Zenon
  <2>2. QED
    BY <2>1, HeadTailProperties
<1>6. d.end # -1 /\ d.end <= vuiFlagPos /\ d.value \in Int
  <2>1. tr[m + 1].pos = d.end
    BY <1>4
  <2>2. d.end <= vuiFlagPos
    BY <1>3, <2>1, Zenon
  <2>3. d.end # -1
    BY <1>4
  <2>4. d.value \in Int
    BY <1>5, <2>3, DecodeType DEF Copy
  <2>5. QED
    BY <2>2, <2>3, <2>4
<1>7. Decode(rbsp, p, e) = d
  BY <1>5, <1>6, DecodeSame, Zenon DEF Copy
<1>8. e.name # "vui_present"
  BY <1>3, <1>4
<1> DEFINE fs2 == With(fs, e, d.value)
<1>9. /\ Len(fs2) = m + 1 /\ fs2[m + 1] = original[m + 1]
      /\ \A i \in 1 .. m : fs2[i] = fs[i]
  BY <1>4, <1>5, <1>6, WithType, Zenon
<1> HIDE DEF m, n, e, d, fs2
<1>10. \A i \in 1 .. m + 1 : fs2[i] = original[i]
  <2>1. \A i \in 1 .. m + 1 : i \in 1 .. m \/ i = m + 1
    BY <1>1
  <2>2. QED
    BY <1>2, <1>9, <2>1, Zenon
<1>11. Copying(tr, fs2, d.end, Expands(e.name, d.value, FALSE) \o Tail(es))
  <2>1. Len(fs2) < Len(original)
    BY <1>1, <1>9 DEF n
  <2>2. tr[Len(fs2)].pos = d.end
    BY <1>4, <1>9
  <2>3. tr[Len(fs2)].todo = Expands(e.name, d.value, FALSE) \o Tail(es)
    <3> DEFINE x == Expands(e.name, d.value, FALSE) \o Tail(es)
    <3>1. tr[m + 1] = [pos |-> d.end, todo |-> x]
      BY <1>4
    <3> HIDE DEF x
    <3>2. tr[m + 1].todo = x
      BY <3>1
    <3>3. QED
      BY <1>9, <3>2, Zenon DEF x
  <2>4. QED
    BY <1>9, <1>10, <2>1, <2>2, <2>3, Zenon DEF Copying
<1>12. /\ Asserted(e.name, d.value, TRUE)
       /\ Expands(e.name, d.value, TRUE) = Expands(e.name, d.value, FALSE)
  BY <1>4, <1>8, SameForBoth
<1>13. VerifyAt(tr, fs2, d.end, Expands(e.name, d.value, TRUE) \o Tail(es))
  BY <1>11, <1>12, Zenon DEF VerifyAt
<1>14. QED
  BY <1>4, <1>7, <1>12, <1>13, Zenon DEF Continues, e, fs2

\* It reads the flag, now set,
LEMMA ReadsFlag ==
    ASSUME Copy, NEW tr, Parsed(tr), original \in Seq(Entries),
           NEW fs \in Seq(Entries), NEW p, NEW es, Copying(tr, fs, p, es),
           Len(fs) + 1 = Len(original)
    PROVE  Continues(tr, fs, p, es)
<1> DEFINE m == Len(fs)
           n == Len(original)
           e == Head(es)
           d == Decode(Old, p, e)
           flag == u(1, "vui_present")
<1>1. /\ m \in Nat /\ n \in Nat /\ m + 1 = n /\ n - 1 = m
      /\ m \in 0 .. n - 1 /\ m \in 0 .. n /\ n \in 0 .. n /\ n + 0 = n
  <2>1. m \in Nat /\ n \in Nat /\ m + 1 = n
    OBVIOUS
  <2> HIDE DEF m, n
  <2>2. QED
    BY <2>1
<1>2. /\ p = tr[m].pos /\ es = tr[m].todo /\ \A i \in 1 .. m : fs[i] = original[i]
  BY DEF Copying
<1>3. /\ TraceStep(tr, Old, original, m) /\ tr[m].todo \in Seq(Elements)
      /\ tr[m].pos = vuiFlagPos /\ tr[m + 1].todo = << >>
      /\ original[m + 1] = [name |-> "vui_present", value |-> Bit(Old, vuiFlagPos)]
  <2>1. /\ Trace(tr, Old, original) /\ tr[n - 1].pos = vuiFlagPos /\ tr[n].todo = << >>
        /\ original[n] = [name |-> "vui_present", value |-> Bit(Old, vuiFlagPos)]
    BY Zenon DEF Parsed, FlagRead
  <2>2. TraceStep(tr, Old, original, m) /\ tr[m].todo \in Seq(Elements)
    BY <1>1, <2>1, Zenon DEF Trace
  <2>3. QED
    BY <1>1, <2>1, <2>2
<1>4. /\ es # << >>
      /\ original[m + 1] = [name |-> e.name, value |-> d.value]
      /\ tr[m + 1].todo = Expands(e.name, d.value, FALSE) \o Tail(es)
  <2> DEFINE x == Expands(e.name, d.value, FALSE) \o Tail(es)
  <2>1. /\ es # << >> /\ original[m + 1] = [name |-> e.name, value |-> d.value]
        /\ tr[m + 1] = [pos |-> d.end, todo |-> x]
    BY <1>2, <1>3, Zenon DEF TraceStep
  <2> HIDE DEF x
  <2>2. tr[m + 1].todo = x
    BY <2>1
  <2>3. QED
    BY <2>1, <2>2, Zenon DEF x
<1>5. es \in Seq(Elements) /\ e \in Elements /\ Tail(es) \in Seq(Elements)
  <2>1. es \in Seq(Elements) /\ es # << >>
    BY <1>2, <1>3, <1>4, Zenon
  <2>2. QED
    BY <2>1, HeadTailProperties
<1>6. e = flag
  <2>1. e.name = "vui_present"
    BY <1>3, <1>4
  <2>2. QED
    BY <1>5, <2>1, ElementFacts DEF ElementFact, FlagField
<1>7. flag.name = "vui_present" /\ flag \in Elements
  <2>1. flag \in Elements
    BY <1>5, <1>6, Zenon
  <2>2. flag.name = "vui_present"
    BY DEF u
  <2>3. QED
    BY <2>1, <2>2
<1>8. Tail(es) = << >>
  <2>1. Expands("vui_present", d.value, FALSE) = << >>
    BY DEF Expands
  <2>2. << >> \o Tail(es) = << >>
    BY <1>3, <1>4, <1>6, <1>7, <2>1, Zenon
  <2>3. << >> \o Tail(es) = Tail(es)
    BY <1>5, ConcatEmptySeq
  <2>4. QED
    BY <2>2, <2>3, Zenon
<1>9. Decode(rbsp, p, e) = [value |-> 1, end |-> vuiFlagPos + 1]
  <2>1. Decode(rbsp, vuiFlagPos, flag) = [value |-> 1, end |-> vuiFlagPos + 1]
    BY Zenon DEF Copy, Reads
  <2>2. p = vuiFlagPos
    BY <1>2, <1>3, Zenon
  <2>3. QED
    BY <1>6, <2>1, <2>2
<1> DEFINE fs2 == With(fs, flag, 1)
           f == [name |-> "vui_present", value |-> 1]
<1>10. /\ Len(fs2) = m + 1 /\ fs2[m + 1] = f
       /\ \A i \in 1 .. m : fs2[i] = fs[i]
  <2>1. 1 \in Int
    OBVIOUS
  <2>2. [name |-> flag.name, value |-> 1] = f
    BY <1>7
  <2>3. /\ Len(fs2) = m + 1 /\ fs2[m + 1] = [name |-> flag.name, value |-> 1]
        /\ \A i \in 1 .. m : fs2[i] = fs[i]
    BY <1>7, <2>1, WithType
  <2>4. QED
    BY <2>2, <2>3
<1>11. InVui(fs2, vuiFlagPos + 1, VuiSyntax, 0)
  <2>1. Len(fs2) = n + 0
    BY <1>1, <1>10
  <2>2. \A i \in 1 .. n - 1 : fs2[i] = original[i]
    BY <1>1, <1>2, <1>10, Zenon
  <2>3. ~VuiName(fs2[n])
    BY <1>1, <1>10 DEF VuiName
  <2>4. VuiStarts(Frames(original))[0 + 1] = 1
    <3>1. 0 + 1 = 1
      OBVIOUS
    <3>2. QED
      BY <3>1, VuiTables
  <2>5. \A i \in 1 .. 0 : FALSE
    OBVIOUS
  <2> HIDE DEF fs2, n
  <2>6. QED
    BY <2>1, <2>2, <2>3, <2>4, <2>5, VuiRestSteps, Zenon DEF InVui, n
<1>12. VuiSyntax \o << >> = VuiSyntax /\ Expands("vui_present", 1, TRUE) = VuiSyntax
  BY VuiSyntaxType, ConcatEmptySeq DEF Expands
<1>13. Asserted("vui_present", 1, TRUE)
  BY DEF Asserted
<1>14. vuiFlagPos + 1 >= 0
  BY DEF Copy
<1>15. VerifyAt(tr, fs2, vuiFlagPos + 1, VuiSyntax)
  <2>1. 0 \in 0 .. 19
    OBVIOUS
  <2>2. QED
    BY <1>11, <2>1, Zenon DEF VerifyAt
<1>16. QED
  <2> DEFINE r == Decode(rbsp, p, e)
  <2>1. r.end = vuiFlagPos + 1 /\ r.value = 1
    BY <1>9
  <2> HIDE DEF r, flag, fs2
  <2>2. With(fs, e, r.value) = fs2
    BY <1>6, <2>1, Zenon DEF fs2
  <2>3. Expands(e.name, r.value, TRUE) \o Tail(es) = VuiSyntax
    BY <1>6, <1>7, <1>8, <1>12, <2>1, Zenon
  <2>4. Asserted(e.name, r.value, TRUE)
    BY <1>6, <1>7, <1>13, <2>1, Zenon
  <2>5. QED
    BY <1>14, <1>15, <2>1, <2>2, <2>3, <2>4, Zenon DEF Continues, r

\* and each element of the VUI.
LEMMA ReadsWritten ==
    ASSUME Copy, NEW tr, original \in Seq(Entries), original # << >>,
           Codable(Frames(original)),
           NEW fs \in Seq(Entries), NEW p, NEW es, NEW j \in 0 .. 18, InVui(fs, p, es, j)
    PROVE  Continues(tr, fs, p, es)
<1> DEFINE n == Len(original)
           k == j + 1
           fr == Frames(original)
           e == VuiSyntax[k]
           v == VuiValues(fr)[k]
           q == vuiFlagPos + VuiStarts(fr)[k + 1]
<1>1. n \in Nat \ {0} /\ k \in 1 .. 19 /\ k \in 0 .. 19 /\ n + j + 1 = n + k
  <2>1. n \in Nat \ {0}
    BY EmptySeq
  <2> HIDE DEF n
  <2>2. QED
    BY <2>1
<1>2. /\ Len(fs) = n + j /\ \A i \in 1 .. n - 1 : fs[i] = original[i]
      /\ ~VuiName(fs[n])
      /\ \A i \in 1 .. j : fs[n + i] = [name |-> VuiSyntax[i].name, value |-> VuiValues(fr)[i]]
      /\ es = VuiRest(j) /\ p = vuiFlagPos + VuiStarts(fr)[k]
  BY Zenon DEF InVui
<1>3. Head(es) = e /\ << >> \o Tail(es) = VuiRest(k) /\ e \in Elements
  <2>1. Head(es) = e /\ << >> \o Tail(es) = VuiRest(k)
    BY <1>2, VuiRestSteps, Zenon
  <2>2. \A i \in 1 .. 19 : VuiSyntax[i] \in Elements
    BY ElementsSplit
  <2>3. QED
    BY <1>1, <2>1, <2>2, Zenon
<1>4. Decode(rbsp, p, e) = [value |-> v, end |-> q]
  BY <1>1, <1>2, Zenon DEF Copy, ReadsVui, Reads
<1>5. v \in Int /\ q >= 0
  <2>1. fr \in Int /\ Len(UE(fr)) \in Nat
    BY UEType DEF Codable
  <2>2. \A i \in 1 .. 19 : VuiValues(fr)[i] \in Int
    <3>1. VuiValues(fr) \in Seq(Int) /\ Len(VuiValues(fr)) = 19
      BY <2>1 DEF VuiValues
    <3>2. QED
      BY <3>1, ElementOfSeq
  <2>3. \A i \in 1 .. 20 : VuiStarts(fr)[i] \in Nat
    <3> DEFINE l == 97 + Len(UE(fr))
    <3>1. l \in Nat
      BY <2>1
    <3>2. VuiStarts(fr) = <<1, 2, 3, 4, 5, 6, 38, 70, 71, 72, 73, 74, 75, 76, 77, 78, 87,
                            96, 97, l>>
      BY DEF VuiStarts
    <3> HIDE DEF l
    <3>3. VuiStarts(fr) \in Seq(Nat) /\ Len(VuiStarts(fr)) = 20
      BY <3>1, <3>2
    <3>4. QED
      BY <3>3, ElementOfSeq
  <2>4. k + 1 \in 1 .. 20
    BY <1>1
  <2>5. VuiStarts(fr)[k + 1] \in Nat /\ vuiFlagPos \in Nat
    BY <2>3, <2>4, Zenon DEF Copy
  <2>6. q >= 0
    BY <2>5
  <2>7. QED
    BY <1>1, <2>2, <2>6
<1> DEFINE fs2 == With(fs, e, v)
<1>6. /\ Len(fs2) = Len(fs) + 1 /\ fs2[Len(fs) + 1] = [name |-> e.name, value |-> v]
      /\ \A i \in 1 .. Len(fs) : fs2[i] = fs[i]
  BY <1>3, <1>5, WithType, Zenon
<1> HIDE DEF fs2
<1>7. /\ Len(fs2) = n + k
      /\ \A i \in 1 .. n - 1 : fs2[i] = original[i]
      /\ ~VuiName(fs2[n])
      /\ \A i \in 1 .. k : fs2[n + i] = [name |-> VuiSyntax[i].name, value |-> VuiValues(fr)[i]]
  <2>1. /\ Len(fs) = n + j /\ n + j + 1 = n + k /\ n \in 1 .. n + j
        /\ \A i \in 1 .. n - 1 : i \in 1 .. n + j
        /\ \A i \in 1 .. j : n + i \in 1 .. n + j
        /\ \A i \in 1 .. k : i \in 1 .. j \/ i = k
    <3>1. Len(fs) = n + j
      BY <1>2
    <3> HIDE DEF n
    <3>2. QED
      BY <1>1, <3>1
  <2>2. Len(fs2) = n + k /\ fs2[n + k] = [name |-> e.name, value |-> v]
    BY <1>6, <2>1, Zenon
  <2>3. \A i \in 1 .. n - 1 : fs2[i] = original[i]
    BY <1>2, <1>6, <2>1, Zenon
  <2>4. ~VuiName(fs2[n])
    BY <1>2, <1>6, <2>1, Zenon
  <2>5. ASSUME NEW i \in 1 .. k
        PROVE  fs2[n + i] = [name |-> VuiSyntax[i].name, value |-> VuiValues(fr)[i]]
    <3>1. CASE i \in 1 .. j
      <4>1. fs2[n + i] = fs[n + i]
        BY <1>6, <2>1, <3>1, Zenon
      <4>2. fs[n + i] = [name |-> VuiSyntax[i].name, value |-> VuiValues(fr)[i]]
        BY <1>2, <3>1
      <4>3. QED
        BY <4>1, <4>2, Zenon
    <3>2. CASE i = k
      BY <2>2, <3>2, Zenon
    <3>3. QED
      BY <2>1, <3>1, <3>2
  <2>6. QED
    BY <2>2, <2>3, <2>4, <2>5
<1>8. InVui(fs2, q, VuiRest(k), k)
  <2> HIDE DEF e, v
  <2>1. QED
    BY <1>7, Zenon DEF InVui
<1>9. VerifyAt(tr, fs2, q, VuiRest(k))
  <2> HIDE DEF k, q
  <2>1. QED
    BY <1>1, <1>8, Zenon DEF VerifyAt
<1>10. Asserted(e.name, v, TRUE) /\ Expands(e.name, v, TRUE) = << >>
  BY <1>1, VuiAccepted
<1>11. QED
  <2> DEFINE r == Decode(rbsp, p, e)
  <2>1. r.end = q /\ r.value = v
    BY <1>4
  <2> HIDE DEF r, e, v, q
  <2>2. With(fs, e, r.value) = fs2
    BY <2>1, Zenon DEF fs2
  <2>3. Expands(e.name, r.value, TRUE) \o Tail(es) = VuiRest(k)
    BY <1>3, <1>10, <2>1, Zenon
  <2>4. Asserted(e.name, r.value, TRUE)
    BY <1>10, <2>1, Zenon
  <2>5. QED
    BY <1>3, <1>5, <1>9, <2>1, <2>2, <2>3, <2>4, Zenon DEF Continues, r

\* Wherever the second parse is, it goes on to a place the invariant allows.
LEMMA VerifyContinues ==
    ASSUME TypeInv, FlagInv, stage = "verify", NEW tr, Parsed(tr),
           VerifyAt(tr, fields, pos, todo), todo # << >>
    PROVE  Continues(tr, fields, pos, todo)
<1>1. /\ Copy /\ original \in Seq(Entries) /\ fields \in Seq(Entries)
      /\ original # << >> /\ Codable(Frames(original))
  BY CopyHolds DEF TypeInv, TypeOK, FlagInv, Parsed, FlagRead
<1>2. CASE Copying(tr, fields, pos, todo)
  <2>1. Len(fields) < Len(original) /\ Len(fields) \in Nat /\ Len(original) \in Nat
    BY <1>1, <1>2 DEF Copying
  <2>2. Len(fields) + 1 < Len(original) \/ Len(fields) + 1 = Len(original)
    BY <2>1
  <2>3. QED
    BY <1>1, <1>2, <2>2, ReadsCopied, ReadsFlag, Zenon
<1>3. ASSUME NEW j \in 0 .. 19, InVui(fields, pos, todo, j)
      PROVE  Continues(tr, fields, pos, todo)
  <2>1. j # 19
    BY <1>3, VuiRestSteps, Zenon DEF InVui
  <2>2. j \in 0 .. 18
    BY <2>1
  <2>3. QED
    BY <1>1, <1>3, <2>2, ReadsWritten, Zenon
<1>4. QED
  BY <1>2, <1>3, Zenon DEF VerifyAt

\* A name that only one of the fields has.
LEMMA ValueIs ==
    ASSUME NEW fs \in Seq(Entries), NEW k \in 1 .. Len(fs), NEW name, fs[k].name = name,
           \A i \in 1 .. Len(fs) : fs[i].name = name => i = k
    PROVE  ValueOf(fs, name) = fs[k].value
<1> DEFINE T == ToSet(fs)
           f == CHOOSE g \in T : g.name = name
<1>1. DOMAIN fs = 1 .. Len(fs)
  OBVIOUS
<1>2. fs[k] \in T /\ \A g \in T : g.name = name => g = fs[k]
  BY <1>1, Zenon DEF ToSet
<1> HIDE DEF T
<1>3. f = fs[k]
  BY <1>2, Zenon
<1>4. QED
  BY <1>3, Zenon DEF ValueOf, T

\* Two names of the VUI that stand in one place of it only.
LEMMA VuiNames ==
    /\ VuiSyntax[7].name = "time_scale"
    /\ VuiSyntax[18].name = "max_num_reorder_frames"
    /\ \A l \in 1 .. 19 : VuiSyntax[l].name = "time_scale" => l = 7
    /\ \A l \in 1 .. 19 : VuiSyntax[l].name = "max_num_reorder_frames" => l = 18
<1>1. /\ VuiSyntax[7].name = "time_scale"
      /\ VuiSyntax[18].name = "max_num_reorder_frames"
  BY VuiList DEF u, ue
<1>2. /\ \A l \in 1 .. 6 : VuiSyntax[l].name # "time_scale"
      /\ \A l \in 1 .. 6 : VuiSyntax[l].name # "max_num_reorder_frames"
  BY VuiList DEF u, ue
<1>3. /\ VuiSyntax[7].name # "max_num_reorder_frames"
      /\ VuiSyntax[18].name # "time_scale"
  BY <1>1
<1>4. /\ \A l \in 8 .. 12 : VuiSyntax[l].name # "time_scale"
      /\ \A l \in 8 .. 12 : VuiSyntax[l].name # "max_num_reorder_frames"
  BY VuiList DEF u, ue
<1>5. /\ \A l \in 13 .. 17 : VuiSyntax[l].name # "time_scale"
      /\ \A l \in 13 .. 17 : VuiSyntax[l].name # "max_num_reorder_frames"
  BY VuiList DEF u, ue
<1>6. VuiSyntax[19].name # "time_scale" /\ VuiSyntax[19].name # "max_num_reorder_frames"
  BY VuiList DEF u, ue
<1>7. \A l \in 1 .. 19 : l \in 1 .. 6 \/ l = 7 \/ l \in 8 .. 12 \/ l \in 13 .. 17
                           \/ l = 18 \/ l = 19
  OBVIOUS
<1>8. QED
  BY <1>1, <1>2, <1>3, <1>4, <1>5, <1>6, <1>7, Zenon

\* After the second parse the tool finds what it looks for.
LEMMA SelfCheckHolds ==
    ASSUME TypeInv, FlagInv, stage = "verify", NEW tr, Parsed(tr),
           VerifyAt(tr, fields, pos, todo), todo = << >>
    PROVE  SelfCheck
<1> DEFINE n == Len(original)
           fr == Frames(original)
<1>1. /\ original \in Seq(Entries) /\ fields \in Seq(Entries) /\ original # << >>
      /\ Plain(original) /\ Trace(tr, Old, original)
  BY DEF TypeInv, TypeOK, Parsed, FlagRead
<1>2. n \in Nat \ {0} /\ Len(fields) \in Nat
  BY <1>1, EmptySeq
<1>3. ~Copying(tr, fields, pos, todo)
  <2>1. SUFFICES ASSUME Copying(tr, fields, pos, todo) PROVE FALSE
    OBVIOUS
  <2>2. Len(fields) < n
    BY <2>1 DEF Copying
  <2>3. Len(fields) \in 0 .. n - 1
    <3> HIDE DEF n
    <3>1. QED
      BY <1>2, <2>2
  <2>4. TraceStep(tr, Old, original, Len(fields))
    BY <1>1, <2>3, Zenon DEF Trace
  <2>5. tr[Len(fields)].todo # << >>
    BY <2>4, Zenon DEF TraceStep
  <2>6. QED
    BY <2>1, <2>5, Zenon DEF Copying
<1>4. PICK j \in 0 .. 19 : InVui(fields, pos, todo, j)
  BY <1>3, Zenon DEF VerifyAt
<1>5. j = 19
  <2>1. j \notin 0 .. 18
    BY <1>4, VuiRestSteps, Zenon DEF InVui
  <2>2. QED
    BY <2>1
<1>6. /\ Len(fields) = n + 19 /\ \A i \in 1 .. n - 1 : fields[i] = original[i]
      /\ ~VuiName(fields[n])
      /\ \A i \in 1 .. 19 : fields[n + i] = [name |-> VuiSyntax[i].name,
                                             value |-> VuiValues(fr)[i]]
  BY <1>4, <1>5, Zenon DEF InVui
<1>7. SubSeq(fields, 1, n - 1) = SubSeq(original, 1, n - 1)
  <2> DEFINE k == n - 1
  <2>1. /\ 1 \in Int /\ k \in Int /\ k - 1 + 1 = k /\ k \in Nat
        /\ \A i \in 1 .. k : i \in 1 .. Len(fields) /\ i \in 1 .. Len(original) /\ 1 + i - 1 = i
    <3>1. n + 19 = Len(fields) /\ n = Len(original)
      BY <1>6
    <3> HIDE DEF n
    <3>2. QED
      BY <1>2, <3>1
  <2>2. \A i \in 1 .. k : fields[i] = original[i]
    BY <1>6
  <2> HIDE DEF k
  <2>3. \A i \in 1 .. k : fields[i] \in Entries /\ original[i] \in Entries
    BY <1>1, <2>1, ElementOfSeq
  <2>4. /\ SubSeq(fields, 1, k) \in Seq(Entries)
        /\ Len(SubSeq(fields, 1, k)) = IF 1 <= k THEN k - 1 + 1 ELSE 0
        /\ \A i \in 1 .. k - 1 + 1 : SubSeq(fields, 1, k)[i] = fields[1 + i - 1]
    BY <2>1, <2>3, SubSeqProperties
  <2>5. /\ SubSeq(original, 1, k) \in Seq(Entries)
        /\ Len(SubSeq(original, 1, k)) = IF 1 <= k THEN k - 1 + 1 ELSE 0
        /\ \A i \in 1 .. k - 1 + 1 : SubSeq(original, 1, k)[i] = original[1 + i - 1]
    BY <2>1, <2>3, SubSeqProperties
  <2> DEFINE x == SubSeq(fields, 1, k)
             y == SubSeq(original, 1, k)
  <2>6. x \in Seq(Entries) /\ y \in Seq(Entries) /\ Len(x) = k /\ Len(y) = k
    BY <2>1, <2>4, <2>5
  <2>7. ASSUME NEW i \in 1 .. k PROVE x[i] = y[i]
    <3>1. x[i] = fields[1 + i - 1] /\ y[i] = original[1 + i - 1] /\ 1 + i - 1 = i
      BY <2>1, <2>4, <2>5
    <3>2. QED
      BY <2>2, <3>1, Zenon
  <2> HIDE DEF x, y
  <2>8. x = y
    BY <2>6, <2>7, SeqEqual
  <2>9. QED
    BY <2>8 DEF x, y, k
<1>8. ASSUME NEW i \in 1 .. Len(fields), VuiName(fields[i])
      PROVE  \E k \in 1 .. 19 : i = n + k /\ fields[i].name = VuiSyntax[k].name
                                          /\ fields[i].value = VuiValues(fr)[k]
  <2>1. ~(i \in 1 .. n - 1)
    <3>1. SUFFICES ASSUME i \in 1 .. n - 1 PROVE FALSE
      OBVIOUS
    <3>2. i \in 1 .. n
      <4> HIDE DEF n
      <4>1. QED
        BY <1>2, <3>1
    <3>3. VuiName(original[i])
      BY <1>6, <1>8, <3>1, Zenon
    <3>4. QED
      BY <1>1, <3>2, <3>3, Zenon DEF Plain
  <2>2. i # n
    BY <1>6, <1>8
  <2> DEFINE k == i - n
  <2>3. k \in 1 .. 19 /\ i = n + k
    <3>1. Len(fields) = n + 19
      BY <1>6
    <3> HIDE DEF n
    <3>2. QED
      BY <1>2, <2>1, <2>2, <3>1
  <2> HIDE DEF k
  <2>4. fields[i] = [name |-> VuiSyntax[k].name, value |-> VuiValues(fr)[k]]
    BY <1>6, <2>3, Zenon
  <2>5. fields[i].name = VuiSyntax[k].name /\ fields[i].value = VuiValues(fr)[k]
    BY <2>4
  <2>6. QED
    BY <2>3, <2>5, Zenon
<1>9. ASSUME NEW k \in {7, 18}
      PROVE  ValueOf(fields, VuiSyntax[k].name) = VuiValues(fr)[k]
  <2> DEFINE i == n + k
             name == VuiSyntax[k].name
  <2>1. i \in 1 .. Len(fields) /\ k \in 1 .. 19
    <3>1. Len(fields) = n + 19
      BY <1>6
    <3> HIDE DEF n
    <3>2. QED
      BY <1>2, <3>1
  <2>2. fields[i].name = name /\ fields[i].value = VuiValues(fr)[k]
    <3> HIDE DEF name, fr
    <3>1. fields[i] = [name |-> name, value |-> VuiValues(fr)[k]]
      BY <1>6, <2>1, Zenon DEF name
    <3>2. QED
      BY <3>1
  <2>3. \A l \in 1 .. 19 : VuiSyntax[l].name = name => l = k
    <3>1. /\ VuiSyntax[7].name = "time_scale"
          /\ \A l \in 1 .. 19 : VuiSyntax[l].name = "time_scale" => l = 7
      BY VuiNames, Zenon
    <3>2. /\ VuiSyntax[18].name = "max_num_reorder_frames"
          /\ \A l \in 1 .. 19 : VuiSyntax[l].name = "max_num_reorder_frames" => l = 18
      BY VuiNames, Zenon
    <3>3. CASE k = 7
      BY <3>1, <3>3, Zenon
    <3>4. CASE k = 18
      BY <3>2, <3>4, Zenon
    <3>5. QED
      BY <3>3, <3>4
  <2>4. name \in {"time_scale", "max_num_reorder_frames"}
    BY VuiList DEF u, ue
  <2>5. ASSUME NEW l \in 1 .. Len(fields), fields[l].name = name PROVE l = i
    <3>1. VuiName(fields[l])
      BY <2>4, <2>5, Zenon DEF VuiName
    <3>2. PICK h \in 1 .. 19 : l = n + h /\ fields[l].name = VuiSyntax[h].name
      BY <1>8, <3>1, Zenon
    <3>3. h = k
      BY <2>3, <2>5, <3>2, Zenon
    <3>4. QED
      BY <3>2, <3>3, Zenon
  <2> HIDE DEF i, name
  <2>6. ValueOf(fields, name) = fields[i].value
    BY <1>1, <2>1, <2>2, <2>5, ValueIs
  <2>7. QED
    BY <2>2, <2>6, Zenon DEF name
<1>10. /\ ValueOf(fields, "max_num_reorder_frames") = 0
       /\ ValueOf(fields, "time_scale") = 60
  <2>1. VuiSyntax[7].name = "time_scale" /\ VuiSyntax[18].name = "max_num_reorder_frames"
    BY VuiList DEF u, ue
  <2>2. VuiValues(fr)[7] = 60 /\ VuiValues(fr)[18] = 0
    BY VuiTables
  <2>3. 7 \in {7, 18} /\ 18 \in {7, 18}
    OBVIOUS
  <2>4. ValueOf(fields, VuiSyntax[7].name) = VuiValues(fr)[7]
    BY <1>9, <2>3, Zenon
  <2>5. ValueOf(fields, VuiSyntax[18].name) = VuiValues(fr)[18]
    BY <1>9, <2>3, Zenon
  <2>6. QED
    BY <2>1, <2>2, <2>4, <2>5
<1>11. QED
  BY <1>7, <1>10 DEF SelfCheck

\* CheckInv holds when the tool starts.
LEMMA CheckInit ==
    ASSUME Init
    PROVE  CheckInv
<1> DEFINE tr == [i \in 0 .. 0 |-> [pos |-> 0, todo |-> Syntax]]
<1>1. stage = "parse" /\ fields = << >> /\ pos = 0 /\ todo = Syntax
  BY DEF Init
<1>2. tr[0] = [pos |-> 0, todo |-> Syntax]
  BY DEF tr
<1> HIDE DEF tr
<1>3. Trace(tr, Old, << >>)
  <2>1. Len(<< >>) = 0 /\ (\A i \in 0 .. 0 - 1 : FALSE) /\ (\A i \in 0 .. 0 : i = 0) /\ 0 <= 0
    OBVIOUS
  <2>2. tr[0].pos \in Nat /\ tr[0].todo \in Seq(Elements) /\ tr[0].pos <= tr[0].pos
    BY <1>2, SyntaxType
  <2>3. QED
    BY <1>2, <2>1, <2>2, Zenon DEF Trace
<1>4. Plain(<< >>)
  <2>1. \A i \in 1 .. Len(<< >>) : FALSE
    OBVIOUS
  <2>2. QED
    BY <2>1 DEF Plain
<1>5. Len(fields) = 0
  BY <1>1
<1>6. tr[Len(fields)] = [pos |-> pos, todo |-> todo]
  BY <1>1, <1>2, <1>5
<1>7. \E x : Trace(x, Old, fields) /\ x[Len(fields)] = [pos |-> pos, todo |-> todo]
  BY <1>1, <1>3, <1>6
<1>8. stage # "verify"
  BY <1>1
<1>9. QED
  BY <1>1, <1>4, <1>7, <1>8, SyntaxType, Zenon DEF CheckInv

\* The trace tr is at p after n fields, with es to be read.
Stops(tr, n, p, es) == tr[n] = [pos |-> p, todo |-> es]
Holds(fs, i, e, d)  == fs[i] = [name |-> e.name, value |-> d.value]

\* One more field is read, which takes the reader from p to p2.
ReadOn(bytes, fs, fs2, p, es, p2, es2) ==
    LET n == Len(fs)
        e == Head(es)
        d == Decode(bytes, p, e)
    IN /\ Len(fs2) = n + 1 /\ \A i \in 1 .. n : fs2[i] = fs[i]
       /\ es # << >> /\ p \in Nat /\ p2 \in Nat /\ p <= p2 /\ es2 \in Seq(Elements)
       /\ d.end = p2 /\ Asserted(e.name, d.value, FALSE) /\ Holds(fs2, n + 1, e, d)
       /\ es2 = Expands(e.name, d.value, FALSE) \o Tail(es)

\* A trace of fs that leads to p.
Traced(bytes, fs, p, es) == \E tr : Trace(tr, bytes, fs) /\ Stops(tr, Len(fs), p, es)

\* The trace grows with every field.
LEMMA TraceMore ==
    ASSUME NEW bytes, NEW fs, NEW fs2, NEW p, NEW es, NEW p2, NEW es2, Len(fs) \in Nat,
           Traced(bytes, fs, p, es), ReadOn(bytes, fs, fs2, p, es, p2, es2)
    PROVE  Traced(bytes, fs2, p2, es2)
<1> DEFINE n == Len(fs)
           e == Head(es)
           d == Decode(bytes, p, e)
<1>given. /\ n \in Nat /\ Len(fs2) = n + 1 /\ \A i \in 1 .. n : fs2[i] = fs[i]
      /\ es # << >> /\ p \in Nat /\ p2 \in Nat /\ p <= p2 /\ es2 \in Seq(Elements)
      /\ d.end = p2 /\ Asserted(e.name, d.value, FALSE) /\ Holds(fs2, n + 1, e, d)
      /\ es2 = Expands(e.name, d.value, FALSE) \o Tail(es)
  BY DEF ReadOn
<1>trace. PICK tr : Trace(tr, bytes, fs) /\ Stops(tr, n, p, es)
  BY DEF Traced
<1>names. Len(fs) = n /\ e = Head(es) /\ d = Decode(bytes, p, e)
  OBVIOUS
<1> HIDE DEF n, e, d
<1> DEFINE last == [pos |-> p2, todo |-> es2]
           t == [i \in 0 .. n + 1 |-> IF i = n + 1 THEN last ELSE tr[i]]
<1>1. t[n + 1] = last /\ \A i \in 0 .. n : t[i] = tr[i]
  <2>1. n + 1 \in 0 .. n + 1 /\ \A i \in 0 .. n : i \in 0 .. n + 1 /\ i # n + 1
    BY <1>given
  <2> HIDE DEF last
  <2>2. QED
    BY <2>1, Zenon
<1> HIDE DEF t
<1>2. last.pos = p2 /\ last.todo = es2
  OBVIOUS
<1>3. /\ tr[0] = [pos |-> 0, todo |-> Syntax]
      /\ \A i \in 0 .. n - 1 : TraceStep(tr, bytes, fs, i)
      /\ \A i \in 0 .. n : tr[i].pos \in Nat /\ tr[i].todo \in Seq(Elements)
      /\ \A i, j \in 0 .. n : i <= j => tr[i].pos <= tr[j].pos
  BY <1>trace, <1>names, Zenon DEF Trace
<1>4. tr[n].pos = p /\ tr[n].todo = es
  BY <1>trace DEF Stops
<1>5. t[0] = [pos |-> 0, todo |-> Syntax]
  BY <1>1, <1>3, <1>given
<1>6. ASSUME NEW i \in 0 .. n PROVE TraceStep(t, bytes, fs2, i)
  <2>1. CASE i \in 0 .. n - 1
    <3>1. TraceStep(tr, bytes, fs, i)
      BY <1>3, <2>1
    <3>2. i + 1 \in 0 .. n /\ i + 1 \in 1 .. n
      BY <1>given, <2>1
    <3>3. t[i] = tr[i] /\ t[i + 1] = tr[i + 1] /\ fs2[i + 1] = fs[i + 1]
      BY <1>1, <1>given, <2>1, <3>2
    <3>4. QED
      BY <3>1, <3>3, Zenon DEF TraceStep
  <2>2. CASE i = n
    <3> DEFINE x == Expands(e.name, d.value, FALSE) \o Tail(es)
    <3>1. /\ d.end = p2 /\ Asserted(e.name, d.value, FALSE)
          /\ fs2[n + 1] = [name |-> e.name, value |-> d.value] /\ es2 = x
          /\ e = Head(es) /\ d = Decode(bytes, p, e)
      BY <1>given, <1>names DEF Holds
    <3>2. t[n].pos = p /\ t[n].todo = es
      BY <1>1, <1>4, <1>given
    <3>3. d.end >= 0
      BY <1>given, <3>1
    <3>4. t[n + 1] = [pos |-> d.end, todo |-> x]
      BY <1>1, <3>1
    <3>5. es2 = Expands(e.name, d.value, FALSE) \o Tail(es)
      BY <3>1
    <3> HIDE DEF x
    <3>6. d = Decode(bytes, t[n].pos, Head(t[n].todo)) /\ e = Head(t[n].todo)
      BY <3>1, <3>2, Zenon
    <3>7. t[n].todo # << >>
      BY <1>given, <3>2
    <3>8. TraceStep(t, bytes, fs2, n)
      BY <3>1, <3>2, <3>3, <3>4, <3>5, <3>6, <3>7, Zenon DEF TraceStep, x
    <3>9. QED
      BY <2>2, <3>8, Zenon
  <2>3. QED
    BY <1>given, <2>1, <2>2
<1>7. ASSUME NEW i \in 0 .. n + 1 PROVE t[i].pos \in Nat /\ t[i].todo \in Seq(Elements)
  <2>1. i \in 0 .. n \/ i = n + 1
    BY <1>given
  <2>2. QED
    BY <1>1, <1>2, <1>3, <1>given, <2>1
<1>8. ASSUME NEW i \in 0 .. n + 1, NEW j \in 0 .. n + 1, i <= j PROVE t[i].pos <= t[j].pos
  <2>1. CASE j \in 0 .. n
    <3>1. i \in 0 .. n
      BY <1>8, <1>given, <2>1
    <3>2. QED
      BY <1>1, <1>3, <1>8, <2>1, <3>1, Zenon
  <2>2. CASE j = n + 1
    <3>1. t[j].pos = p2
      BY <1>1, <1>2, <2>2, Zenon
    <3>2. CASE i \in 0 .. n
      <4>1. n \in 0 .. n /\ i <= n
        BY <1>given, <3>2
      <4>2. tr[i].pos <= p /\ tr[i].pos \in Nat
        BY <1>3, <1>4, <3>2, <4>1, Zenon
      <4>3. t[i].pos <= p /\ t[i].pos \in Nat
        BY <1>1, <3>2, <4>2, Zenon
      <4>4. t[i].pos <= p2
        BY <1>given, <4>3
      <4>5. QED
        BY <3>1, <4>4, Zenon
    <3>3. CASE i = n + 1
      BY <1>given, <2>2, <3>1, <3>3
    <3>4. QED
      BY <1>given, <3>2, <3>3
  <2>3. QED
    BY <1>given, <2>1, <2>2
<1>9. Trace(t, bytes, fs2)
  <2>1. Len(fs2) - 1 = n /\ Len(fs2) = n + 1
    BY <1>given
  <2>2. QED
    BY <1>5, <1>6, <1>7, <1>8, <2>1, Zenon DEF Trace
<1>10. Stops(t, n + 1, p2, es2)
  BY <1>1 DEF Stops
<1>11. QED
  BY <1>9, <1>10, <1>given DEF Traced

\* One element of the first parse.
LEMMA CheckFirst ==
    ASSUME TypeInv, FlagInv, CheckInv, ReadElement, stage = "parse"
    PROVE  CheckInv'
<1> DEFINE e == Element
           d == Decode(Old, pos, e)
           n == Len(fields)
           x == Expands(e.name, d.value, FALSE)
           t == Tail(todo)
<1>1. /\ UNCHANGED <<stage, input, rbsp, original, output>> /\ todo # << >>
      /\ Verifying = FALSE /\ Accepted(Decoded) /\ Element = Head(todo)
  BY DEF ReadElement, Verifying, Element
<1>2. FlagPending(todo) /\ rbsp = Old /\ Old' = Old
  BY <1>1 DEF FlagInv, Old
<1>3. /\ n \in Nat /\ Len(fields') = n + 1 /\ \A i \in 1 .. n : fields'[i] = fields[i]
      /\ fields'[n + 1] = [name |-> e.name, value |-> d.value]
      /\ pos \in Nat /\ pos' = d.end /\ pos' \in Nat /\ pos <= pos'
      /\ todo' = x \o t /\ todo' \in Seq(Elements)
      /\ t \in Seq(Elements) /\ Len(todo) = Len(t) + 1
      /\ \A i \in 1 .. Len(t) : t[i] = todo[i + 1]
  <2>1. n \in Nat /\ Decoded = d /\ Len(rbsp) \in Nat
    BY <1>2 DEF TypeInv, TypeOK, Decoded
  <2>2. pos' \in pos .. 8 * Len(rbsp) /\ pos \in Nat
    BY ReadElementTypes, Zenon
  <2>3. pos' \in Nat /\ pos <= pos'
    BY <2>1, <2>2
  <2>4. QED
    BY <1>1, <2>1, <2>2, <2>3, ReadElementTypes, Zenon
<1>4. d.end = pos' /\ Asserted(e.name, d.value, FALSE)
  <2>1. Decoded = d
    BY <1>2 DEF Decoded
  <2>2. QED
    BY <1>1, <1>3, <2>1, Zenon DEF Accepted
<1>5. Traced(Old, fields, pos, todo)
  BY Zenon DEF CheckInv, Traced, Stops
<1>6. Traced(Old, fields', pos', todo')
  <2> HIDE DEF e, d
  <2>1. Holds(fields', Len(fields) + 1, e, d)
    BY <1>3 DEF Holds
  <2>2. ReadOn(Old, fields, fields', pos, todo, pos', todo')
    BY <1>1, <1>3, <1>4, <2>1, Zenon DEF ReadOn, e, d
  <2>3. Len(fields) \in Nat
    BY <1>3
  <2>4. QED
    BY <1>5, <2>2, <2>3, TraceMore, Zenon
<1>7. Plain(todo) /\ Plain(fields)
  BY DEF CheckInv
<1>8. ~VuiName(e)
  <2>1. e = todo[1] /\ 1 \in 1 .. Len(todo)
    <3>1. Len(t) \in Nat
      BY <1>3
    <3> HIDE DEF t
    <3>2. 1 \in 1 .. Len(todo)
      BY <1>3, <3>1
    <3>3. QED
      BY <1>1, <3>2
  <2>2. QED
    BY <1>7, <2>1, Zenon DEF Plain
<1>9. Plain(fields')
  <2>1. ~VuiName(fields'[n + 1])
    BY <1>3, <1>8 DEF VuiName
  <2>2. \A i \in 1 .. n + 1 : i \in 1 .. n \/ i = n + 1
    BY <1>3
  <2>3. ASSUME NEW i \in 1 .. n PROVE ~VuiName(fields'[i])
    BY <1>3, <1>7, Zenon DEF Plain
  <2>4. QED
    BY <1>3, <2>1, <2>2, <2>3, Zenon DEF Plain
<1>10. Plain(todo')
  <2>1. CASE x \in Seq(Inner)
    <3>1. \A i \in 1 .. Len(x) : ~VuiName(x[i])
      <4> HIDE DEF x
      <4>1. \A i \in 1 .. Len(x) : x[i] \in Inner
        BY <2>1
      <4>2. QED
        BY <4>1 DEF Inner
    <3>2. \A i \in 1 .. Len(t) : ~VuiName(t[i])
      <4> HIDE DEF t
      <4>1. \A i \in 1 .. Len(t) : i + 1 \in 1 .. Len(todo)
        BY <1>3
      <4>2. QED
        BY <1>3, <1>7, <4>1, Zenon DEF Plain
    <3>3. x \in Seq(Elements)
      <4>1. Inner \subseteq Elements
        BY DEF Inner
      <4> HIDE DEF x
      <4>2. QED
        BY <2>1, <4>1
    <3> HIDE DEF x, t
    <3>4. ASSUME NEW i \in 1 .. Len(todo') PROVE ~VuiName(todo'[i])
      <4>1. CASE i \in 1 .. Len(x)
        <5>1. todo'[i] = x[i]
          BY <1>3, <3>3, <4>1
        <5>2. QED
          BY <3>1, <4>1, <5>1, Zenon
      <4>2. CASE i \notin 1 .. Len(x)
        <5> DEFINE k == i - Len(x)
        <5>1. k \in 1 .. Len(t) /\ todo'[i] = t[k]
          BY <1>3, <3>3, <4>2
        <5> HIDE DEF k
        <5>2. QED
          BY <3>2, <5>1, Zenon
      <4>3. QED
        BY <4>1, <4>2
    <3>5. QED
      BY <3>4, Zenon DEF Plain
  <2>2. CASE todo' = << >>
    <3>1. \A i \in 1 .. Len(<< >>) : FALSE
      OBVIOUS
    <3>2. QED
      BY <2>2, <3>1 DEF Plain
  <2>3. Decoded = d
    BY <1>2 DEF Decoded
  <2>4. QED
    BY <1>2, <2>1, <2>2, <2>3, FirstParseStep, Zenon
<1>11. \E y : Trace(y, Old', fields') /\ y[Len(fields')] = [pos |-> pos', todo |-> todo']
  BY <1>2, <1>6, Zenon DEF Traced, Stops
<1>12. stage' # "verify"
  BY <1>1
<1>13. QED
  BY <1>9, <1>10, <1>11, <1>12, Zenon DEF CheckInv

\* From the first parse to the second.
LEMMA CheckPatch ==
    ASSUME TypeInv, FlagInv, CheckInv, Patch
    PROVE  CheckInv'
<1> DEFINE n == Len(fields)
<1>1. /\ stage = "parse" /\ stage' = "verify" /\ todo = << >> /\ original' = fields
      /\ pos' = 0 /\ todo' = Syntax /\ fields' = << >>
      /\ UNCHANGED <<input, vuiFlagPos, output>>
  BY DEF Patch
<1>2. /\ rbsp = Old /\ FlagRead(fields, Old, vuiFlagPos) /\ pos = vuiFlagPos + 1
      /\ Plain(fields) /\ fields \in Seq(Entries)
      /\ vuiFlagPos \in Nat /\ Old \in Seq(Byte)
  BY <1>1, OldType DEF FlagInv, FlagPending, CheckInv, TypeInv, TypeOK
<1>3. n \in Nat \ {0} /\ n - 1 \in 0 .. n - 1 /\ n - 1 \in 0 .. n /\ 0 < n /\ n - 1 + 1 = n
  <2>1. n \in Nat \ {0}
    BY <1>2, EmptySeq DEF FlagRead
  <2> HIDE DEF n
  <2>2. QED
    BY <2>1
<1>4. PICK tr : Trace(tr, Old, fields) /\ tr[n] = [pos |-> pos, todo |-> todo]
  BY <1>1, Zenon DEF CheckInv
<1>5. tr[n - 1].pos = vuiFlagPos
  <2> DEFINE p == tr[n - 1].pos
             es == tr[n - 1].todo
             e == Head(es)
             d == Decode(Old, p, e)
             x == Expands(e.name, d.value, FALSE) \o Tail(es)
  <2>1. TraceStep(tr, Old, fields, n - 1) /\ p \in Nat /\ es \in Seq(Elements)
    BY <1>3, <1>4, Zenon DEF Trace
  <2>2. /\ es # << >> /\ d.end >= 0
        /\ fields[n - 1 + 1] = [name |-> e.name, value |-> d.value]
        /\ tr[n - 1 + 1] = [pos |-> d.end, todo |-> x]
    BY <2>1, Zenon DEF TraceStep
  <2>3. fields[n] = [name |-> "vui_present", value |-> Bit(Old, vuiFlagPos)]
    BY <1>2, Zenon DEF FlagRead
  <2>4. e \in Elements
    BY <2>1, <2>2, HeadTailProperties
  <2> HIDE DEF e, x, d, p
  <2>5. e.name = "vui_present"
    BY <1>3, <2>2, <2>3
  <2>6. e.code = "u" /\ e.width = 1
    <3>1. e = u(1, "vui_present")
      BY <2>4, <2>5, ElementFacts DEF ElementFact, FlagField
    <3>2. QED
      BY <3>1 DEF u
  <2>7. d.end = p + e.width
    <3>1. d.end # -1
      BY <2>2
    <3>2. QED
      BY <1>2, <2>1, <2>4, <2>6, <3>1, DecodeType DEF d
  <2>8. d.end = pos
    <3>1. [pos |-> d.end, todo |-> x] = [pos |-> pos, todo |-> todo]
      BY <1>3, <1>4, <2>2, Zenon
    <3>2. QED
      BY <3>1
  <2>9. p \in Nat
    BY <2>1
  <2>10. p = vuiFlagPos
    BY <1>2, <2>6, <2>7, <2>8, <2>9
  <2>11. QED
    BY <2>10 DEF p
<1>6. tr[n].todo = << >> /\ Old' = Old
  BY <1>1, <1>4 DEF Old
<1>7. Parsed(tr)'
  <2>1. /\ Plain(fields) /\ FlagRead(fields, Old, vuiFlagPos) /\ Trace(tr, Old, fields)
        /\ tr[Len(fields) - 1].pos = vuiFlagPos /\ tr[Len(fields)].todo = << >>
    BY <1>2, <1>4, <1>5, <1>6, Zenon
  <2>2. original' = fields /\ Old' = Old /\ vuiFlagPos' = vuiFlagPos
    BY <1>1, <1>6
  <2>3. QED
    BY <2>1, <2>2, Zenon DEF Parsed
<1>8. Copying(tr, fields, pos, todo)'
  <2>1. tr[0] = [pos |-> 0, todo |-> Syntax]
    BY <1>4, Zenon DEF Trace
  <2>2. tr[0].pos = 0 /\ tr[0].todo = Syntax
    BY <2>1
  <2>3. Len(<< >>) = 0 /\ \A i \in 1 .. 0 : FALSE
    OBVIOUS
  <2>4. /\ Len(<< >>) < Len(fields) /\ \A i \in 1 .. Len(<< >>) : <<>>[i] = fields[i]
        /\ 0 = tr[Len(<< >>)].pos /\ Syntax = tr[Len(<< >>)].todo
    BY <1>3, <2>2, <2>3, Zenon
  <2>5. /\ Len(fields') < Len(original')
        /\ \A i \in 1 .. Len(fields') : fields'[i] = original'[i]
        /\ pos' = tr[Len(fields')].pos /\ todo' = tr[Len(fields')].todo
    BY <1>1, <2>4
  <2>6. QED
    BY <2>5, Zenon DEF Copying
<1>9. (\E y : Parsed(y) /\ VerifyAt(y, fields, pos, todo))'
  BY <1>7, <1>8, Zenon DEF VerifyAt
<1>10. stage' # "parse"
  BY <1>1
<1>11. QED
  BY <1>9, <1>10, Zenon DEF CheckInv

\* One element of the second parse.
LEMMA CheckSecond ==
    ASSUME TypeInv, FlagInv, CheckInv, ReadElement, stage = "verify"
    PROVE  CheckInv'
<1>1. /\ UNCHANGED <<stage, input, rbsp, original, output, vuiFlagPos>> /\ todo # << >>
      /\ Verifying = TRUE /\ Element = Head(todo) /\ Decoded = Decode(rbsp, pos, Head(todo))
      /\ pos' = Decoded.end
      /\ fields' = With(fields, Head(todo), Decoded.value)
      /\ todo' = Expands(Head(todo).name, Decoded.value, TRUE) \o Tail(todo)
  BY DEF ReadElement, Verifying, Element, Decoded, With
<1>2. PICK tr : Parsed(tr) /\ VerifyAt(tr, fields, pos, todo)
  BY Zenon DEF CheckInv
<1>3. Continues(tr, fields, pos, todo)
  BY <1>1, <1>2, VerifyContinues, Zenon
<1>4. VerifyAt(tr, fields', pos', todo')
  BY <1>1, <1>3, Zenon DEF Continues
<1>5. Old' = Old
  BY <1>1 DEF Old
<1>6. VerifyAt(tr, fields, pos, todo)'
  BY <1>1, <1>4, Zenon DEF VerifyAt, Copying, InVui
<1>7. Parsed(tr)'
  BY <1>1, <1>2, <1>5, Zenon DEF Parsed
<1>8. stage' # "parse"
  BY <1>1
<1>9. QED
  BY <1>6, <1>7, <1>8, Zenon DEF CheckInv

\* Each step keeps CheckInv.
LEMMA CheckStep ==
    ASSUME TypeInv, FlagInv, CheckInv, [Next]_vars
    PROVE  CheckInv'
<1>1. CASE ReadElement
  <2>1. stage = "parse" \/ stage = "verify"
    BY <1>1 DEF ReadElement
  <2>2. QED
    BY <1>1, <2>1, CheckFirst, CheckSecond
<1>2. CASE Patch
  BY <1>2, CheckPatch
<1>3. CASE Emit \/ Raises
  <2>1. stage' # "parse" /\ stage' # "verify"
    BY <1>3 DEF Emit, Raises
  <2>2. QED
    BY <2>1 DEF CheckInv
<1>4. CASE Exited \/ UNCHANGED vars
  <2>1. UNCHANGED <<stage, input, pos, todo, fields, vuiFlagPos, original>>
    BY <1>4 DEF Exited, vars
  <2>2. Old' = Old
    BY <2>1 DEF Old
  <2>3. CASE stage = "parse"
    BY <2>1, <2>2, <2>3, Zenon DEF CheckInv
  <2>4. CASE stage = "verify"
    <3>1. PICK tr : Parsed(tr) /\ VerifyAt(tr, fields, pos, todo)
      BY <2>4, Zenon DEF CheckInv
    <3>2. Parsed(tr)'
      BY <2>1, <2>2, <3>1, Zenon DEF Parsed
    <3>3. VerifyAt(tr, fields, pos, todo)'
      BY <2>1, <3>1, Zenon DEF VerifyAt, Copying, InVui
    <3>4. stage' # "parse"
      BY <2>1, <2>4
    <3>5. QED
      BY <3>2, <3>3, <3>4, Zenon DEF CheckInv
  <2>5. CASE stage # "parse" /\ stage # "verify"
    BY <2>1, <2>5 DEF CheckInv
  <2>6. QED
    BY <2>3, <2>4, <2>5
<1>5. QED
  BY <1>1, <1>2, <1>3, <1>4 DEF Next

\* In every state of patch_sps_vui.py the second parse is where the first one was
\* with as many fields, or behind the flag in the VUI.
THEOREM CheckCorrect == Spec => []CheckInv
<1>1. Init => CheckInv
  BY CheckInit
<1>2. TypeInv /\ FlagInv /\ CheckInv /\ [Next]_vars => CheckInv'
  BY CheckStep
<1>3. QED
  BY <1>1, <1>2, TypeCorrect, FlagCorrect, PTL DEF Spec

\* The assertions of main that compare the second parse with the first never fail,
\* nor does the second parse itself: an SPS that was parsed is patched.
THEOREM NeverRefusesItsOwn == Spec => SelfCheckPasses
<1>1. TypeInv /\ FlagInv /\ CheckInv /\ [Next]_vars
         => [stage = "verify" => stage' # "failed"]_vars
  <2> SUFFICES ASSUME TypeInv, FlagInv, CheckInv, [Next]_vars, stage = "verify",
                      stage' = "failed"
               PROVE  FALSE
    BY DEF vars
  <2>1. Raises
    BY DEF Next, ReadElement, Patch, Emit, Exited, vars
  <2>2. PICK tr : Parsed(tr) /\ VerifyAt(tr, fields, pos, todo)
    BY Zenon DEF CheckInv
  <2>3. CASE todo # << >>
    <3>1. Continues(tr, fields, pos, todo)
      BY <2>2, <2>3, VerifyContinues, Zenon
    <3>2. Verifying = TRUE /\ Element = Head(todo) /\ Decoded = Decode(rbsp, pos, Head(todo))
      BY DEF Verifying, Element, Decoded
    <3>3. Accepted(Decoded)
      BY <3>1, <3>2, Zenon DEF Continues, Accepted
    <3>4. QED
      BY <2>1, <2>3, <3>3 DEF Raises
  <2>4. CASE todo = << >>
    <3>1. SelfCheck
      BY <2>2, <2>4, SelfCheckHolds, Zenon
    <3>2. QED
      BY <2>1, <2>4, <3>1 DEF Raises
  <2>5. QED
    BY <2>3, <2>4
<1>2. QED
  BY <1>1, TypeCorrect, FlagCorrect, CheckCorrect, PTL DEF Spec, SelfCheckPasses

===============================================================================
