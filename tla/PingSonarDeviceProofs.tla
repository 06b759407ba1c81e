----------------------- MODULE PingSonarDeviceProofs -----------------------
(***************************************************************************)
(* For any measurements and any noise, wherever in a message the port was  *)
(* opened, and for both sizes of gain_setting: on a clean line the reads   *)
(* that start with a message of the expected size are accepted, and no     *)
(* others; and with one byte lost or changed, nothing is published that    *)
(* was not measured.                                                       *)
(***************************************************************************)
EXTENDS PingSonarDevice, WellFoundedInduction, SequenceTheorems, TLAPS

Byte == 0 .. 255
-----------------------------------------------------------------------------
(* The checksum.  What its recursive function computes is shown by the     *)
(* least number for which it would not be so.                              *)

LEMMA LeastElement ==
  ASSUME NEW T \in SUBSET Nat, T # {}
  PROVE  \E x \in T : \A y \in T : x <= y
<1> DEFINE less == OpToRel(<, Nat)
<1>1. IsWellFoundedOn(less, Nat)
  BY NatLessThanWellFounded
<1>2. PICK x \in T : \A y \in T : ~(<<y, x>> \in less)
  BY <1>1, WFMin
<1>3. ASSUME NEW y \in T PROVE x <= y
  <2>1. <<y, x>> \notin less
    BY <1>2
  <2>2. ~(y < x)
    BY <2>1 DEF OpToRel
  <2> QED
    BY <2>2
<1> QED
  BY <1>3

\* Numbers of two bytes.
LEMMA Mod16 ==
  /\ \A x \in Int : x % 65536 \in Nat /\ x % 65536 < 65536
  /\ \A x \in Nat, y \in Int :
       x < 65536 /\ -255 <= y /\ y <= 255 /\ (x + y) % 65536 = x => y = 0
OBVIOUS

LEMMA ModSwap ==
  \A x, y, z \in Int : (((x + y) % 65536) + z) % 65536 = (((x + z) % 65536) + y) % 65536
OBVIOUS

LEMMA ModShift ==
  \A x, y, z \in Int : (x + y) % 65536 = (((x + z) % 65536) + (y - z)) % 65536
OBVIOUS

\* sum is the function of the loop over the first n bytes.
Sums(sum, bytes, n) ==
  sum = [i \in 0 .. n |-> IF i = 0 THEN 0 ELSE (sum[i - 1] + bytes[i]) % 65536]

LEMMA ByteRange == \A x : x \in Byte <=> x \in Int /\ 0 <= x /\ x <= 255
BY DEF Byte

LEMMA SumsDef ==
  ASSUME NEW n \in Nat, NEW bytes, NEW sum, Sums(sum, bytes, n)
  PROVE  /\ DOMAIN sum = 0 .. n
         /\ sum[0] = 0
         /\ \A i \in 1 .. n : sum[i] = (sum[i - 1] + bytes[i]) % 65536
BY DEF Sums

\* The loop over n bytes has a sum: the least n without one would follow one with it.
LEMMA SumsExists ==
  ASSUME NEW bytes, NEW n \in Nat
  PROVE  \E sum : Sums(sum, bytes, n)
<1> DEFINE T == {k \in Nat : ~\E sum : Sums(sum, bytes, k)}
<1> SUFFICES ASSUME T # {} PROVE FALSE
  OBVIOUS
<1>1. PICK k \in T : \A y \in T : k <= y
  BY LeastElement
<1>2. k # 0
  <2> DEFINE zero == [i \in 0 .. 0 |-> 0]
  <2>1. Sums(zero, bytes, 0)
    <3>1. zero = [i \in 0 .. 0 |-> IF i = 0 THEN 0 ELSE (zero[i - 1] + bytes[i]) % 65536]
      OBVIOUS
    <3> HIDE DEF zero
    <3> QED
      BY <3>1 DEF Sums
  <2> QED
    BY <1>1, <2>1
<1>3. PICK sum : Sums(sum, bytes, k - 1)
  BY <1>1, <1>2
<1> DEFINE next == [i \in 0 .. k |->
                      IF i = k THEN (sum[k - 1] + bytes[k]) % 65536 ELSE sum[i]]
<1>4. k - 1 \in Nat /\ k \in Nat
  BY <1>1, <1>2
<1>5. /\ sum[0] = 0
      /\ \A i \in 1 .. k - 1 : sum[i] = (sum[i - 1] + bytes[i]) % 65536
  BY <1>3, <1>4, SumsDef
<1>6. \A i \in 0 .. k : next[i] = IF i = 0 THEN 0 ELSE (next[i - 1] + bytes[i]) % 65536
  <2> SUFFICES ASSUME NEW i \in 0 .. k
               PROVE  next[i] = IF i = 0 THEN 0 ELSE (next[i - 1] + bytes[i]) % 65536
    OBVIOUS
  <2>1. i # 0 => next[i - 1] = sum[i - 1]
    BY <1>4
  <2>2. CASE i = 0
    BY <1>2, <1>4, <1>5, <2>2
  <2>3. CASE i = k
    BY <1>2, <1>4, <2>1, <2>3
  <2>4. CASE i \in 1 .. k - 1
    <3>1. next[i] = sum[i]
      BY <2>4, <1>4
    <3> HIDE DEF next
    <3> QED
      BY <3>1, <2>1, <2>4, <1>4, <1>5
  <2> QED
    BY <2>2, <2>3, <2>4, <1>4
<1>7. Sums(next, bytes, k)
  <2> DEFINE loop == [i \in 0 .. k |-> IF i = 0 THEN 0 ELSE (next[i - 1] + bytes[i]) % 65536]
  <2>1. next = [i \in 0 .. k |-> next[i]] /\ loop = [i \in 0 .. k |-> loop[i]]
    OBVIOUS
  <2>2. \A i \in 0 .. k : next[i] = loop[i]
    <3> HIDE DEF next
    <3> QED
      BY <1>6
  <2>3. next = loop
    <3> HIDE DEF next, loop
    <3> QED
      BY <2>1, <2>2
  <2> HIDE DEF next
  <2> QED
    BY <2>3 DEF Sums
<1> QED
  BY <1>1, <1>7

\* So the checksum is the last number of such a function.
LEMMA ChecksumDef ==
  ASSUME NEW bytes, NEW n \in Nat
  PROVE  \E sum : Sums(sum, bytes, n) /\ Checksum(bytes, n) = sum[n]
<1> DEFINE sum == CHOOSE sum : Sums(sum, bytes, n)
<1>1. Sums(sum, bytes, n)
  BY SumsExists
<1>2. Checksum(bytes, n) = sum[n]
  BY DEF Checksum, Sums
<1> QED
  BY <1>1, <1>2

LEMMA SumsRange ==
  ASSUME NEW n \in Nat, NEW bytes, \A i \in 1 .. n : bytes[i] \in Byte,
         NEW sum, Sums(sum, bytes, n), NEW i \in 0 .. n
  PROVE  sum[i] \in 0 .. 255 * i
<1> DEFINE T == {k \in 0 .. n : sum[k] \notin 0 .. 255 * k}
<1> SUFFICES ASSUME T # {} PROVE FALSE
  OBVIOUS
<1>1. PICK k \in T : \A y \in T : k <= y
  <2>1. T \in SUBSET Nat
    OBVIOUS
  <2> HIDE DEF T
  <2> QED
    BY <2>1, LeastElement
<1>2. sum[0] = 0 /\ \A j \in 1 .. n : sum[j] = (sum[j - 1] + bytes[j]) % 65536
  BY SumsDef
<1>3. k \in 1 .. n
  BY <1>1, <1>2
<1>4. sum[k - 1] \in 0 .. 255 * (k - 1) /\ bytes[k] \in 0 .. 255
  BY <1>1, <1>3 DEF Byte
<1>5. sum[k] = (sum[k - 1] + bytes[k]) % 65536
  BY <1>2, <1>3
<1>6. sum[k - 1] + bytes[k] \in 0 .. 255 * k
  BY <1>3, <1>4
<1>7. \A x \in Nat : x % 65536 \in 0 .. x
  OBVIOUS
<1>8. sum[k] \in 0 .. 255 * k
  BY <1>3, <1>5, <1>6, <1>7
<1> QED
  BY <1>1, <1>8

\* Two loops over the same first p bytes have the same sums.
Agree(b, c, p) == \A i \in 1 .. p : b[i] = c[i]

LEMMA SumsEqual ==
  ASSUME NEW n \in Nat, NEW b, NEW c, NEW p \in 0 .. n, Agree(b, c, p),
         NEW s, Sums(s, b, n), NEW t, Sums(t, c, n), NEW i \in 0 .. p
  PROVE  s[i] = t[i]
<1> DEFINE T == {k \in 0 .. p : s[k] # t[k]}
<1> SUFFICES ASSUME T # {} PROVE FALSE
  OBVIOUS
<1>1. PICK k \in T : \A y \in T : k <= y
  <2>1. T \in SUBSET Nat
    OBVIOUS
  <2> HIDE DEF T
  <2> QED
    BY <2>1, LeastElement
<1>2. /\ s[0] = 0 /\ \A j \in 1 .. n : s[j] = (s[j - 1] + b[j]) % 65536
      /\ t[0] = 0 /\ \A j \in 1 .. n : t[j] = (t[j - 1] + c[j]) % 65536
  BY SumsDef
<1>3. k \in 1 .. p
  BY <1>1, <1>2
<1>4. s[k - 1] = t[k - 1]
  BY <1>1, <1>3
<1>5. b[k] = c[k]
  BY <1>3 DEF Agree
<1> QED
  BY <1>1, <1>2, <1>3, <1>4, <1>5

\* From a byte on that differs, the sums differ by as much.
LEMMA SumsShifted ==
  ASSUME NEW n \in Nat, NEW b, NEW c, NEW k \in 1 .. n,
         \A i \in 1 .. n : b[i] \in Byte /\ c[i] \in Byte,
         \A i \in 1 .. n : i # k => b[i] = c[i],
         NEW s, Sums(s, b, n), NEW t, Sums(t, c, n), NEW i \in k .. n
  PROVE  t[i] = (s[i] + (c[k] - b[k])) % 65536
<1> DEFINE d == c[k] - b[k]
           T == {j \in k .. n : t[j] # (s[j] + d) % 65536}
<1> SUFFICES ASSUME T # {} PROVE FALSE
  OBVIOUS
<1>1. PICK j \in T : \A y \in T : j <= y
  <2>1. T \in SUBSET Nat
    OBVIOUS
  <2> HIDE DEF T
  <2> QED
    BY <2>1, LeastElement
<1>2. /\ \A x \in 1 .. n : s[x] = (s[x - 1] + b[x]) % 65536
      /\ \A x \in 1 .. n : t[x] = (t[x - 1] + c[x]) % 65536
  BY SumsDef
<1>3. j \in 1 .. n /\ j \in k .. n /\ t[j] # (s[j] + d) % 65536
  BY <1>1
<1>4. \A x \in k .. n : x < j => t[x] = (s[x] + d) % 65536
  BY <1>1
<1>5. b[k] \in Int /\ c[k] \in Int /\ b[j] \in Int /\ c[j] \in Int
  BY <1>3, ByteRange
<1>6. d \in Int
  BY <1>5
<1>7. s[j - 1] \in Int
  <2>1. j - 1 \in 0 .. n
    BY <1>3
  <2>2. s[j - 1] \in 0 .. 255 * (j - 1)
    BY <2>1, SumsRange
  <2> QED
    BY <2>1, <2>2
<1>8. s[j] = (s[j - 1] + b[j]) % 65536 /\ t[j] = (t[j - 1] + c[j]) % 65536
  BY <1>2, <1>3
<1> HIDE DEF T
<1>9. CASE j = k
  <2>1. s[j - 1] = t[j - 1]
    <3>1. k - 1 \in 0 .. n /\ k - 1 \in 0 .. k - 1 /\ Agree(b, c, k - 1)
      BY DEF Agree
    <3>2. s[k - 1] = t[k - 1]
      BY <3>1, SumsEqual
    <3> QED
      BY <1>9, <3>2
  <2>2. (s[j - 1] + c[j]) % 65536 = (((s[j - 1] + b[j]) % 65536) + (c[j] - b[j])) % 65536
    BY <1>5, <1>7, ModShift
  <2> QED
    BY <1>3, <1>8, <1>9, <2>1, <2>2
<1>10. CASE j # k
  <2> HIDE DEF d
  <2>1. t[j - 1] = (s[j - 1] + d) % 65536
    BY <1>3, <1>4, <1>10
  <2>2. b[j] = c[j]
    BY <1>3, <1>10
  <2>3. (((s[j - 1] + d) % 65536) + b[j]) % 65536 = (((s[j - 1] + b[j]) % 65536) + d) % 65536
    BY <1>5, <1>6, <1>7, ModSwap
  <2> QED
    BY <1>3, <1>8, <2>1, <2>2, <2>3
<1> QED
  BY <1>9, <1>10

-----------------------------------------------------------------------------
(* What the checksum is good for: it depends on the bytes it is of, no more *)
(* than 255 times their number, and changes with each of them.              *)

LEMMA ChecksumRange ==
  ASSUME NEW n \in Nat, NEW bytes, \A i \in 1 .. n : bytes[i] \in Byte
  PROVE  Checksum(bytes, n) \in Nat /\ Checksum(bytes, n) <= 255 * n
<1>1. Checksum(bytes, n) \in 0 .. 255 * n
  BY ChecksumDef, SumsRange
<1> QED
  BY <1>1

\* So few bytes do not wrap around: their sum is no less than the first.
LEMMA ChecksumAtLeast ==
  ASSUME NEW n \in Nat, 1 <= n, n <= 200,
         NEW bytes, \A i \in 1 .. n : bytes[i] \in Byte
  PROVE  Checksum(bytes, n) >= bytes[1]
<1>1. PICK sum : Sums(sum, bytes, n) /\ Checksum(bytes, n) = sum[n]
  BY ChecksumDef
<1> DEFINE T == {k \in 1 .. n : sum[k] < bytes[1]}
<1>2. n \in 1 .. n /\ sum[n] \in Int /\ bytes[1] \in Int
  <2>1. n \in 0 .. n /\ 1 \in 1 .. n
    OBVIOUS
  <2>2. sum[n] \in 0 .. 255 * n
    BY <1>1, <2>1, SumsRange
  <2> QED
    BY <2>1, <2>2, ByteRange
<1> SUFFICES ASSUME T # {} PROVE FALSE
  <2>1. ~(sum[n] < bytes[1])
    BY <1>2
  <2> QED
    BY <1>1, <1>2, <2>1
<1>3. PICK k \in T : \A y \in T : k <= y
  <2>1. T \in SUBSET Nat
    OBVIOUS
  <2> HIDE DEF T
  <2> QED
    BY <2>1, LeastElement
<1>4. k \in 1 .. n /\ k - 1 \in 0 .. n /\ sum[k] < bytes[1]
  BY <1>3
<1>5. \A y \in 1 .. n : y < k => ~(sum[y] < bytes[1])
  BY <1>3
<1> HIDE DEF T
<1>6. sum[0] = 0 /\ sum[k] = (sum[k - 1] + bytes[k]) % 65536
  BY <1>1, <1>4, SumsDef
<1>7. sum[k - 1] \in Int /\ 0 <= sum[k - 1] /\ sum[k - 1] <= 51000
  <2>1. sum[k - 1] \in 0 .. 255 * (k - 1)
    BY <1>1, <1>4, SumsRange
  <2> QED
    BY <1>4, <2>1
<1>8. bytes[k] \in Int /\ 0 <= bytes[k] /\ bytes[k] <= 255
  BY <1>4, ByteRange
<1>9. sum[k] = sum[k - 1] + bytes[k]
  BY <1>6, <1>7, <1>8
<1>10. CASE k = 1
  <2>1. sum[k - 1] = 0
    BY <1>6, <1>10
  <2> QED
    BY <1>2, <1>4, <1>8, <1>9, <1>10, <2>1
<1>11. CASE k # 1
  <2>1. k - 1 \in 1 .. n /\ k - 1 < k
    BY <1>4, <1>11
  <2>2. ~(sum[k - 1] < bytes[1])
    BY <1>5, <2>1
  <2> QED
    BY <1>2, <1>4, <1>7, <1>8, <1>9, <2>2
<1> QED
  BY <1>10, <1>11

LEMMA ChecksumEqual ==
  ASSUME NEW n \in Nat, NEW b, NEW c, \A i \in 1 .. n : b[i] = c[i]
  PROVE  Checksum(b, n) = Checksum(c, n)
<1>1. PICK s : Sums(s, b, n) /\ Checksum(b, n) = s[n]
  BY ChecksumDef
<1>2. PICK t : Sums(t, c, n) /\ Checksum(c, n) = t[n]
  BY ChecksumDef
<1>3. s[n] = t[n]
  <2>1. n \in 0 .. n
    OBVIOUS
  <2>2. Sums(s, b, n) /\ Sums(t, c, n) /\ Agree(b, c, n)
    BY <1>1, <1>2 DEF Agree
  <2> QED
    BY <2>1, <2>2, SumsEqual
<1> QED
  BY <1>1, <1>2, <1>3

(* The checksum of the frame sees any one changed byte.                     *)
LEMMA ChecksumDiffers ==
  ASSUME NEW n \in Nat, NEW b, NEW c, NEW k \in 1 .. n,
         \A i \in 1 .. n : b[i] \in Byte /\ c[i] \in Byte,
         \A i \in 1 .. n : i # k => b[i] = c[i],
         b[k] # c[k]
  PROVE  Checksum(b, n) # Checksum(c, n)
<1> DEFINE d == c[k] - b[k]
<1>1. PICK s : Sums(s, b, n) /\ Checksum(b, n) = s[n]
  BY ChecksumDef
<1>2. PICK t : Sums(t, c, n) /\ Checksum(c, n) = t[n]
  BY ChecksumDef
<1>3. t[n] = (s[n] + d) % 65536
  BY <1>1, <1>2, SumsShifted
<1>4. s[n] \in Nat /\ s[n] < 65536
  <2>1. s[n] = (s[n - 1] + b[n]) % 65536
    BY <1>1, SumsDef
  <2>2. s[n - 1] \in 0 .. 255 * (n - 1)
    <3>1. n - 1 \in 0 .. n
      OBVIOUS
    <3> QED
      BY <1>1, <3>1, SumsRange
  <2>3. b[n] \in Int
    BY ByteRange
  <2>4. s[n - 1] + b[n] \in Int
    BY <2>2, <2>3
  <2> QED
    BY <2>1, <2>4, Mod16
<1>5. d \in Int /\ -255 <= d /\ d <= 255 /\ d # 0
  <2>1. /\ b[k] \in Int /\ 0 <= b[k] /\ b[k] <= 255
        /\ c[k] \in Int /\ 0 <= c[k] /\ c[k] <= 255
    BY ByteRange
  <2> QED
    BY <2>1
<1> HIDE DEF d
<1>6. t[n] # s[n]
  BY <1>3, <1>4, <1>5, Mod16
<1> QED
  BY <1>1, <1>2, <1>6
-----------------------------------------------------------------------------
(* The message.  Its bytes are those the checks look for, and the pair they *)
(* decode to is the one that was measured.                                  *)

LEMMA Elements == \A s \in Seq(Byte) : \A i \in 1 .. Len(s) : s[i] \in Byte
OBVIOUS

LEMMA U16Bytes ==
  ASSUME NEW n \in Nat, n <= 65535
  PROVE  /\ U16(n) \in Seq(Byte) /\ Len(U16(n)) = 2
         /\ U16(n)[1] + 256 * U16(n)[2] = n
<1>1. /\ n % 256 \in Int /\ 0 <= n % 256 /\ n % 256 <= 255
      /\ n \div 256 \in Int /\ 0 <= n \div 256 /\ n \div 256 <= 255
      /\ (n % 256) + 256 * (n \div 256) = n
  OBVIOUS
<1>2. n % 256 \in Byte /\ n \div 256 \in Byte
  BY <1>1, ByteRange
<1> QED
  BY <1>1, <1>2 DEF U16

\* The bytes of a concatenation of m and n bytes.
Joins(r, s, m, t, n) ==
  /\ r \in Seq(Byte) /\ Len(r) = m + n
  /\ \A i \in 1 .. m : r[i] = s[i]
  /\ \A i \in 1 .. n : r[m + i] = t[i]

LEMMA Concat ==
  ASSUME NEW s \in Seq(Byte), NEW m, Len(s) = m, NEW t \in Seq(Byte), NEW n, Len(t) = n
  PROVE  Joins(s \o t, s, m, t, n)
<1> DEFINE r == s \o t
<1>1. r \in Seq(Byte) /\ Len(r) = Len(s) + Len(t)
  OBVIOUS
<1>2. \A i \in 1 .. Len(s) + Len(t) : r[i] = IF i <= Len(s) THEN s[i] ELSE t[i - Len(s)]
  OBVIOUS
<1>3. Len(s) \in Nat /\ Len(t) \in Nat
  OBVIOUS
<1>4. ASSUME NEW i \in 1 .. Len(s) PROVE r[i] = s[i]
  BY <1>2, <1>3
<1>5. ASSUME NEW i \in 1 .. Len(t) PROVE r[Len(s) + i] = t[i]
  <2>1. /\ Len(s) + i \in 1 .. Len(s) + Len(t) /\ ~(Len(s) + i <= Len(s))
        /\ Len(s) + i - Len(s) = i
    BY <1>3
  <2> QED
    BY <1>2, <2>1
<1> HIDE DEF r
<1>6. Joins(r, s, m, t, n)
  BY <1>1, <1>4, <1>5 DEF Joins
<1> QED
  BY <1>6 DEF r

LEMMA ConcatTwo ==
  \A s, t \in Seq(Byte) :
    Len(s) = 2 /\ Len(t) = 2
      => /\ s \o t \in Seq(Byte) /\ Len(s \o t) = 4
         /\ (s \o t)[1] = s[1] /\ (s \o t)[2] = s[2]
         /\ (s \o t)[3] = t[1] /\ (s \o t)[4] = t[2]
<1> SUFFICES ASSUME NEW s \in Seq(Byte), NEW t \in Seq(Byte), Len(s) = 2, Len(t) = 2
             PROVE  /\ s \o t \in Seq(Byte) /\ Len(s \o t) = 4
                    /\ (s \o t)[1] = s[1] /\ (s \o t)[2] = s[2]
                    /\ (s \o t)[3] = t[1] /\ (s \o t)[4] = t[2]
  OBVIOUS
<1> DEFINE r == s \o t
<1>1. Joins(r, s, 2, t, 2)
  BY Concat
<1> HIDE DEF r
<1>2. /\ r \in Seq(Byte) /\ Len(r) = 4
      /\ r[1] = s[1] /\ r[2] = s[2] /\ r[3] = t[1] /\ r[4] = t[2]
  BY <1>1 DEF Joins
<1> QED
  BY <1>2 DEF r

LEMMA U32Bytes ==
  ASSUME NEW n \in Nat, n \div 65536 <= 65535
  PROVE  /\ U32(n) \in Seq(Byte) /\ Len(U32(n)) = 4
         /\ U32(n)[1] + 256 * U32(n)[2] + 65536 * (U32(n)[3] + 256 * U32(n)[4]) = n
<1> DEFINE low == n % 65536
           high == n \div 65536
<1>1. /\ low \in Nat /\ low <= 65535 /\ high \in Nat /\ high <= 65535
      /\ low + 65536 * high = n
  OBVIOUS
<1> HIDE DEF low, high
<1>2. /\ U16(low) \in Seq(Byte) /\ Len(U16(low)) = 2
      /\ U16(low)[1] + 256 * U16(low)[2] = low
  BY <1>1, U16Bytes
<1>3. /\ U16(high) \in Seq(Byte) /\ Len(U16(high)) = 2
      /\ U16(high)[1] + 256 * U16(high)[2] = high
  BY <1>1, U16Bytes
<1> DEFINE both == U16(low) \o U16(high)
<1>4. /\ both \in Seq(Byte) /\ Len(both) = 4
      /\ both[1] = U16(low)[1] /\ both[2] = U16(low)[2]
      /\ both[3] = U16(high)[1] /\ both[4] = U16(high)[2]
  BY <1>2, <1>3, ConcatTwo
<1>5. U32(n) = both
  BY DEF U32, low, high
<1> DEFINE l1 == U16(low)[1]
           l2 == U16(low)[2]
           h1 == U16(high)[1]
           h2 == U16(high)[2]
<1> HIDE DEF both, l1, l2, h1, h2
<1>6. l1 + 256 * l2 + 65536 * (h1 + 256 * h2) = n
  <2>1. l1 + 256 * l2 = low /\ h1 + 256 * h2 = high
    BY <1>2, <1>3 DEF l1, l2, h1, h2
  <2> QED
    BY <1>1, <2>1
<1>7. both[1] = l1 /\ both[2] = l2 /\ both[3] = h1 /\ both[4] = h2
  BY <1>4 DEF l1, l2, h1, h2
<1> QED
  BY <1>4, <1>5, <1>6, <1>7

\* Where the fields of a message are that are looked at: the start, the size, the id,
\* (two bytes,) the distance and the confidence.
IsHead(b, s, p, e, z, d, c) ==
  /\ s \in Seq(Byte) /\ Len(s) = 2 /\ p \in Seq(Byte) /\ Len(p) = 2
  /\ e \in Seq(Byte) /\ Len(e) = 2 /\ z \in Seq(Byte) /\ Len(z) = 2
  /\ d \in Seq(Byte) /\ Len(d) = 4 /\ c \in Seq(Byte) /\ Len(c) = 2
  /\ b = s \o p \o e \o z \o d \o c

LEMMA HeadBytes ==
  ASSUME NEW b, NEW s, NEW p, NEW e, NEW z, NEW d, NEW c, IsHead(b, s, p, e, z, d, c)
  PROVE  /\ b \in Seq(Byte) /\ Len(b) = 14
         /\ b[1] = s[1] /\ b[2] = s[2] /\ b[3] = p[1] /\ b[4] = p[2]
         /\ b[5] = e[1] /\ b[6] = e[2] /\ b[7] = z[1] /\ b[8] = z[2]
         /\ b[9] = d[1] /\ b[10] = d[2] /\ b[11] = d[3] /\ b[12] = d[4]
         /\ b[13] = c[1] /\ b[14] = c[2]
<1> DEFINE b1 == s \o p
           b2 == b1 \o e
           b3 == b2 \o z
           b4 == b3 \o d
           b5 == b4 \o c
<1> USE DEF IsHead
<1>1. Joins(b1, s, 2, p, 2)
  BY Concat
<1>2. b1 \in Seq(Byte) /\ Len(b1) = 4
  BY <1>1 DEF Joins
<1> HIDE DEF b1
<1>3. Joins(b2, b1, 4, e, 2)
  BY <1>2, Concat
<1>4. b2 \in Seq(Byte) /\ Len(b2) = 6
  BY <1>3 DEF Joins
<1> HIDE DEF b2
<1>5. Joins(b3, b2, 6, z, 2)
  BY <1>4, Concat
<1>6. b3 \in Seq(Byte) /\ Len(b3) = 8
  BY <1>5 DEF Joins
<1> HIDE DEF b3
<1>7. Joins(b4, b3, 8, d, 4)
  BY <1>6, Concat
<1>8. b4 \in Seq(Byte) /\ Len(b4) = 12
  BY <1>7 DEF Joins
<1> HIDE DEF b4
<1>9. Joins(b5, b4, 12, c, 2)
  BY <1>8, Concat
<1>10. b = b5
  BY DEF b1, b2, b3, b4
<1> HIDE DEF b5
<1>11. /\ b5 \in Seq(Byte) /\ Len(b5) = 14
       /\ \A i \in 1 .. 12 : b5[i] = b4[i]
       /\ b5[13] = c[1] /\ b5[14] = c[2]
  BY <1>9 DEF Joins
<1>12. /\ \A i \in 1 .. 8 : b4[i] = b3[i]
       /\ b4[9] = d[1] /\ b4[10] = d[2] /\ b4[11] = d[3] /\ b4[12] = d[4]
  BY <1>7 DEF Joins
<1>13. (\A i \in 1 .. 6 : b3[i] = b2[i]) /\ b3[7] = z[1] /\ b3[8] = z[2]
  BY <1>5 DEF Joins
<1>14. (\A i \in 1 .. 4 : b2[i] = b1[i]) /\ b2[5] = e[1] /\ b2[6] = e[2]
  BY <1>3 DEF Joins
<1>15. b1[1] = s[1] /\ b1[2] = s[2] /\ b1[3] = p[1] /\ b1[4] = p[2]
  BY <1>1 DEF Joins
<1> QED
  BY <1>10, <1>11, <1>12, <1>13, <1>14, <1>15, SMTT(30)

\* The fields that nobody looks at, after a head of 14 bytes.
IsBody(b, gain, h, t1, t2, t3, t4, t5) ==
  /\ h \in Seq(Byte) /\ Len(h) = 14 /\ t1 \in Seq(Byte) /\ Len(t1) = 2
  /\ t2 \in Seq(Byte) /\ Len(t2) = 4 /\ t3 \in Seq(Byte) /\ Len(t3) = 4
  /\ t4 \in Seq(Byte) /\ Len(t4) = 4 /\ t5 \in Seq(Byte) /\ Len(t5) = gain
  /\ b = h \o t1 \o t2 \o t3 \o t4 \o t5

HasBody(b, gain, h, t1, t2, t3, t4, t5) ==
  /\ b \in Seq(Byte) /\ Len(b) = 28 + gain
  /\ \A i \in 1 .. 14 : b[i] = h[i]
  /\ \A i \in 1 .. 2 : b[14 + i] = t1[i]
  /\ \A i \in 1 .. 4 : b[16 + i] = t2[i] /\ b[20 + i] = t3[i] /\ b[24 + i] = t4[i]
  /\ \A i \in 1 .. gain : b[28 + i] = t5[i]

LEMMA TailBytes ==
  ASSUME NEW b, NEW gain \in GainSizes,
         NEW h, NEW t1, NEW t2, NEW t3, NEW t4, NEW t5, IsBody(b, gain, h, t1, t2, t3, t4, t5)
  PROVE  HasBody(b, gain, h, t1, t2, t3, t4, t5)
<1> DEFINE b1 == h \o t1
           b2 == b1 \o t2
           b3 == b2 \o t3
           b4 == b3 \o t4
           b5 == b4 \o t5
<1>0. gain \in Nat
  BY DEF GainSizes
<1> USE DEF IsBody
<1>1. Joins(b1, h, 14, t1, 2)
  BY Concat
<1> HIDE DEF b1
<1>2. /\ b1 \in Seq(Byte) /\ Len(b1) = 16
      /\ \A i \in 1 .. 14 : b1[i] = h[i]
      /\ \A i \in 1 .. 2 : b1[14 + i] = t1[i]
  BY <1>1 DEF Joins
<1>3. Joins(b2, b1, 16, t2, 4)
  BY <1>2, Concat
<1> HIDE DEF b2
<1>4. /\ b2 \in Seq(Byte) /\ Len(b2) = 20
      /\ \A i \in 1 .. 16 : b2[i] = b1[i]
      /\ \A i \in 1 .. 4 : b2[16 + i] = t2[i]
  BY <1>3 DEF Joins
<1>5. Joins(b3, b2, 20, t3, 4)
  BY <1>4, Concat
<1> HIDE DEF b3
<1>6. /\ b3 \in Seq(Byte) /\ Len(b3) = 24
      /\ \A i \in 1 .. 20 : b3[i] = b2[i]
      /\ \A i \in 1 .. 4 : b3[20 + i] = t3[i]
  BY <1>5 DEF Joins
<1>7. Joins(b4, b3, 24, t4, 4)
  BY <1>6, Concat
<1> HIDE DEF b4
<1>8. /\ b4 \in Seq(Byte) /\ Len(b4) = 28
      /\ \A i \in 1 .. 24 : b4[i] = b3[i]
      /\ \A i \in 1 .. 4 : b4[24 + i] = t4[i]
  BY <1>7 DEF Joins
<1>9. Joins(b5, b4, 28, t5, gain)
  BY <1>8, Concat
<1>10. b = b5
  BY DEF b1, b2, b3, b4
<1> HIDE DEF b5, IsBody
<1>11. /\ b5 \in Seq(Byte) /\ Len(b5) = 28 + gain
       /\ \A i \in 1 .. 28 : b5[i] = b4[i]
       /\ \A i \in 1 .. gain : b5[28 + i] = t5[i]
  BY <1>9 DEF Joins
<1>12. /\ \A i \in 1 .. 14 : i \in 1 .. 28 /\ i \in 1 .. 24 /\ i \in 1 .. 20 /\ i \in 1 .. 16
       /\ \A i \in 1 .. 2 : /\ 14 + i \in 1 .. 28 /\ 14 + i \in 1 .. 24
                            /\ 14 + i \in 1 .. 20 /\ 14 + i \in 1 .. 16
       /\ \A i \in 1 .. 4 : /\ 16 + i \in 1 .. 28 /\ 16 + i \in 1 .. 24 /\ 16 + i \in 1 .. 20
                            /\ 20 + i \in 1 .. 28 /\ 20 + i \in 1 .. 24
                            /\ 24 + i \in 1 .. 28
  OBVIOUS
<1>13. ASSUME NEW i \in 1 .. 14 PROVE b[i] = h[i]
  <2>1. b[i] = b4[i]
    BY <1>10, <1>11, <1>12
  <2>2. b4[i] = b3[i]
    BY <1>8, <1>12
  <2>3. b3[i] = b2[i]
    BY <1>6, <1>12
  <2>4. b2[i] = b1[i]
    BY <1>4, <1>12
  <2>5. b1[i] = h[i]
    BY <1>2, <1>12
  <2> QED
    BY <2>1, <2>2, <2>3, <2>4, <2>5
<1>14. ASSUME NEW i \in 1 .. 2 PROVE b[14 + i] = t1[i]
  <2>1. b[14 + i] = b4[14 + i]
    BY <1>10, <1>11, <1>12
  <2>2. b4[14 + i] = b3[14 + i]
    BY <1>8, <1>12
  <2>3. b3[14 + i] = b2[14 + i]
    BY <1>6, <1>12
  <2>4. b2[14 + i] = b1[14 + i]
    BY <1>4, <1>12
  <2>5. b1[14 + i] = t1[i]
    BY <1>2, <1>12
  <2> QED
    BY <2>1, <2>2, <2>3, <2>4, <2>5
<1>15. ASSUME NEW i \in 1 .. 4 PROVE b[16 + i] = t2[i]
  <2>1. b[16 + i] = b4[16 + i]
    BY <1>10, <1>11, <1>12
  <2>2. b4[16 + i] = b3[16 + i]
    BY <1>8, <1>12
  <2>3. b3[16 + i] = b2[16 + i]
    BY <1>6, <1>12
  <2>4. b2[16 + i] = t2[i]
    BY <1>4, <1>12
  <2> QED
    BY <2>1, <2>2, <2>3, <2>4
<1>16. ASSUME NEW i \in 1 .. 4 PROVE b[20 + i] = t3[i]
  <2>1. b[20 + i] = b4[20 + i]
    BY <1>10, <1>11, <1>12
  <2>2. b4[20 + i] = b3[20 + i]
    BY <1>8, <1>12
  <2>3. b3[20 + i] = t3[i]
    BY <1>6, <1>12
  <2> QED
    BY <2>1, <2>2, <2>3
<1>17. ASSUME NEW i \in 1 .. 4 PROVE b[24 + i] = t4[i]
  <2>1. b[24 + i] = b4[24 + i]
    BY <1>10, <1>11, <1>12
  <2>2. b4[24 + i] = t4[i]
    BY <1>8, <1>12
  <2> QED
    BY <2>1, <2>2
<1> QED
  BY <1>10, <1>11, <1>13, <1>14, <1>15, <1>16, <1>17 DEF HasBody

\* The numbers at the offsets of a buffer.
LEMMA AtDef ==
  ASSUME NEW b
  PROVE  /\ At16(b, 2) = b[3] + 256 * b[4]
         /\ At16(b, 4) = b[5] + 256 * b[6]
         /\ At16(b, 12) = b[13] + 256 * b[14]
         /\ At16(b, 30) = b[31] + 256 * b[32]
         /\ At32(b, 8) = b[9] + 256 * b[10] + 65536 * (b[11] + 256 * b[12])
BY DEF At16, At32

\* The numbers that have the same bytes in every message.
Values == {0, 1, 44, 80, 195}

LEMMA FixedBytes ==
  /\ U16(300) = <<44, 1>> /\ U16(MESSAGE_ID_DISTANCE) = <<188, 4>>
  /\ \A n \in {1, 300, 50000} : /\ U32(n) \in Seq(Byte) /\ Len(U32(n)) = 4
                                /\ \A i \in 1 .. 4 : U32(n)[i] \in Values
  /\ \A gain \in GainSizes : U16(PayloadSize(gain)) = <<20 + gain, 0>>
<1>1. U16(300) = <<44, 1>> /\ U16(1) = <<1, 0>> /\ U16(0) = <<0, 0>> /\ U16(50000) = <<80, 195>>
  BY DEF U16
<1>2. U16(MESSAGE_ID_DISTANCE) = <<188, 4>>
  BY DEF U16, MESSAGE_ID_DISTANCE
<1>3. /\ 300 % 65536 = 300 /\ 300 \div 65536 = 0 /\ 1 % 65536 = 1 /\ 1 \div 65536 = 0
      /\ 50000 % 65536 = 50000 /\ 50000 \div 65536 = 0
  OBVIOUS
<1>4. ASSUME NEW n \in {1, 300, 50000}
      PROVE  /\ U32(n) \in Seq(Byte) /\ Len(U32(n)) = 4
             /\ \A i \in 1 .. 4 : U32(n)[i] \in Values
  <2> DEFINE s == U16(n)
             z == U16(0)
             r == s \o z
  <2>1. U32(n) = r
    BY <1>3 DEF U32
  <2>2. 0 \in Byte /\ 1 \in Byte /\ 44 \in Byte /\ 80 \in Byte /\ 195 \in Byte
    BY ByteRange
  <2>3. /\ s \in Seq(Byte) /\ Len(s) = 2 /\ s[1] \in Values /\ s[2] \in Values
        /\ z \in Seq(Byte) /\ Len(z) = 2 /\ z[1] \in Values /\ z[2] \in Values
    <3>1. s = <<1, 0>> \/ s = <<44, 1>> \/ s = <<80, 195>>
      BY <1>1
    <3>2. z = <<0, 0>>
      BY <1>1
    <3> HIDE DEF s, z
    <3>3. /\ s \in Seq(Byte) /\ Len(s) = 2 /\ s[1] \in Values /\ s[2] \in Values
      <4>1. CASE s = <<1, 0>>
        BY <2>2, <4>1 DEF Values
      <4>2. CASE s = <<44, 1>>
        BY <2>2, <4>2 DEF Values
      <4>3. CASE s = <<80, 195>>
        BY <2>2, <4>3 DEF Values
      <4> QED
        BY <3>1, <4>1, <4>2, <4>3
    <3>4. /\ z \in Seq(Byte) /\ Len(z) = 2 /\ z[1] \in Values /\ z[2] \in Values
      BY <2>2, <3>2 DEF Values
    <3> QED
      BY <3>3, <3>4
  <2> HIDE DEF s, z
  <2>4. /\ r \in Seq(Byte) /\ Len(r) = 4
        /\ r[1] = s[1] /\ r[2] = s[2] /\ r[3] = z[1] /\ r[4] = z[2]
    BY <2>3, ConcatTwo
  <2> HIDE DEF r
  <2>5. ASSUME NEW i \in 1 .. 4 PROVE r[i] \in Values
    <3>1. i = 1 \/ i = 2 \/ i = 3 \/ i = 4
      OBVIOUS
    <3> QED
      BY <2>3, <2>4, <3>1
  <2> QED
    BY <2>1, <2>4, <2>5
<1>5. \A gain \in GainSizes : U16(PayloadSize(gain)) = <<20 + gain, 0>>
  <2>1. U16(22) = <<22, 0>> /\ U16(24) = <<24, 0>>
    BY DEF U16
  <2>2. PayloadSize(2) = 22 /\ PayloadSize(4) = 24
    BY DEF PayloadSize
  <2> QED
    BY <2>1, <2>2 DEF GainSizes
<1> QED
  BY <1>1, <1>2, <1>4, <1>5

\* The bytes of a message before its checksum.
LEMMA BodyBytes ==
  ASSUME NEW m \in Measurements, NEW gain \in GainSizes
  PROVE  /\ Body(m, gain) \in Seq(Byte) /\ Len(Body(m, gain)) = 28 + gain
         /\ Body(m, gain)[1] = 66 /\ Body(m, gain)[2] = 82
         /\ Body(m, gain)[3] = 20 + gain /\ Body(m, gain)[4] = 0
         /\ Body(m, gain)[5] = 188 /\ Body(m, gain)[6] = 4
         /\ Body(m, gain)[7] = 0 /\ Body(m, gain)[8] = 0
         /\ At32(Body(m, gain), 8) = m[1]
         /\ Body(m, gain)[13] = m[2] /\ Body(m, gain)[14] = 0
         /\ Body(m, gain)[15] = 44 /\ Body(m, gain)[16] = 1
         /\ \A i \in 17 .. 28 : Body(m, gain)[i] \in Values
         /\ \A i \in 29 .. 28 + gain : Body(m, gain)[i] = 0
<1> DEFINE s == <<START_BYTE_1, START_BYTE_2>>
           p == U16(PayloadSize(gain))
           e == U16(MESSAGE_ID_DISTANCE)
           z == <<0, 0>>
           d == U32(m[1])
           c == U16(m[2])
           h == s \o p \o e \o z \o d \o c
           t5 == [i \in 1 .. gain |-> 0]
           t1 == U16(300)
           t2 == U32(1)
           t3 == U32(300)
           t4 == U32(50000)
           b == h \o t1 \o t2 \o t3 \o t4 \o t5
<1>0. gain \in Nat /\ gain <= 4
  BY DEF GainSizes
<1>1. /\ s \in Seq(Byte) /\ Len(s) = 2 /\ s[1] = 66 /\ s[2] = 82
      /\ z \in Seq(Byte) /\ Len(z) = 2 /\ z[1] = 0 /\ z[2] = 0
  <2>1. 66 \in Byte /\ 82 \in Byte /\ 0 \in Byte
    BY ByteRange
  <2> QED
    BY <2>1 DEF START_BYTE_1, START_BYTE_2
<1>2. p \in Seq(Byte) /\ Len(p) = 2 /\ p[1] = 20 + gain /\ p[2] = 0
  <2>1. 20 + gain \in Byte /\ 0 \in Byte
    BY <1>0, ByteRange
  <2>2. p = <<20 + gain, 0>>
    BY FixedBytes
  <2> HIDE DEF p
  <2> QED
    BY <2>1, <2>2
<1>3. e \in Seq(Byte) /\ Len(e) = 2 /\ e[1] = 188 /\ e[2] = 4
  <2>1. 188 \in Byte /\ 4 \in Byte
    BY ByteRange
  <2> QED
    BY <2>1, FixedBytes
<1>4. /\ d \in Seq(Byte) /\ Len(d) = 4
      /\ d[1] + 256 * d[2] + 65536 * (d[3] + 256 * d[4]) = m[1]
  BY SonarAssumption, U32Bytes
<1>5. c \in Seq(Byte) /\ Len(c) = 2 /\ c[1] = m[2] /\ c[2] = 0
  <2>1. m[2] \in Nat /\ m[2] <= 100
    BY SonarAssumption
  <2>2. m[2] % 256 = m[2] /\ m[2] \div 256 = 0
    BY <2>1
  <2>3. c = <<m[2], 0>>
    BY <2>2 DEF U16
  <2>4. m[2] \in Byte /\ 0 \in Byte
    BY <2>1, ByteRange
  <2> HIDE DEF c
  <2> QED
    BY <2>3, <2>4
<1>6. 0 \in Byte /\ 1 \in Byte /\ 44 \in Byte
  BY ByteRange
<1>7. t5 \in Seq(Byte) /\ Len(t5) = gain /\ \A i \in 1 .. gain : t5[i] = 0
  BY <1>0, <1>6
<1>8. Body(m, gain) = b
  BY DEF Body
<1>9. /\ t1 \in Seq(Byte) /\ Len(t1) = 2 /\ t1[1] = 44 /\ t1[2] = 1
      /\ t2 \in Seq(Byte) /\ Len(t2) = 4 /\ t3 \in Seq(Byte) /\ Len(t3) = 4
      /\ t4 \in Seq(Byte) /\ Len(t4) = 4
      /\ \A i \in 1 .. 4 : t2[i] \in Values /\ t3[i] \in Values /\ t4[i] \in Values
  <2>1. t1 = <<44, 1>>
    BY FixedBytes
  <2>2. \A n \in {1, 300, 50000} : /\ U32(n) \in Seq(Byte) /\ Len(U32(n)) = 4
                                    /\ \A i \in 1 .. 4 : U32(n)[i] \in Values
    BY FixedBytes
  <2>3. /\ t2 \in Seq(Byte) /\ Len(t2) = 4 /\ \A i \in 1 .. 4 : t2[i] \in Values
    BY <2>2
  <2>4. /\ t3 \in Seq(Byte) /\ Len(t3) = 4 /\ \A i \in 1 .. 4 : t3[i] \in Values
    BY <2>2
  <2>5. /\ t4 \in Seq(Byte) /\ Len(t4) = 4 /\ \A i \in 1 .. 4 : t4[i] \in Values
    BY <2>2
  <2> HIDE DEF t1, t2, t3, t4
  <2>6. t1 \in Seq(Byte) /\ Len(t1) = 2 /\ t1[1] = 44 /\ t1[2] = 1
    BY <1>6, <2>1
  <2> QED
    BY <2>3, <2>4, <2>5, <2>6
<1> HIDE DEF s, p, e, z, d, c, t1, t2, t3, t4, t5
<1>10. h = s \o p \o e \o z \o d \o c
  OBVIOUS
<1>11. b = h \o t1 \o t2 \o t3 \o t4 \o t5
  OBVIOUS
<1> HIDE DEF h, b
<1>12. /\ h \in Seq(Byte) /\ Len(h) = 14
       /\ h[1] = s[1] /\ h[2] = s[2] /\ h[3] = p[1] /\ h[4] = p[2]
       /\ h[5] = e[1] /\ h[6] = e[2] /\ h[7] = z[1] /\ h[8] = z[2]
       /\ h[9] = d[1] /\ h[10] = d[2] /\ h[11] = d[3] /\ h[12] = d[4]
       /\ h[13] = c[1] /\ h[14] = c[2]
  <2>1. IsHead(h, s, p, e, z, d, c)
    BY <1>1, <1>2, <1>3, <1>4, <1>5, <1>10 DEF IsHead
  <2> QED
    BY <2>1, HeadBytes
<1>13. /\ b \in Seq(Byte) /\ Len(b) = 28 + gain /\ \A i \in 1 .. 14 : b[i] = h[i]
       /\ \A i \in 1 .. 2 : b[14 + i] = t1[i]
       /\ \A i \in 1 .. 4 : b[16 + i] = t2[i] /\ b[20 + i] = t3[i] /\ b[24 + i] = t4[i]
       /\ \A i \in 1 .. gain : b[28 + i] = t5[i]
  <2>1. IsBody(b, gain, h, t1, t2, t3, t4, t5)
    BY <1>7, <1>9, <1>11, <1>12 DEF IsBody
  <2>2. HasBody(b, gain, h, t1, t2, t3, t4, t5)
    BY <2>1, TailBytes
  <2> QED
    BY <2>2 DEF HasBody
<1>14. /\ b[1] = 66 /\ b[2] = 82 /\ b[3] = 20 + gain /\ b[4] = 0 /\ b[5] = 188 /\ b[6] = 4
       /\ b[7] = 0 /\ b[8] = 0 /\ b[13] = m[2] /\ b[14] = 0
       /\ b[9] = d[1] /\ b[10] = d[2] /\ b[11] = d[3] /\ b[12] = d[4]
  <2> DEFINE I == 1 .. 14
  <2>1. /\ 1 \in I /\ 2 \in I /\ 3 \in I /\ 4 \in I /\ 5 \in I /\ 6 \in I /\ 7 \in I
        /\ 8 \in I /\ 9 \in I /\ 10 \in I /\ 11 \in I /\ 12 \in I /\ 13 \in I /\ 14 \in I
    OBVIOUS
  <2>2. \A i \in I : b[i] = h[i]
    BY <1>13
  <2> HIDE DEF I
  <2>3. /\ b[1] = h[1] /\ b[2] = h[2] /\ b[3] = h[3] /\ b[4] = h[4] /\ b[5] = h[5]
        /\ b[6] = h[6] /\ b[7] = h[7] /\ b[8] = h[8] /\ b[9] = h[9] /\ b[10] = h[10]
        /\ b[11] = h[11] /\ b[12] = h[12] /\ b[13] = h[13] /\ b[14] = h[14]
    BY <2>1, <2>2
  <2> QED
    BY <1>1, <1>2, <1>3, <1>5, <1>12, <2>3
<1>15. At32(b, 8) = m[1]
  <2>1. At32(b, 8) = b[9] + 256 * b[10] + 65536 * (b[11] + 256 * b[12])
    BY AtDef
  <2> QED
    BY <1>4, <1>14, <2>1
<1>16. b[15] = 44 /\ b[16] = 1
  <2>1. 1 \in 1 .. 2 /\ 2 \in 1 .. 2 /\ 14 + 1 = 15 /\ 14 + 2 = 16
    OBVIOUS
  <2> QED
    BY <1>9, <1>13, <2>1
<1>17. ASSUME NEW i \in 17 .. 28 PROVE b[i] \in Values
  <2>1. \A j \in 1 .. 4 : b[16 + j] \in Values /\ b[20 + j] \in Values /\ b[24 + j] \in Values
    BY <1>9, <1>13
  <2>2. CASE i <= 20
    <3>1. i - 16 \in 1 .. 4 /\ 16 + (i - 16) = i
      BY <2>2
    <3> QED
      BY <2>1, <3>1
  <2>3. CASE 21 <= i /\ i <= 24
    <3>1. i - 20 \in 1 .. 4 /\ 20 + (i - 20) = i
      BY <2>3
    <3> QED
      BY <2>1, <3>1
  <2>4. CASE 25 <= i
    <3>1. i - 24 \in 1 .. 4 /\ 24 + (i - 24) = i
      BY <2>4
    <3> QED
      BY <2>1, <3>1
  <2> QED
    BY <2>2, <2>3, <2>4
<1>18. ASSUME NEW i \in 29 .. 28 + gain PROVE b[i] = 0
  <2>1. i - 28 \in 1 .. gain /\ 28 + (i - 28) = i
    BY <1>0
  <2> QED
    BY <1>7, <1>13, <2>1
<1> QED
  BY <1>8, <1>13, <1>14, <1>15, <1>16, <1>17, <1>18

\* The message is its body and the checksum of its body, which has a small high byte.
LEMMA MessageBytes ==
  ASSUME NEW m \in Measurements, NEW gain \in GainSizes
  PROVE  /\ Message(m, gain) \in Seq(Byte) /\ Len(Message(m, gain)) = 30 + gain
         /\ \A i \in 1 .. 28 + gain : Message(m, gain)[i] = Body(m, gain)[i]
         /\ Message(m, gain)[29 + gain] + 256 * Message(m, gain)[30 + gain]
              = Checksum(Body(m, gain), 28 + gain)
         /\ Message(m, gain)[30 + gain] <= 31
<1> DEFINE b == Body(m, gain)
           n == 28 + gain
           c == Checksum(b, n)
           w == Message(m, gain)
<1>0. gain \in Nat /\ gain <= 4 /\ n \in Nat /\ n <= 32
  BY DEF GainSizes
<1>1. b \in Seq(Byte) /\ Len(b) = n
  BY BodyBytes
<1>2. c \in Nat /\ c <= 8160
  <2> HIDE DEF b, n
  <2>1. \A i \in 1 .. n : b[i] \in Byte
    BY <1>1, Elements
  <2>2. c \in Nat /\ c <= 255 * n
    BY <1>0, <2>1, ChecksumRange
  <2> HIDE DEF c
  <2> QED
    BY <1>0, <2>2
<1>3. w = b \o U16(c)
  BY <1>1 DEF Message
<1> HIDE DEF b, c, w, n
<1>4. U16(c) \in Seq(Byte) /\ Len(U16(c)) = 2 /\ U16(c)[1] + 256 * U16(c)[2] = c
  BY <1>2, U16Bytes
<1>5. Joins(w, b, n, U16(c), 2)
  BY <1>1, <1>3, <1>4, Concat
<1>6. /\ w \in Seq(Byte) /\ Len(w) = n + 2 /\ \A i \in 1 .. n : w[i] = b[i]
      /\ w[n + 1] = U16(c)[1] /\ w[n + 2] = U16(c)[2]
  BY <1>5 DEF Joins
<1>7. U16(c)[2] <= 31
  <2>1. U16(c)[2] = c \div 256
    BY DEF U16
  <2> QED
    BY <1>2, <2>1
<1>8. n + 1 = 29 + gain /\ n + 2 = 30 + gain
  BY <1>0 DEF n
<1>9. /\ w \in Seq(Byte) /\ Len(w) = 30 + gain
      /\ \A i \in 1 .. n : w[i] = b[i]
      /\ w[29 + gain] + 256 * w[30 + gain] = c
      /\ w[30 + gain] <= 31
  BY <1>4, <1>6, <1>7, <1>8
<1> QED
  BY <1>9 DEF b, c, w, n
-----------------------------------------------------------------------------
(* What the checks ask for.                                                 *)

LEMMA Sizes ==
  /\ TOTAL_SIZE = 32 /\ HEADER_SIZE = 8 /\ PAYLOAD_SIZE = 22
  /\ START_BYTE_1 = 66 /\ START_BYTE_2 = 82 /\ MESSAGE_ID_DISTANCE = 1212
  /\ \A gain \in GainSizes : gain \in {2, 4} /\ MessageSize(gain) = 30 + gain
<1>1. \A gain \in {2, 4} : MessageSize(gain) = 30 + gain
  BY DEF MessageSize, PayloadSize, HEADER_SIZE
<1> QED
  BY <1>1 DEF TOTAL_SIZE, HEADER_SIZE, PAYLOAD_SIZE, START_BYTE_1, START_BYTE_2,
              MESSAGE_ID_DISTANCE, GainSizes

LEMMA ChecksumChecked ==
  ASSUME NEW b, IsDistance(b)
  PROVE  At16(b, 30) = Checksum(b, 30)
<1>1. HEADER_SIZE + PAYLOAD_SIZE = 30
  BY Sizes
<1> QED
  BY <1>1 DEF IsDistance

\* The header of a buffer that passes, and the range of its checksum.
HasHeader(b) ==
  /\ b[1] = 66 /\ b[2] = 82 /\ b[3] = 22 /\ b[4] = 0 /\ b[5] = 188 /\ b[6] = 4
  /\ 66 <= b[31] + 256 * b[32] /\ b[31] + 256 * b[32] <= 7650

LEMMA Accepted ==
  ASSUME NEW b, \A i \in 1 .. 32 : b[i] \in Byte, IsDistance(b)
  PROVE  HasHeader(b)
<1>1. b[1] = 66 /\ b[2] = 82 /\ At16(b, 2) = 22 /\ At16(b, 4) = 1212
  BY Sizes DEF IsDistance
<1>2. /\ b[3] \in Byte /\ b[4] \in Byte /\ b[5] \in Byte /\ b[6] \in Byte
      /\ \A i \in 1 .. 30 : b[i] \in Byte
  OBVIOUS
<1>3. /\ b[3] \in Int /\ 0 <= b[3] /\ b[3] <= 255 /\ b[4] \in Int /\ 0 <= b[4] /\ b[4] <= 255
      /\ b[5] \in Int /\ 0 <= b[5] /\ b[5] <= 255 /\ b[6] \in Int /\ 0 <= b[6] /\ b[6] <= 255
  BY <1>2, ByteRange
<1>4. b[3] + 256 * b[4] = 22 /\ b[5] + 256 * b[6] = 1212
  BY <1>1, AtDef
<1>5. b[3] = 22 /\ b[4] = 0 /\ b[5] = 188 /\ b[6] = 4
  BY <1>3, <1>4
<1> DEFINE c == Checksum(b, 30)
<1>6. c \in Nat /\ c <= 255 * 30 /\ c >= b[1]
  <2>1. 30 \in Nat /\ 1 <= 30 /\ 30 <= 200
    OBVIOUS
  <2> QED
    BY <1>2, <2>1, ChecksumRange, ChecksumAtLeast
<1>7. b[31] + 256 * b[32] = c
  BY ChecksumChecked, AtDef
<1> HIDE DEF c
<1> QED
  BY <1>1, <1>5, <1>6, <1>7 DEF HasHeader

LEMMA MessageOfTwo ==
  ASSUME NEW m \in Measurements, NEW gain \in GainSizes
  PROVE  gain = 2
           => /\ \A i \in 1 .. 30 : Message(m, gain)[i] = Body(m, gain)[i]
              /\ Message(m, gain)[31] + 256 * Message(m, gain)[32] = Checksum(Body(m, gain), 30)
              /\ Body(m, gain)[1] = 66 /\ Body(m, gain)[2] = 82
              /\ Body(m, gain)[3] = 22 /\ Body(m, gain)[4] = 0
              /\ Body(m, gain)[5] = 188 /\ Body(m, gain)[6] = 4
              /\ At32(Body(m, gain), 8) = m[1]
              /\ Body(m, gain)[13] = m[2] /\ Body(m, gain)[14] = 0
<1> DEFINE d == Body(m, gain)
           w == Message(m, gain)
<1>1. /\ \A i \in 1 .. 28 + gain : w[i] = d[i]
      /\ w[29 + gain] + 256 * w[30 + gain] = Checksum(d, 28 + gain)
  BY MessageBytes
<1>2. /\ d[1] = 66 /\ d[2] = 82 /\ d[3] = 20 + gain /\ d[4] = 0 /\ d[5] = 188 /\ d[6] = 4
      /\ At32(d, 8) = m[1] /\ d[13] = m[2] /\ d[14] = 0
  BY BodyBytes
<1> HIDE DEF d, w
<1>3. ASSUME gain = 2
      PROVE  /\ \A i \in 1 .. 30 : w[i] = d[i]
             /\ w[31] + 256 * w[32] = Checksum(d, 30) /\ d[3] = 22
  <2>1. 28 + gain = 30 /\ 29 + gain = 31 /\ 30 + gain = 32
    BY <1>3
  <2> QED
    BY <1>1, <1>2, <1>3, <2>1
<1> QED
  BY <1>2, <1>3 DEF d, w

\* A message of the size the code expects passes, and decodes to what was measured.
LEMMA WholeAccepted ==
  ASSUME NEW m \in Measurements, NEW gain \in GainSizes, gain = 2,
         NEW b, \A i \in 1 .. 32 : b[i] = Message(m, gain)[i]
  PROVE  IsDistance(b) /\ At32(b, 8) = m[1] /\ At16(b, 12) = m[2]
<1> DEFINE d == Body(m, gain)
           w == Message(m, gain)
<1>1. (\A i \in 1 .. 30 : w[i] = d[i]) /\ w[31] + 256 * w[32] = Checksum(d, 30)
  BY MessageOfTwo
<1>2. /\ d[1] = 66 /\ d[2] = 82 /\ d[3] = 22 /\ d[4] = 0 /\ d[5] = 188 /\ d[6] = 4
      /\ At32(d, 8) = m[1] /\ d[13] = m[2] /\ d[14] = 0
  BY MessageOfTwo
<1> HIDE DEF d, w
<1>3. \A i \in 1 .. 30 : b[i] = d[i]
  BY <1>1 DEF w
<1>4. /\ b[1] = 66 /\ b[2] = 82 /\ b[3] = 22 /\ b[4] = 0 /\ b[5] = 188 /\ b[6] = 4
      /\ b[13] = m[2] /\ b[14] = 0
      /\ b[9] = d[9] /\ b[10] = d[10] /\ b[11] = d[11] /\ b[12] = d[12]
  BY <1>2, <1>3
<1>5. b[31] = w[31] /\ b[32] = w[32]
  BY DEF w
<1>6. Checksum(b, 30) = Checksum(d, 30)
  <2>1. PICK n \in Nat : n = 30
    OBVIOUS
  <2>2. \A i \in 1 .. n : b[i] = d[i]
    BY <1>3, <2>1
  <2>3. Checksum(b, n) = Checksum(d, n)
    BY <2>2, ChecksumEqual
  <2> QED
    BY <2>1, <2>3
<1>7. At16(b, 30) = Checksum(b, 30)
  BY <1>1, <1>5, <1>6, AtDef
<1>8. At16(b, 2) = 22 /\ At16(b, 4) = 1212 /\ At16(b, 12) = m[2]
  <2>1. m[2] \in Nat
    BY SonarAssumption
  <2> QED
    BY <1>4, <2>1, AtDef
<1>9. At32(b, 8) = m[1]
  BY <1>2, <1>4, AtDef
<1>10. IsDistance(b)
  <2>1. HEADER_SIZE + PAYLOAD_SIZE = 30
    BY Sizes
  <2> QED
    BY <1>4, <1>7, <1>8, <2>1, Sizes DEF IsDistance
<1> QED
  BY <1>8, <1>9, <1>10

\* With one byte changed it does not.
LEMMA ChangedRejected ==
  ASSUME NEW m \in Measurements, NEW gain \in GainSizes, gain = 2, NEW b, NEW k \in 1 .. 32,
         \A i \in 1 .. 32 : b[i] \in Byte,
         \A i \in 1 .. 32 : i # k => b[i] = Message(m, gain)[i],
         b[k] # Message(m, gain)[k]
  PROVE  ~IsDistance(b)
<1> DEFINE w == Message(m, gain)
<1>1. IsDistance(w)
  BY WholeAccepted
<1>2. At16(w, 30) = Checksum(w, 30)
  BY <1>1, ChecksumChecked
<1>3. w \in Seq(Byte) /\ Len(w) = 32
  <2>1. w \in Seq(Byte) /\ Len(w) = 30 + gain
    BY MessageBytes, ZenonT(30)
  <2> HIDE DEF w
  <2> QED
    BY <2>1
<1> HIDE DEF w
<1>4. \A i \in 1 .. 32 : w[i] \in Byte
  BY <1>3, Elements
<1>5. CASE k \in 1 .. 30
  <2>1. At16(b, 30) = At16(w, 30)
    BY <1>5, AtDef DEF w
  <2>2. Checksum(b, 30) # Checksum(w, 30)
    <3>1. /\ \A i \in 1 .. 30 : b[i] \in Byte /\ w[i] \in Byte
          /\ \A i \in 1 .. 30 : i # k => b[i] = w[i]
          /\ b[k] # w[k]
      BY <1>5, <1>4 DEF w
    <3> QED
      BY <1>5, <3>1, ChecksumDiffers
  <2> QED
    BY <1>2, <2>1, <2>2, ChecksumChecked
<1>6. CASE k \in {31, 32}
  <2>1. Checksum(b, 30) = Checksum(w, 30)
    <3>1. \A i \in 1 .. 30 : b[i] = w[i]
      BY <1>6 DEF w
    <3> QED
      BY <3>1, ChecksumEqual
  <2>2. At16(b, 30) # At16(w, 30)
    <3>1. /\ b[31] \in Byte /\ b[32] \in Byte /\ w[31] \in Byte /\ w[32] \in Byte
          /\ \/ b[31] # w[31] /\ b[32] = w[32]
             \/ b[31] = w[31] /\ b[32] # w[32]
      BY <1>6, <1>4 DEF w
    <3>2. At16(b, 30) = b[31] + 256 * b[32] /\ At16(w, 30) = w[31] + 256 * w[32]
      BY AtDef
    <3>3. /\ b[31] \in Int /\ 0 <= b[31] /\ b[31] <= 255 /\ b[32] \in Int
          /\ w[31] \in Int /\ 0 <= w[31] /\ w[31] <= 255 /\ w[32] \in Int
      BY <3>1, ByteRange
    <3>4. PICK x1 \in Int, x2 \in Int, y1 \in Int, y2 \in Int :
               x1 = b[31] /\ x2 = b[32] /\ y1 = w[31] /\ y2 = w[32]
      BY <3>3
    <3>5. b[31] + 256 * b[32] # w[31] + 256 * w[32]
      <4>1. (x1 # y1 /\ x2 = y2) \/ (x1 = y1 /\ x2 # y2)
        BY <3>1, <3>4
      <4>2. x1 + 256 * x2 # y1 + 256 * y2
        BY <4>1
      <4> QED
        BY <3>4, <4>2
    <3> QED
      BY <3>2, <3>5, Zenon
  <2> QED
    BY <1>2, <2>1, <2>2, ChecksumChecked
<1> QED
  BY <1>5, <1>6
-----------------------------------------------------------------------------
(* What is known of the byte at each place of a message, and what the next  *)
(* bytes are to a buffer that starts anywhere in one.                       *)

Fits(x, q, gain) ==
  /\ x \in Byte
  /\ q = 1 => x = 66
  /\ q = 2 => x = 82
  /\ q = 3 => x = 20 + gain
  /\ q = 4 \/ q = 7 \/ q = 8 \/ q = 14 => x = 0
  /\ q = 5 => x = 188
  /\ q = 6 => x = 4
  /\ q = 13 => x <= 100
  /\ q = 15 => x = 44
  /\ q = 16 => x = 1
  /\ 17 <= q /\ q <= 28 => x \in Values
  /\ 29 <= q /\ q <= 28 + gain => x = 0
  /\ q = 30 + gain => x <= 31

LEMMA FitsMessage ==
  ASSUME NEW m \in Measurements, NEW gain \in GainSizes,
         NEW q \in Nat, 1 <= q, q <= 30 + gain
  PROVE  Fits(Message(m, gain)[q], q, gain)
<1> DEFINE d == Body(m, gain)
           w == Message(m, gain)
           n == 28 + gain
<1>1. /\ w \in Seq(Byte) /\ Len(w) = 30 + gain /\ \A i \in 1 .. n : w[i] = d[i]
      /\ w[30 + gain] <= 31
  BY MessageBytes
<1>2. /\ d[1] = 66 /\ d[2] = 82 /\ d[3] = 20 + gain /\ d[4] = 0 /\ d[5] = 188 /\ d[6] = 4
      /\ d[7] = 0 /\ d[8] = 0 /\ d[13] = m[2] /\ d[14] = 0 /\ d[15] = 44 /\ d[16] = 1
      /\ \A i \in 17 .. 28 : d[i] \in Values
      /\ \A i \in 29 .. n : d[i] = 0
  BY BodyBytes
<1>3. gain \in Nat /\ 2 <= gain
  BY DEF GainSizes
<1>4. m[2] <= 100
  BY SonarAssumption
<1> HIDE DEF d, w
<1>5. q \in 1 .. Len(w) /\ w[q] \in Byte
  <2>1. q \in 1 .. Len(w)
    BY <1>1, <1>3
  <2> QED
    BY <1>1, <2>1, Elements
<1>6. PICK x : x = w[q]
  OBVIOUS
<1>7. q <= n => x = d[q]
  <2>1. q <= n => q \in 1 .. n
    BY <1>3
  <2> QED
    BY <1>1, <1>6, <2>1
<1>9. /\ q = 1 => x = 66
      /\ q = 2 => x = 82
      /\ q = 3 => x = 20 + gain
      /\ q = 4 \/ q = 7 \/ q = 8 \/ q = 14 => x = 0
  BY <1>2, <1>3, <1>7
<1>10. /\ q = 5 => x = 188
       /\ q = 6 => x = 4
       /\ q = 13 => x <= 100
       /\ q = 15 => x = 44
       /\ q = 16 => x = 1
  BY <1>2, <1>3, <1>4, <1>7
<1>11. ASSUME 17 <= q, q <= 28 PROVE x \in Values
  <2>1. q \in 17 .. 28 /\ q <= n
    BY <1>3, <1>11
  <2>2. d[q] \in Values
    BY <1>2, <2>1
  <2> QED
    BY <1>7, <2>1, <2>2
<1>12. ASSUME 29 <= q, q <= 28 + gain PROVE x = 0
  <2>1. q \in 29 .. n /\ q <= n
    BY <1>3, <1>12
  <2>2. d[q] = 0
    BY <1>2, <2>1
  <2> QED
    BY <1>7, <2>1, <2>2
<1>13. q = 30 + gain => x <= 31
  BY <1>1, <1>6
<1>14. Fits(x, q, gain)
  BY <1>5, <1>6, <1>9, <1>10, <1>11, <1>12, <1>13 DEF Fits
<1> QED
  BY <1>6, <1>14 DEF w

\* Byte n, counted from the start of some message on, is byte q of its message.
IsAt(q, n, gain) ==
  /\ q \in Nat /\ 1 <= q /\ q <= 30 + gain
  /\ n = q \/ n = q + (30 + gain) \/ n = q + 2 * (30 + gain)

FitsAt(x, n, gain) == \A q \in Nat : IsAt(q, n, gain) => Fits(x, q, gain)

\* The line moves on from byte p to byte p2.
Advances(p, p2, gain) ==
  \/ p < 30 + gain /\ p2 = p + 1
  \/ p = 30 + gain /\ p2 = 1

LEMMA IsAtNext ==
  ASSUME NEW gain \in GainSizes, NEW n \in Nat, n <= 70, NEW p, NEW p2,
         IsAt(p, n, gain), Advances(p, p2, gain)
  PROVE  IsAt(p2, n + 1, gain)
<1>1. gain = 2 \/ gain = 4
  BY DEF GainSizes
<1>2. CASE gain = 2
  BY <1>2 DEF IsAt, Advances
<1>3. CASE gain = 4
  BY <1>3 DEF IsAt, Advances
<1> QED
  BY <1>1, <1>2, <1>3

LEMMA FitsThere ==
  ASSUME NEW gain \in GainSizes, NEW n \in Nat, NEW p, NEW x, IsAt(p, n, gain), Fits(x, p, gain)
  PROVE  FitsAt(x, n, gain)
<1> SUFFICES ASSUME NEW q \in Nat, IsAt(q, n, gain) PROVE Fits(x, q, gain)
  BY DEF FitsAt
<1>1. q = p
  <2>1. gain = 2 \/ gain = 4
    BY DEF GainSizes
  <2>2. CASE gain = 2
    BY <2>2 DEF IsAt
  <2>3. CASE gain = 4
    BY <2>3 DEF IsAt
  <2> QED
    BY <2>1, <2>2, <2>3
<1> QED
  BY <1>1

\* The line's bytes behind the start of a buffer, when the one after byte j was lost.
Off(i, j) == IF i <= j THEN i - 1 ELSE i

\* The buffer started with byte s of a message, byte j of it was the last before the
\* lost one, byte k was changed, and the line stands at byte p.
Stream(s, j, k, gain, p, b) ==
  /\ 1 <= s /\ s <= 30 + gain
  /\ IsAt(p, s + Off(Len(b) + 1, j), gain)
  /\ \A i \in 1 .. Len(b) : i # k => FitsAt(b[i], s + Off(i, j), gain)

LEMMA AppendByte ==
  ASSUME NEW s \in Seq(Byte), NEW x \in Byte
  PROVE  /\ s \o <<x>> \in Seq(Byte) /\ Len(s \o <<x>>) = Len(s) + 1
         /\ \A i \in 1 .. Len(s) : (s \o <<x>>)[i] = s[i]
         /\ (s \o <<x>>)[Len(s) + 1] = x
<1> DEFINE r == s \o <<x>>
           t == <<x>>
           n == Len(s)
<1>1. t \in Seq(Byte) /\ Len(t) = 1 /\ t[1] = x /\ n \in Nat
  OBVIOUS
<1> HIDE DEF t
<1>2. Joins(r, s, n, t, 1)
  BY <1>1, Concat DEF t
<1> HIDE DEF r, n
<1>3. /\ r \in Seq(Byte) /\ Len(r) = n + 1 /\ r[n + 1] = x
      /\ \A i \in 1 .. n : r[i] = s[i]
  BY <1>1, <1>2 DEF Joins
<1> QED
  BY <1>3 DEF r, n

\* A byte arrives, the line's or, as byte k, another.
LEMMA StreamByte ==
  ASSUME NEW gain \in GainSizes, NEW s \in Nat, NEW j \in Nat, NEW k \in Nat,
         NEW b \in Seq(Byte), Len(b) < 32, j <= Len(b) \/ j = 33,
         NEW p, NEW p2, NEW x \in Byte, Advances(p, p2, gain),
         Stream(s, j, k, gain, p, b), Fits(x, p, gain) \/ k = Len(b) + 1
  PROVE  Stream(s, j, k, gain, p2, b \o <<x>>)
<1> DEFINE c == b \o <<x>>
<1>1. PICK n \in Nat : n = Len(b)
  OBVIOUS
<1>2. /\ Len(c) = n + 1
      /\ \A i \in 1 .. n : c[i] = b[i]
      /\ c[n + 1] = x
  BY <1>1, AppendByte
<1> HIDE DEF c
<1>3. /\ 1 <= s /\ s <= 30 + gain /\ IsAt(p, s + Off(n + 1, j), gain)
      /\ \A i \in 1 .. n : i # k => FitsAt(b[i], s + Off(i, j), gain)
  BY <1>1 DEF Stream
<1> DEFINE a == s + Off(n + 1, j)
<1>4. a \in Nat /\ a <= 70 /\ a + 1 = s + Off(n + 2, j)
  <2>1. gain \in Nat /\ gain <= 4
    BY DEF GainSizes
  <2> QED
    BY <1>1, <1>3, <2>1 DEF Off
<1> HIDE DEF a
<1>5. IsAt(p, a, gain)
  BY <1>3 DEF a
<1>6. IsAt(p2, a + 1, gain)
  BY <1>4, <1>5, IsAtNext
<1>7. ASSUME NEW i \in 1 .. n + 1, i # k PROVE FitsAt(c[i], s + Off(i, j), gain)
  <2>1. CASE i \in 1 .. n
    BY <1>2, <1>3, <1>7, <2>1
  <2>2. CASE i = n + 1
    <3>1. Fits(x, p, gain)
      BY <1>1, <1>7, <2>2
    <3>2. FitsAt(x, a, gain)
      BY <1>4, <1>5, <3>1, FitsThere
    <3> QED
      BY <1>2, <2>2, <3>2 DEF a
  <2> QED
    BY <2>1, <2>2
<1>8. IsAt(p2, s + Off(Len(c) + 1, j), gain)
  <2>1. Len(c) + 1 = n + 2
    BY <1>2
  <2> QED
    BY <1>4, <1>6, <2>1
<1>9. Stream(s, j, k, gain, p2, c)
  BY <1>2, <1>3, <1>7, <1>8 DEF Stream
<1> QED
  BY <1>9 DEF c

LEMMA ZeroValue == 0 \in Values
BY DEF Values

LEMMA FitsValue == 66 \notin Values /\ 82 \notin Values
BY DEF Values

\* No buffer passes that starts elsewhere, nor one of the longer messages: two of its
\* bytes are not those of a header, or one and the checksum are not.
LEMMA StreamRejected ==
  ASSUME NEW gain \in GainSizes, NEW s \in Nat, NEW k \in Nat, NEW p,
         NEW b \in Seq(Byte), Len(b) = 32,
         Stream(s, 33, k, gain, p, b), s # 1 \/ gain = 4
  PROVE  ~IsDistance(b)
<1> SUFFICES ASSUME IsDistance(b) PROVE FALSE
  OBVIOUS
<1>1. \A i \in 1 .. 32 : b[i] \in Byte
  BY Elements
<1>2. /\ b[1] = 66 /\ b[2] = 82 /\ b[3] = 22 /\ b[4] = 0 /\ b[5] = 188 /\ b[6] = 4
      /\ 66 <= b[31] + 256 * b[32] /\ b[31] + 256 * b[32] <= 7650
  <2>1. HasHeader(b)
    BY <1>1, Accepted
  <2> QED
    BY <2>1 DEF HasHeader
<1>3. gain = 2 \/ gain = 4
  BY DEF GainSizes
<1>4. 1 <= s /\ s <= 30 + gain
  BY DEF Stream
<1>5. ASSUME NEW i \in Nat, 1 <= i, i <= 32, i # k, NEW q \in Nat, 1 <= q, q <= 30 + gain,
             s + i = q + 1 \/ s + i = q + 1 + (30 + gain)
      PROVE  Fits(b[i], q, gain)
  <2>1. FitsAt(b[i], s + Off(i, 33), gain)
    <3>1. i \in 1 .. Len(b)
      BY <1>5
    <3> QED
      BY <1>5, <3>1 DEF Stream
  <2>2. IsAt(q, s + Off(i, 33), gain)
    BY <1>3, <1>4, <1>5, SMTT(30) DEF IsAt, Off
  <2> QED
    BY <2>1, <2>2 DEF FitsAt
<1>6. CASE 2 <= s /\ s <= 7
  <2>1. k # 1 => Fits(b[1], s, gain)
    BY <1>3, <1>4, <1>5, <1>6
  <2>2. k # 2 => Fits(b[2], s + 1, gain)
    BY <1>3, <1>4, <1>5, <1>6
  <2> QED
    BY <1>2, <1>3, <1>4, <1>6, <2>1, <2>2, FitsValue, SMTT(30) DEF Fits
<1>7. CASE s = 8
  <2>1. k # 1 => Fits(b[1], s, gain)
    BY <1>3, <1>4, <1>5, <1>7
  <2>2. k # 31 => Fits(b[31], 8 - gain, gain)
    <3>1. 8 - gain \in Nat /\ 1 <= 8 - gain /\ 8 + 31 = 8 - gain + 1 + (30 + gain)
      BY <1>3
    <3> QED
      BY <1>3, <1>5, <1>7, <3>1
  <2>3. k # 32 => Fits(b[32], 9 - gain, gain)
    <3>1. 9 - gain \in Nat /\ 1 <= 9 - gain /\ 8 + 32 = 9 - gain + 1 + (30 + gain)
      BY <1>3
    <3> QED
      BY <1>3, <1>5, <1>7, <3>1
  <2>4. k = 1
    BY <1>2, <1>7, <2>1 DEF Fits
  <2>5. CASE gain = 2
    BY <1>2, <2>2, <2>3, <2>4, <2>5 DEF Fits
  <2>6. CASE gain = 4
    BY <1>2, <2>2, <2>3, <2>4, <2>6 DEF Fits
  <2> QED
    BY <1>3, <2>5, <2>6
<1>8. CASE 9 <= s /\ s <= 11
  <2>1. k # 5 => Fits(b[5], s + 4, gain)
    BY <1>3, <1>4, <1>5, <1>8
  <2>2. k # 6 => Fits(b[6], s + 5, gain)
    BY <1>3, <1>4, <1>5, <1>8
  <2> QED
    BY <1>2, <1>3, <1>4, <1>8, <2>1, <2>2, FitsValue DEF Fits
<1>9. CASE s = 12
  <2>1. k # 3 => Fits(b[3], s + 2, gain)
    BY <1>3, <1>4, <1>5, <1>9
  <2>2. k # 4 => Fits(b[4], s + 3, gain)
    BY <1>3, <1>4, <1>5, <1>9
  <2> QED
    BY <1>2, <1>3, <1>4, <1>9, <2>1, <2>2, FitsValue DEF Fits
<1>10. CASE s = 13
  <2>1. k # 2 => Fits(b[2], s + 1, gain)
    BY <1>3, <1>4, <1>5, <1>10
  <2>2. k # 3 => Fits(b[3], s + 2, gain)
    BY <1>3, <1>4, <1>5, <1>10
  <2> QED
    BY <1>2, <1>3, <1>4, <1>10, <2>1, <2>2, FitsValue DEF Fits
<1>11. CASE 14 <= s /\ s <= 16
  <2>1. k # 1 => Fits(b[1], s, gain)
    BY <1>3, <1>4, <1>5, <1>11
  <2>2. k # 2 => Fits(b[2], s + 1, gain)
    BY <1>3, <1>4, <1>5, <1>11
  <2> QED
    BY <1>2, <1>3, <1>4, <1>11, <2>1, <2>2, FitsValue DEF Fits
<1>12. CASE 17 <= s /\ s <= 27
  <2>1. k # 1 => Fits(b[1], s, gain)
    BY <1>3, <1>4, <1>5, <1>12
  <2>2. k # 2 => Fits(b[2], s + 1, gain)
    BY <1>3, <1>4, <1>5, <1>12
  <2>3. k # 1 => b[1] \in Values
    BY <1>12, <2>1 DEF Fits
  <2>4. k # 2 => b[2] \in Values
    BY <1>12, <2>2 DEF Fits
  <2>5. b[1] \notin Values /\ b[2] \notin Values
    BY <1>2, FitsValue
  <2>6. k # 1 \/ k # 2
    OBVIOUS
  <2> QED
    BY <2>3, <2>4, <2>5, <2>6
<1>13. CASE 28 <= s /\ s <= 27 + gain
  <2>1. k # 1 => Fits(b[1], s, gain)
    BY <1>3, <1>4, <1>5, <1>13
  <2>2. k # 2 => Fits(b[2], s + 1, gain)
    BY <1>3, <1>4, <1>5, <1>13
  <2>3. k # 1 => b[1] \in Values
    BY <1>3, <1>13, <2>1, ZeroValue DEF Fits
  <2>4. k # 2 => b[2] \in Values
    BY <1>3, <1>13, <2>2, ZeroValue DEF Fits
  <2>5. b[1] \notin Values /\ b[2] \notin Values
    BY <1>2, FitsValue
  <2>6. k # 1 \/ k # 2
    OBVIOUS
  <2> QED
    BY <2>3, <2>4, <2>5, <2>6
<1>14. CASE s = 28 + gain
  <2>1. k # 1 => Fits(b[1], s, gain)
    BY <1>3, <1>4, <1>5, <1>14
  <2>2. k # 4 => Fits(b[4], 1, gain)
    BY <1>3, <1>4, <1>5, <1>14
  <2>3. k # 1 => b[1] = 0
    BY <1>3, <1>14, <2>1 DEF Fits
  <2>4. k # 4 => b[4] = 66
    BY <2>2 DEF Fits
  <2> QED
    BY <1>2, <2>3, <2>4
<1>15. CASE s = 29 + gain
  <2>1. k # 3 => Fits(b[3], 1, gain)
    BY <1>3, <1>4, <1>5, <1>15
  <2>2. k # 4 => Fits(b[4], 2, gain)
    BY <1>3, <1>4, <1>5, <1>15
  <2> QED
    BY <1>2, <1>3, <1>4, <1>15, <2>1, <2>2, FitsValue DEF Fits
<1>16. CASE s = 30 + gain
  <2>1. k # 1 => Fits(b[1], s, gain)
    BY <1>3, <1>4, <1>5, <1>16
  <2>2. k # 2 => Fits(b[2], 1, gain)
    BY <1>3, <1>4, <1>5, <1>16
  <2> QED
    BY <1>2, <1>3, <1>4, <1>16, <2>1, <2>2, FitsValue DEF Fits
<1>17. CASE s = 1
  <2>1. gain = 4
    BY <1>17
  <2>2. k # 3 => Fits(b[3], 3, gain)
    BY <1>3, <1>4, <1>5, <1>17
  <2>3. k # 31 => Fits(b[31], 31, gain)
    BY <1>3, <1>4, <1>5, <1>17, <2>1
  <2>4. k # 32 => Fits(b[32], 32, gain)
    BY <1>3, <1>4, <1>5, <1>17, <2>1
  <2>5. k = 3
    BY <1>2, <2>1, <2>2 DEF Fits
  <2> QED
    BY <1>2, <2>1, <2>3, <2>4, <2>5 DEF Fits
<1> QED
  BY <1>3, <1>4, <1>6, <1>7, <1>8, <1>9, <1>10, <1>11, <1>12, <1>13, <1>14, <1>15, <1>16, <1>17

\* Nor one with a byte lost, wherever it started: one of its bytes tells.
LEMMA ShortRejected ==
  ASSUME NEW gain \in GainSizes, NEW s \in Nat, NEW j \in Nat, 1 <= j, j <= 31, NEW p,
         NEW b \in Seq(Byte), Len(b) = 32,
         Stream(s, j, 0, gain, p, b)
  PROVE  ~IsDistance(b)
<1> SUFFICES ASSUME IsDistance(b) PROVE FALSE
  OBVIOUS
<1>1. \A i \in 1 .. 32 : b[i] \in Byte
  BY Elements
<1>2. /\ b[1] = 66 /\ b[2] = 82 /\ b[3] = 22 /\ b[4] = 0 /\ b[5] = 188 /\ b[6] = 4
      /\ 66 <= b[31] + 256 * b[32] /\ b[31] + 256 * b[32] <= 7650
  <2>1. HasHeader(b)
    BY <1>1, Accepted
  <2> QED
    BY <2>1 DEF HasHeader
<1>3. gain = 2 \/ gain = 4
  BY DEF GainSizes
<1>4. 1 <= s /\ s <= 30 + gain
  BY DEF Stream
<1>5. ASSUME NEW i \in Nat, 1 <= i, i <= 32, NEW q \in Nat, 1 <= q, q <= 30 + gain,
             IF i <= j THEN s + i = q + 1 \/ s + i = q + 1 + (30 + gain)
                       ELSE s + i = q \/ s + i = q + (30 + gain)
      PROVE  Fits(b[i], q, gain)
  <2>1. FitsAt(b[i], s + Off(i, j), gain)
    <3>1. i \in 1 .. Len(b) /\ i # 0
      BY <1>5
    <3> QED
      BY <3>1 DEF Stream
  <2>2. IsAt(q, s + Off(i, j), gain)
    BY <1>3, <1>4, <1>5 DEF IsAt, Off
  <2> QED
    BY <2>1, <2>2 DEF FitsAt
<1>6. CASE (2 <= s /\ s <= 8) \/ (14 <= s /\ s <= 16)
  <2>1. Fits(b[1], s, gain)
    BY <1>3, <1>4, <1>5, <1>6
  <2> QED
    BY <1>2, <1>3, <1>4, <1>6, <2>1, FitsValue DEF Fits
<1>7. CASE 17 <= s /\ s <= 28
  <2>1. Fits(b[1], s, gain)
    BY <1>3, <1>4, <1>5, <1>7
  <2> QED
    BY <1>2, <1>3, <1>4, <1>7, <2>1, FitsValue DEF Fits
<1>8. CASE (29 <= s /\ s <= 28 + gain) \/ s = 30 + gain
  <2>1. Fits(b[1], s, gain)
    BY <1>3, <1>4, <1>5, <1>8
  <2> QED
    BY <1>2, <1>3, <1>4, <1>8, <2>1, FitsValue DEF Fits
<1>9. CASE 9 <= s /\ s <= 11
  <2>1. \/ Fits(b[5], s + 4, gain)
        \/ Fits(b[5], s + 5, gain)
    <3>1. 5 <= j => Fits(b[5], s + 4, gain)
      BY <1>3, <1>4, <1>5, <1>9
    <3>2. ~(5 <= j) => Fits(b[5], s + 5, gain)
      BY <1>3, <1>4, <1>5, <1>9
    <3> QED
      BY <3>1, <3>2
  <2> QED
    BY <1>2, <1>3, <1>4, <1>9, <2>1, FitsValue DEF Fits
<1>10. CASE s = 12
  <2>1. \/ Fits(b[3], s + 2, gain)
        \/ Fits(b[3], s + 3, gain)
    <3>1. 3 <= j => Fits(b[3], s + 2, gain)
      BY <1>3, <1>4, <1>5, <1>10
    <3>2. ~(3 <= j) => Fits(b[3], s + 3, gain)
      BY <1>3, <1>4, <1>5, <1>10
    <3> QED
      BY <3>1, <3>2
  <2> QED
    BY <1>2, <1>3, <1>4, <1>10, <2>1, FitsValue DEF Fits
<1>11. CASE s = 13
  <2>1. \/ Fits(b[2], s + 1, gain)
        \/ Fits(b[2], s + 2, gain)
    <3>1. 2 <= j => Fits(b[2], s + 1, gain)
      BY <1>3, <1>4, <1>5, <1>11
    <3>2. ~(2 <= j) => Fits(b[2], s + 2, gain)
      BY <1>3, <1>4, <1>5, <1>11
    <3> QED
      BY <3>1, <3>2
  <2> QED
    BY <1>2, <1>3, <1>4, <1>11, <2>1, FitsValue DEF Fits
<1>12. CASE s = 29 + gain
  <2>1. \/ Fits(b[3], 1, gain)
        \/ Fits(b[3], 2, gain)
    <3>1. 3 <= j => Fits(b[3], 1, gain)
      BY <1>3, <1>4, <1>5, <1>12
    <3>2. ~(3 <= j) => Fits(b[3], 2, gain)
      BY <1>3, <1>4, <1>5, <1>12
    <3> QED
      BY <3>1, <3>2
  <2> QED
    BY <1>2, <1>3, <1>4, <1>12, <2>1, FitsValue DEF Fits
<1>13. CASE s = 1 /\ gain = 4
  <2>1. \/ Fits(b[3], 3, gain)
        \/ Fits(b[3], 4, gain)
    <3>1. 3 <= j => Fits(b[3], 3, gain)
      BY <1>3, <1>4, <1>5, <1>13
    <3>2. ~(3 <= j) => Fits(b[3], 4, gain)
      BY <1>3, <1>4, <1>5, <1>13
    <3> QED
      BY <3>1, <3>2
  <2> QED
    BY <1>2, <1>3, <1>4, <1>13, <2>1, FitsValue DEF Fits
<1>14. CASE s = 1 /\ gain = 2
  <2>1. Fits(b[32], 1, gain)
    BY <1>3, <1>4, <1>5, <1>14
  <2>2. b[31] \in Int /\ 0 <= b[31]
    BY <1>1, ByteRange
  <2> QED
    BY <1>2, <2>1, <2>2 DEF Fits
<1> QED
  BY <1>3, <1>4, <1>6, <1>7, <1>8, <1>9, <1>10, <1>11, <1>12, <1>13, <1>14
-----------------------------------------------------------------------------
(* The invariant.  With one byte lost or changed at most, the buffer holds  *)
(* the first bytes of one message of the expected size with no more than    *)
(* byte k changed; or bytes of the line from elsewhere on, with no more     *)
(* than byte k changed; or bytes from anywhere on without the one after     *)
(* byte j.                                                                  *)

TypeInv ==
  /\ gainSize \in GainSizes /\ aligned \in BOOLEAN
  /\ measured \in Measurements /\ faults \in Nat
  /\ position \in Nat /\ 1 <= position /\ position <= 30 + gainSize
  /\ buffer_ \in Seq(Byte) /\ Len(buffer_) <= 32
  /\ ioPc \in {"none", "run", "read"} => Len(buffer_) \in {0, 32}

\* The first bytes of a message of the expected size.
Holds(m, k, b) == \A i \in 1 .. Len(b) : i # k => b[i] = Message(m, gainSize)[i]

Whole ==
  /\ gainSize = 2 /\ position = IF Len(buffer_) = 32 THEN 1 ELSE Len(buffer_) + 1
  /\ faults = 0 => aligned
  /\ \E m \in Measurements, k \in Nat :
       /\ Len(buffer_) < 32 => m = measured
       /\ faults = 0 => k = 0
       /\ Holds(m, k, buffer_)

Across ==
  /\ faults = 0 => ~(aligned /\ gainSize = 2)
  /\ \E s \in Nat, k \in Nat :
       /\ s # 1 \/ gainSize = 4
       /\ faults = 0 => k = 0
       /\ Stream(s, 33, k, gainSize, position, buffer_)

Short ==
  /\ faults = 1
  /\ \E s \in Nat, j \in Nat :
       /\ 1 <= j /\ j <= 31 /\ j <= Len(buffer_)
       /\ Stream(s, j, 0, gainSize, position, buffer_)

LineInv == Whole \/ Across \/ Short

Inv == TypeInv /\ (faults <= 1 => LineInv /\ PublishedWasMeasured)

LEMMA Length ==
  ASSUME TypeInv
  PROVE  Len(buffer_) \in Nat /\ Len(buffer_) <= 32
<1>1. \A s \in Seq(Byte) : Len(s) \in Nat
  OBVIOUS
<1> QED
  BY <1>1 DEF TypeInv

\* The line where a buffer is empty.
Empty == Len(buffer_) = 0
Opened == faults = 0 => (gainSize = 2 /\ position = 1 <=> aligned /\ gainSize = 2)

LEMMA Fresh == TypeInv /\ Empty /\ Opened => LineInv
<1> SUFFICES ASSUME TypeInv, Len(buffer_) = 0, Opened PROVE LineInv
  BY DEF Empty
<1> USE DEF Opened
<1>1. gainSize = 2 \/ gainSize = 4
  BY DEF TypeInv, GainSizes
<1>2. CASE gainSize = 2 /\ position = 1
  <2>1. measured \in Measurements /\ 0 \in Nat /\ Holds(measured, 0, buffer_)
    BY DEF TypeInv, Holds
  <2>2. faults = 0 => aligned
    BY <1>2
  <2>3. position = IF Len(buffer_) = 32 THEN 1 ELSE Len(buffer_) + 1
    BY <1>2
  <2>4. Whole
    BY <1>2, <2>1, <2>2, <2>3 DEF Whole
  <2> QED
    BY <2>4 DEF LineInv
<1>3. CASE ~(gainSize = 2 /\ position = 1)
  <2>1. position \in Nat /\ 0 \in Nat /\ (position # 1 \/ gainSize = 4)
    BY <1>1, <1>3 DEF TypeInv
  <2>2. Stream(position, 33, 0, gainSize, position, buffer_)
    <3>1. position + Off(Len(buffer_) + 1, 33) = position
      BY <2>1 DEF Off
    <3>2. IsAt(position, position, gainSize)
      BY DEF TypeInv, IsAt
    <3> QED
      BY <3>1, <3>2 DEF Stream, TypeInv
  <2>3. faults = 0 => ~(aligned /\ gainSize = 2)
    BY <1>3
  <2>4. Across
    BY <2>1, <2>2, <2>3 DEF Across
  <2> QED
    BY <2>4 DEF LineInv
<1> QED
  BY <1>2, <1>3

\* Where the line stands after its next byte.
LEMMA PositionStep ==
  ASSUME TypeInv, NextByte
  PROVE  /\ Advances(position, position', gainSize)
         /\ position < 30 + gainSize => position' = position + 1 /\ measured' = measured
         /\ position = 30 + gainSize => position' = 1
         /\ measured' \in Measurements
         /\ position' \in Nat /\ 1 <= position' /\ position' <= 30 + gainSize
<1>1. MessageSize(gainSize) = 30 + gainSize
  BY Sizes DEF TypeInv
<1>2. \/ position < 30 + gainSize /\ position' = position + 1 /\ measured' = measured
      \/ position = 30 + gainSize /\ position' = 1 /\ measured' \in Measurements
  BY <1>1 DEF NextByte
<1>3. /\ measured \in Measurements /\ position \in Nat /\ 1 <= position
      /\ position <= 30 + gainSize /\ (gainSize = 2 \/ gainSize = 4)
  BY DEF TypeInv, GainSizes
<1> QED
  BY <1>2, <1>3 DEF Advances

\* The bytes of the line.
LEMMA SentByte ==
  ASSUME TypeInv
  PROVE  /\ Sent = Message(measured, gainSize)[position]
         /\ Fits(Sent, position, gainSize) /\ Sent \in Byte
<1>1. Sent = Message(measured, gainSize)[position]
  BY DEF Sent, Messages, TypeInv
<1>2. Fits(Message(measured, gainSize)[position], position, gainSize)
  BY FitsMessage DEF TypeInv
<1> QED
  BY <1>1, <1>2 DEF Fits

\* A byte arrives at the buffer.
Arrives(x) ==
  /\ ioPc = "wait" /\ ioPc' = ioPc
  /\ Len(buffer_) < 32
  /\ buffer_' = buffer_ \o <<x>>
  /\ NextByte
  /\ UNCHANGED <<gainSize, aligned, published>>

LEMMA GiveArrives == ASSUME NEW x, Give(<<x>>) PROVE Arrives(x)
BY Sizes DEF Give, Arrives, sonarVars

LEMMA ArrivesType ==
  ASSUME TypeInv, NEW x \in Byte, Arrives(x), faults' \in Nat
  PROVE  /\ TypeInv'
         /\ Len(buffer_') = Len(buffer_) + 1
         /\ \A i \in 1 .. Len(buffer_) : buffer_'[i] = buffer_[i]
         /\ buffer_'[Len(buffer_) + 1] = x
<1>1. /\ buffer_' \in Seq(Byte) /\ Len(buffer_') = Len(buffer_) + 1
      /\ \A i \in 1 .. Len(buffer_) : buffer_'[i] = buffer_[i]
      /\ buffer_'[Len(buffer_) + 1] = x
  BY AppendByte DEF TypeInv, Arrives
<1>2. /\ measured' \in Measurements
      /\ position' \in Nat /\ 1 <= position' /\ position' <= 30 + gainSize
  BY PositionStep DEF Arrives
<1>3. Len(buffer_') <= 32 /\ ioPc' \notin {"none", "run", "read"}
  <2>1. Len(buffer_) \in Nat /\ Len(buffer_) < 32 /\ ioPc' = "wait"
    BY Length DEF Arrives
  <2> QED
    BY <1>1, <2>1
<1>4. TypeInv'
  BY <1>1, <1>2, <1>3 DEF TypeInv, Arrives
<1> QED
  BY <1>1, <1>4

\* Byte n + 1 arrives, and is the line's or byte k.
LEMMA WholeStep ==
  ASSUME TypeInv, NEW x \in Byte, Arrives(x), faults' \in Nat, Whole,
         NEW m \in Measurements, NEW k \in Nat,
         Len(buffer_) < 32 => m = measured, faults' = 0 => k = 0, Holds(m, k, buffer_),
         x = Sent \/ k = Len(buffer_) + 1, faults' = 0 => faults = 0
  PROVE  Whole'
<1>1. PICK n \in Nat : n = Len(buffer_)
  BY Length
<1>2. /\ n < 32 /\ Len(buffer_') = n + 1
      /\ \A i \in 1 .. n : buffer_'[i] = buffer_[i]
      /\ buffer_'[n + 1] = x
  BY <1>1, ArrivesType DEF Arrives
<1>3. gainSize = 2 /\ position = n + 1 /\ m = measured
  <2>1. gainSize = 2 /\ position = IF Len(buffer_) = 32 THEN 1 ELSE Len(buffer_) + 1
    BY DEF Whole
  <2>2. n # 32
    BY <1>2
  <2> QED
    BY <1>1, <1>2, <2>1, <2>2
<1>4. position' = (IF n + 1 = 32 THEN 1 ELSE n + 2) /\ (n + 1 < 32 => measured' = measured)
  BY <1>2, <1>3, PositionStep DEF Arrives
<1>5. gainSize' = gainSize /\ aligned' = aligned
  BY DEF Arrives
<1>6. \A i \in 1 .. n : i # k => buffer_[i] = Message(m, gainSize)[i]
  BY <1>1 DEF Holds
<1>7. ASSUME NEW i \in 1 .. n + 1, i # k PROVE buffer_'[i] = Message(m, gainSize)[i]
  <2>1. CASE i \in 1 .. n
    BY <1>2, <1>6, <1>7, <2>1
  <2>2. CASE i = n + 1
    BY <1>1, <1>2, <1>3, <1>7, <2>2, SentByte
  <2> QED
    BY <2>1, <2>2
<1>8. \A i \in 1 .. Len(buffer_') : i # k => buffer_'[i] = Message(m, gainSize')[i]
  BY <1>2, <1>5, <1>7
<1>9. position' = IF Len(buffer_') = 32 THEN 1 ELSE Len(buffer_') + 1
  BY <1>2, <1>4
<1>10. Len(buffer_') < 32 => m = measured'
  BY <1>2, <1>3, <1>4
<1>11. gainSize' = 2 /\ (faults' = 0 => aligned')
  BY <1>3, <1>5 DEF Whole
<1> QED
  BY <1>8, <1>9, <1>10, <1>11 DEF Whole, Holds

LEMMA StreamStep ==
  ASSUME TypeInv, NEW x \in Byte, Arrives(x), NEW s \in Nat, NEW j \in Nat, NEW k \in Nat,
         j <= Len(buffer_) \/ j = 33, x = Sent \/ k = Len(buffer_) + 1,
         Stream(s, j, k, gainSize, position, buffer_)
  PROVE  Stream(s, j, k, gainSize', position', buffer_')
<1>1. /\ Advances(position, position', gainSize) /\ gainSize \in GainSizes
      /\ buffer_ \in Seq(Byte) /\ Len(buffer_) < 32
      /\ buffer_' = buffer_ \o <<x>> /\ gainSize' = gainSize
  BY PositionStep DEF Arrives, TypeInv
<1>2. Fits(x, position, gainSize) \/ k = Len(buffer_) + 1
  BY SentByte
<1>3. Stream(s, j, k, gainSize, position', buffer_ \o <<x>>)
  BY <1>1, <1>2, StreamByte
<1> QED
  BY <1>1, <1>3

\* The line's byte.
LEMMA ReceiveByteStep ==
  ASSUME Inv, ReceiveByte
  PROVE  Inv'
<1> DEFINE x == Sent
<1>1. TypeInv /\ x \in Byte /\ Arrives(x) /\ faults' = faults /\ published' = published
  <2>1. Give(<<x>>) /\ faults' = faults
    BY DEF ReceiveByte
  <2> HIDE DEF x
  <2>2. Arrives(x)
    BY <2>1, GiveArrives
  <2> QED
    BY <2>1, <2>2, SentByte DEF Inv, Arrives, x
<1>2. x = Sent
  OBVIOUS
<1> HIDE DEF x
<1>3. TypeInv' /\ Len(buffer_') = Len(buffer_) + 1 /\ Len(buffer_) \in Nat
  BY <1>1, ArrivesType, Length DEF TypeInv
<1> SUFFICES ASSUME faults <= 1
             PROVE  LineInv' /\ PublishedWasMeasured'
  BY <1>1, <1>3 DEF Inv
<1>4. LineInv /\ PublishedWasMeasured'
  BY <1>1 DEF Inv, PublishedWasMeasured
<1>5. CASE Whole
  <2>1. PICK m \in Measurements, k \in Nat :
             /\ Len(buffer_) < 32 => m = measured
             /\ faults = 0 => k = 0
             /\ Holds(m, k, buffer_)
    BY <1>5 DEF Whole
  <2>2. faults' \in Nat
    BY <1>1 DEF TypeInv
  <2>3. Whole'
    BY <1>1, <1>2, <1>5, <2>1, <2>2, WholeStep
  <2> QED
    BY <1>4, <2>3 DEF LineInv
<1>6. CASE Across
  <2>1. PICK s \in Nat, k \in Nat :
             /\ s # 1 \/ gainSize = 4
             /\ faults = 0 => k = 0
             /\ Stream(s, 33, k, gainSize, position, buffer_)
    BY <1>6 DEF Across
  <2>2. Stream(s, 33, k, gainSize', position', buffer_')
    BY <1>1, <1>2, <2>1, StreamStep
  <2>3. gainSize' = gainSize /\ aligned' = aligned
    BY <1>1 DEF Arrives
  <2>4. Across'
    BY <1>1, <1>6, <2>1, <2>2, <2>3 DEF Across
  <2> QED
    BY <1>4, <2>4 DEF LineInv
<1>7. CASE Short
  <2>1. PICK s \in Nat, j \in Nat :
             /\ 1 <= j /\ j <= 31 /\ j <= Len(buffer_)
             /\ Stream(s, j, 0, gainSize, position, buffer_)
    BY <1>7 DEF Short
  <2>2. Stream(s, j, 0, gainSize', position', buffer_')
    BY <1>1, <1>2, <2>1, StreamStep
  <2>3. j <= Len(buffer_') /\ faults' = 1
    BY <1>1, <1>3, <1>7, <2>1 DEF Short
  <2>4. Short'
    BY <2>1, <2>2, <2>3 DEF Short
  <2> QED
    BY <1>4, <2>4 DEF LineInv
<1> QED
  BY <1>4, <1>5, <1>6, <1>7 DEF LineInv

\* The first byte that is changed is byte k.
LEMMA ReceiveNoiseStep ==
  ASSUME Inv, NEW x \in Noise, ReceiveNoise(x)
  PROVE  Inv'
<1>1. TypeInv /\ x \in Byte /\ Arrives(x) /\ faults' = faults + 1 /\ published' = published
  BY GiveArrives, SonarAssumption DEF Inv, ReceiveNoise, Disturbed, Byte, Arrives
<1>2. TypeInv'
  BY <1>1, ArrivesType DEF TypeInv
<1>3. PICK k \in Nat : k = Len(buffer_) + 1
  BY <1>1, Length
<1> SUFFICES ASSUME faults' <= 1
             PROVE  LineInv' /\ PublishedWasMeasured'
  BY <1>2 DEF Inv
<1>4. faults = 0 /\ faults' = 1 /\ faults' \in Nat
  BY <1>1 DEF TypeInv
<1>5. (Whole \/ Across) /\ PublishedWasMeasured'
  BY <1>1, <1>4 DEF Inv, LineInv, Short, PublishedWasMeasured
<1>6. CASE Whole
  <2>1. PICK m \in Measurements :
             /\ Len(buffer_) < 32 => m = measured
             /\ Holds(m, 0, buffer_)
    BY <1>4, <1>6 DEF Whole
  <2>2. Holds(m, k, buffer_)
    BY <2>1 DEF Holds
  <2>3. Whole'
    BY <1>1, <1>3, <1>4, <1>6, <2>1, <2>2, WholeStep
  <2> QED
    BY <1>5, <2>3 DEF LineInv
<1>7. CASE Across
  <2>1. PICK s \in Nat :
             /\ s # 1 \/ gainSize = 4
             /\ Stream(s, 33, 0, gainSize, position, buffer_)
    BY <1>4, <1>7 DEF Across
  <2>2. Stream(s, 33, k, gainSize, position, buffer_)
    BY <2>1 DEF Stream
  <2>3. Stream(s, 33, k, gainSize', position', buffer_')
    BY <1>1, <1>3, <2>1, <2>2, StreamStep
  <2>4. gainSize' = gainSize
    BY <1>1 DEF Arrives
  <2>5. Across'
    BY <1>4, <2>1, <2>3, <2>4 DEF Across
  <2> QED
    BY <1>5, <2>5 DEF LineInv
<1> QED
  BY <1>5, <1>6, <1>7

\* From the first byte that is lost the buffer is short of it.
LEMMA LoseByteStep ==
  ASSUME Inv, LoseByte
  PROVE  Inv'
<1>1. PICK n \in Nat : n = Len(buffer_)
  BY Length DEF Inv
<1>2. /\ TypeInv /\ n < 32 /\ faults' = faults + 1 /\ NextByte
      /\ buffer_' = buffer_ \o <<>>
      /\ UNCHANGED <<gainSize, aligned, published, ioPc>>
  BY <1>1, Sizes DEF Inv, LoseByte, Disturbed, Give, sonarVars
<1>3. buffer_' = buffer_
  <2>1. buffer_ \in Seq(Byte)
    BY <1>2 DEF TypeInv
  <2> QED
    BY <1>2, <2>1, ConcatEmptySeq
<1>4. /\ Advances(position, position', gainSize)
      /\ position < 30 + gainSize => position' = position + 1
      /\ measured' \in Measurements
      /\ position' \in Nat /\ 1 <= position' /\ position' <= 30 + gainSize
  BY <1>2, PositionStep
<1>5. TypeInv'
  BY <1>2, <1>3, <1>4 DEF TypeInv
<1> SUFFICES ASSUME faults' <= 1
             PROVE  LineInv' /\ PublishedWasMeasured'
  BY <1>5 DEF Inv
<1>6. faults = 0 /\ faults' = 1
  BY <1>2 DEF TypeInv
<1>7. (Whole \/ Across) /\ PublishedWasMeasured'
  BY <1>2, <1>6 DEF Inv, LineInv, Short, PublishedWasMeasured
<1>8. CASE n = 0
  <2>1. Empty' /\ Opened'
    BY <1>1, <1>3, <1>6, <1>8 DEF Empty, Opened
  <2>2. (TypeInv /\ Empty /\ Opened => LineInv)'
    BY Fresh, PTL
  <2>3. LineInv'
    BY <1>5, <2>1, <2>2
  <2> QED
    BY <1>7, <2>3
<1>9. CASE n # 0
  <2> DEFINE g == gainSize
             p == position
             b == buffer_
  <2>1. PICK s \in Nat :
             /\ 1 <= s /\ s <= 30 + g /\ IsAt(p, s + n, g)
             /\ \A i \in 1 .. n : FitsAt(b[i], s + i - 1, g)
    <3>1. CASE Whole
      <4>1. PICK m \in Measurements : Holds(m, 0, b)
        BY <1>6, <3>1 DEF Whole
      <4>2. g = 2 /\ p = n + 1 /\ g \in GainSizes
        <5>1. g = 2 /\ p = IF Len(b) = 32 THEN 1 ELSE Len(b) + 1
          BY <3>1 DEF Whole
        <5>2. n # 32
          BY <1>2
        <5> QED
          BY <1>1, <1>2, <5>1, <5>2 DEF TypeInv
      <4>3. IsAt(p, 1 + n, g)
        BY <1>2, <4>2 DEF IsAt
      <4>4. ASSUME NEW i \in 1 .. n PROVE FitsAt(b[i], 1 + i - 1, g)
        <5>1. i \in Nat /\ 1 <= i /\ i <= 30 + g /\ 1 + i - 1 = i
          BY <1>2, <4>2
        <5>2. Fits(Message(m, g)[i], i, g)
          BY <4>2, <5>1, FitsMessage
        <5>3. b[i] = Message(m, g)[i]
          BY <1>1, <4>1 DEF Holds
        <5>4. IsAt(i, i, g)
          BY <5>1 DEF IsAt
        <5> HIDE DEF g, b
        <5>5. FitsAt(b[i], i, g)
          BY <4>2, <5>1, <5>2, <5>3, <5>4, FitsThere
        <5> QED
          BY <5>1, <5>5
      <4>5. 1 <= 1 /\ 1 <= 30 + g
        BY <4>2
      <4> QED
        BY <4>3, <4>4, <4>5
    <3>2. CASE Across
      <4>1. PICK s \in Nat : Stream(s, 33, 0, g, p, b)
        BY <1>6, <3>2 DEF Across
      <4>2. 1 <= s /\ s <= 30 + g /\ IsAt(p, s + n, g)
        <5>1. s + Off(n + 1, 33) = s + n
          BY <1>2 DEF Off
        <5> QED
          BY <1>1, <4>1, <5>1 DEF Stream
      <4>3. ASSUME NEW i \in 1 .. n PROVE FitsAt(b[i], s + i - 1, g)
        <5>1. s + Off(i, 33) = s + i - 1 /\ i # 0
          BY <1>2 DEF Off
        <5> QED
          BY <1>1, <4>1, <5>1 DEF Stream
      <4> QED
        BY <4>2, <4>3
    <3> QED
      BY <1>7, <3>1, <3>2
  <2>2. IsAt(position', s + n + 1, g)
    <3>1. g \in GainSizes /\ g \in Nat /\ g <= 4
      BY <1>2 DEF TypeInv, GainSizes
    <3>2. s + n \in Nat /\ s + n <= 70
      BY <1>2, <2>1, <3>1
    <3> HIDE DEF g, p
    <3>3. IsAt(position', (s + n) + 1, g)
      BY <1>4, <2>1, <3>1, <3>2, IsAtNext DEF g, p
    <3> QED
      BY <3>3
  <2>3. Stream(s, n, 0, g, position', b)
    <3>1. s + Off(n + 1, n) = s + n + 1
      BY DEF Off
    <3>2. \A i \in 1 .. n : s + Off(i, n) = s + i - 1
      BY DEF Off
    <3> QED
      BY <1>1, <2>1, <2>2, <3>1, <3>2 DEF Stream
  <2>4. 1 <= n /\ n <= 31 /\ n <= Len(buffer_')
    BY <1>1, <1>2, <1>3, <1>9
  <2>5. Short'
    BY <1>2, <1>3, <1>6, <2>3, <2>4 DEF Short
  <2> QED
    BY <1>7, <2>5 DEF LineInv
<1> QED
  BY <1>8, <1>9

\* What a full buffer is: accepted, if it is a message as it was sent, or rejected.
LEMMA Full ==
  ASSUME TypeInv, LineInv, Len(buffer_) = 32
  PROVE  /\ IsDistance(buffer_) => <<At32(buffer_, 8), At16(buffer_, 12)>> \in Measurements
         /\ Whole /\ faults = 0 => IsDistance(buffer_)
         /\ Across => ~IsDistance(buffer_)
<1> DEFINE b == buffer_
           g == gainSize
<1>1. b \in Seq(Byte) /\ g \in GainSizes /\ faults \in Nat
  BY DEF TypeInv
<1>2. \A i \in 1 .. 32 : b[i] \in Byte
  BY <1>1, Elements
<1>3. CASE Across
  <2>1. PICK s \in Nat, k \in Nat :
             (s # 1 \/ g = 4) /\ Stream(s, 33, k, g, position, b)
    BY <1>3 DEF Across
  <2>2. ~IsDistance(b)
    BY <1>1, <2>1, StreamRejected
  <2>3. Whole /\ faults = 0 => FALSE
    BY <1>3 DEF Whole, Across
  <2> QED
    BY <2>2, <2>3
<1>4. CASE Short
  <2>1. PICK s \in Nat, j \in Nat :
             1 <= j /\ j <= 31 /\ Stream(s, j, 0, g, position, b)
    BY <1>4 DEF Short
  <2>2. ~IsDistance(b)
    BY <1>1, <2>1, ShortRejected
  <2>3. faults # 0
    BY <1>4 DEF Short
  <2> QED
    BY <2>2, <2>3
<1>5. CASE Whole /\ ~Across
  <2>1. PICK m \in Measurements, k \in Nat : (faults = 0 => k = 0) /\ Holds(m, k, b)
    BY <1>5 DEF Whole
  <2>2. g = 2
    BY <1>5 DEF Whole
  <2> HIDE DEF b, g
  <2>3. \A i \in 1 .. 32 : i # k => b[i] = Message(m, g)[i]
    BY <2>1 DEF Holds, b, g
  <2>4. CASE \A i \in 1 .. 32 : b[i] = Message(m, g)[i]
    <3>0. m \in Measurements /\ g \in GainSizes /\ g = 2
      BY <1>1, <2>2
    <3>1. IsDistance(b) /\ At32(b, 8) = m[1] /\ At16(b, 12) = m[2]
      BY <2>4, <3>0, WholeAccepted
    <3>2. m = <<m[1], m[2]>>
      BY SonarAssumption, SMTT(30)
    <3> QED
      BY <1>5, <3>1, <3>2 DEF b
  <2>5. CASE k \in 1 .. 32 /\ b[k] # Message(m, g)[k]
    <3>1. ~IsDistance(b)
      BY <1>1, <1>2, <2>2, <2>3, <2>5, ChangedRejected
    <3>2. faults # 0
      BY <2>1, <2>5
    <3> QED
      BY <3>1, <3>2 DEF b
  <2> QED
    BY <2>3, <2>4, <2>5
<1> QED
  BY <1>3, <1>4, <1>5 DEF LineInv

\* Nothing of the line changes.
LEMMA LineStays ==
  ASSUME UNCHANGED <<gainSize, aligned, measured, position, faults, buffer_>>
  PROVE  LineInv' <=> LineInv
<1>1. Whole' <=> Whole
  BY DEF Whole, Holds
<1>2. Across' <=> Across
  BY DEF Across
<1>3. Short' <=> Short
  BY DEF Short
<1> QED
  BY <1>1, <1>2, <1>3 DEF LineInv

\* A message that arrived whole is published as it was measured, and nothing else is.
LEMMA HandleStep ==
  ASSUME Inv, Handle
  PROVE  Inv'
<1>1. /\ TypeInv /\ Len(buffer_) = 32
      /\ UNCHANGED <<gainSize, aligned, measured, position, faults, buffer_>>
      /\ ioPc' = "run"
      /\ published' = IF IsDistance(buffer_) THEN <<At32(buffer_, 8), At16(buffer_, 12)>>
                                             ELSE published
  <2>1. HEADER_SIZE = 8 /\ HEADER_SIZE + 4 = 12 /\ TOTAL_SIZE = 32
    BY Sizes
  <2> QED
    BY <2>1 DEF Inv, Handle, Io, lineVars, sonarVars
<1>2. TypeInv'
  BY <1>1 DEF TypeInv
<1> SUFFICES ASSUME faults <= 1
             PROVE  LineInv' /\ PublishedWasMeasured'
  BY <1>1, <1>2 DEF Inv
<1>3. LineInv /\ LineInv' /\ PublishedWasMeasured
  BY <1>1, LineStays DEF Inv
<1>4. IsDistance(buffer_) => <<At32(buffer_, 8), At16(buffer_, 12)>> \in Measurements
  BY <1>1, <1>3, Full
<1> QED
  BY <1>1, <1>3, <1>4 DEF PublishedWasMeasured

\* The next read starts where the last ended.
LEMMA ReadStep ==
  ASSUME Inv, Read
  PROVE  Inv'
<1>1. /\ TypeInv /\ Len(buffer_) \in {0, 32}
      /\ UNCHANGED <<gainSize, aligned, measured, position, faults, published>>
      /\ buffer_' = <<>> /\ ioPc' \in {"wait", "done"}
  BY DEF Inv, Read, Io, lineVars, sonarVars, TypeInv
<1>2. buffer_' \in Seq(Byte) /\ Len(buffer_') = 0
  BY <1>1
<1>3. TypeInv'
  BY <1>1, <1>2 DEF TypeInv
<1> SUFFICES ASSUME faults <= 1
             PROVE  LineInv' /\ PublishedWasMeasured'
  BY <1>1, <1>3 DEF Inv
<1>4. LineInv /\ PublishedWasMeasured'
  BY <1>1 DEF Inv, PublishedWasMeasured
<1>5. Opened
  <2> SUFFICES ASSUME faults = 0, gainSize = 2 PROVE position = 1 <=> aligned
    BY DEF Opened
  <2>1. CASE Whole
    <3>1. position = (IF Len(buffer_) = 32 THEN 1 ELSE Len(buffer_) + 1) /\ aligned
      BY <2>1 DEF Whole
    <3> QED
      BY <1>1, <3>1
  <2>2. CASE Across
    <3>1. ~aligned
      BY <2>2 DEF Across
    <3>2. PICK s \in Nat, k \in Nat :
               s # 1 /\ Stream(s, 33, k, gainSize, position, buffer_)
      BY <2>2 DEF Across
    <3>3. 1 <= s /\ s <= 32 /\ IsAt(position, s + Off(Len(buffer_) + 1, 33), 2)
      BY <3>2 DEF Stream
    <3>4. position # 1
      <4>1. CASE Len(buffer_) = 0
        BY <3>2, <3>3, <4>1 DEF IsAt, Off
      <4>2. CASE Len(buffer_) = 32
        BY <3>2, <3>3, <4>2 DEF IsAt, Off
      <4> QED
        BY <1>1, <4>1, <4>2
    <3>5. aligned \in BOOLEAN
      BY <1>1 DEF TypeInv
    <3> QED
      BY <3>1, <3>4, <3>5
  <2>3. ~Short
    BY DEF Short
  <2> QED
    BY <1>4, <2>1, <2>2, <2>3 DEF LineInv
<1>6. Opened' /\ Empty'
  BY <1>1, <1>2, <1>5 DEF Opened, Empty
<1>7. LineInv'
  <2>1. (TypeInv /\ Empty /\ Opened => LineInv)'
    BY Fresh, PTL
  <2> QED
    BY <1>3, <1>6, <2>1
<1> QED
  BY <1>4, <1>7

\* Nothing else touches the line, the buffer or what was published.
LEMMA OtherStep ==
  ASSUME Inv, UNCHANGED <<gainSize, aligned, measured, position, faults, buffer_, published>>,
         ioPc' \in {"none", "run", "read"} => ioPc \in {"none", "run", "read"}
  PROVE  Inv'
<1>1. TypeInv'
  BY DEF Inv, TypeInv
<1>2. faults' <= 1 => LineInv' /\ PublishedWasMeasured'
  BY LineStays DEF Inv, PublishedWasMeasured
<1> QED
  BY <1>1, <1>2 DEF Inv

LEMMA InitInv == Init => Inv
<1> SUFFICES ASSUME Init PROVE Inv
  OBVIOUS
<1>1. /\ gainSize \in GainSizes /\ aligned = (position = 1)
      /\ measured \in Measurements /\ faults = 0 /\ ioPc = "none"
      /\ published = NoMeasurement
      /\ buffer_ \in Seq(Byte) /\ Len(buffer_) = 0
  BY DEF Init
<1>2. position \in Nat /\ 1 <= position /\ position <= 30 + gainSize
  <2>1. position \in Openings /\ position <= MessageSize(gainSize)
    BY DEF Init
  <2>2. MessageSize(gainSize) = 30 + gainSize
    BY <1>1, Sizes
  <2> QED
    BY <2>1, <2>2, SonarAssumption
<1>3. TypeInv
  BY <1>1, <1>2 DEF TypeInv
<1>4. LineInv
  BY <1>1, <1>3, Fresh DEF Empty, Opened
<1> QED
  BY <1>1, <1>3, <1>4 DEF Inv, PublishedWasMeasured

LEMMA NextInv == Inv /\ [Next]_vars => Inv'
<1> SUFFICES ASSUME Inv, [Next]_vars PROVE Inv'
  OBVIOUS
<1>1. CASE ReceiveByte
  BY <1>1, ReceiveByteStep
<1>2. CASE LoseByte
  BY <1>2, LoseByteStep
<1>3. ASSUME NEW byte \in Noise, ReceiveNoise(byte) PROVE Inv'
  BY <1>3, ReceiveNoiseStep
<1>4. CASE Handle
  BY <1>4, HandleStep
<1>5. CASE Read
  BY <1>5, ReadStep
<1>6. CASE Start \/ Run \/ HandleError \/ RunReturns
  BY <1>6, OtherStep DEF Start, Run, HandleError, RunReturns, Io, lineVars, sonarVars
<1>7. CASE Stop
  BY <1>7, OtherStep DEF Stop, StopFlag, StopClose, StopContext, StopJoin, At, lineVars, sonarVars
<1>8. CASE UNCHANGED vars
  BY <1>8, OtherStep DEF vars, lineVars, sonarVars
<1> QED
  BY <1>1, <1>2, <1>3, <1>4, <1>5, <1>6, <1>7, <1>8 DEF Next

LEMMA Invariant == Spec => []Inv
BY InitInv, NextInv, PTL DEF Spec
-----------------------------------------------------------------------------
(* On a line without faults the full buffers that pass the checks are those *)
(* of a port opened at the start of a message, of the size expected.        *)
THEOREM AlignedMessagesAccepted == Spec => []CleanLineAccepted
<1>1. Inv => CleanLineAccepted
  <2> SUFFICES ASSUME Inv, faults = 0, Len(buffer_) = 32
               PROVE  IsDistance(buffer_) <=> aligned /\ gainSize = 2
    BY Sizes DEF CleanLineAccepted
  <2>1. TypeInv /\ LineInv /\ aligned \in BOOLEAN
    BY DEF Inv, TypeInv
  <2>2. CASE Whole
    <3>1. IsDistance(buffer_)
      BY <2>1, <2>2, Full
    <3>2. aligned /\ gainSize = 2
      BY <2>2 DEF Whole
    <3> QED
      BY <3>1, <3>2
  <2>3. CASE Across
    <3>1. ~IsDistance(buffer_)
      BY <2>1, <2>3, Full
    <3>2. ~(aligned /\ gainSize = 2)
      BY <2>3 DEF Across
    <3> QED
      BY <3>1, <3>2
  <2>4. ~Short
    BY DEF Short
  <2> QED
    BY <2>1, <2>2, <2>3, <2>4 DEF LineInv
<1> QED
  BY <1>1, Invariant, PTL

(* Wherever the port was opened, and with one byte lost or changed, anywhere *)
(* and whatever it becomes: what is published was measured.                  *)
THEOREM OneFaultPublishesNothingWrong == Spec => [](faults <= 1 => PublishedWasMeasured)
BY Invariant, PTL DEF Inv
=============================================================================
