--------------------------- MODULE ResolverProofs ---------------------------
(***************************************************************************)
(* What the checksum of the resolver does, for messages of any length, and *)
(* what it does for the server, for any clients, host names and faults.    *)
(***************************************************************************)
EXTENDS Resolver, WellFoundedInduction, FiniteSetTheorems, TLAPS

(***************************************************************************)
(* One round of the loop over the bytes of a message.                      *)
(***************************************************************************)

LEMMA WrapByCases ==
    \A n \in Int : /\ 0 <= n /\ n <= 255 => wrap[n] = n
                   /\ 256 <= n /\ n <= 510 => wrap[n] = n - 255
<1>1. \A n \in Int : 0 <= n => wrap[n] = ((n % 256) + (n \div 256)) % 256
  BY DEF wrap
<1>2. \A n \in Int : 0 <= n /\ n <= 255 => ((n % 256) + (n \div 256)) % 256 = n
  OBVIOUS
<1>3. \A n \in Int : 256 <= n /\ n <= 510 =>
          ((n % 256) + (n \div 256)) % 256 = n - 255
  OBVIOUS
<1>. QED  BY <1>1, <1>2, <1>3

LEMMA ByteRange ==
    \A n : n \in Byte <=> n \in Int /\ 0 <= n /\ n <= 255
BY DEF Byte

\* The carry is added back: this is the addition modulo 255 in which 255
\* stands for zero, once a byte that is not zero has been added.
LEMMA PlusByCases ==
    ASSUME NEW a \in Byte, NEW b \in Byte
    PROVE  \/ a + b <= 255 /\ plus(a, b) = a + b
           \/ a + b > 255 /\ plus(a, b) = a + b - 255
<1>1. /\ a \in Int /\ 0 <= a /\ a <= 255
      /\ b \in Int /\ 0 <= b /\ b <= 255
  BY ByteRange
<1>2. PICK n \in Int : n = a + b
  BY <1>1
<1>3. 0 <= n /\ n <= 510
  BY <1>1, <1>2
<1>4. plus(a, b) = wrap[n]
  BY <1>2 DEF plus
<1>5. CASE n <= 255
  <2>1. wrap[n] = n
    BY <1>2, <1>3, <1>5, WrapByCases
  <2>. QED  BY <1>2, <1>4, <1>5, <2>1
<1>6. CASE n > 255
  <2>1. wrap[n] = n - 255
    BY <1>2, <1>3, <1>6, WrapByCases
  <2>2. a + b > 255
    BY <1>2, <1>6
  <2>3. plus(a, b) = n - 255
    BY <1>4, <2>1
  <2>4. n - 255 = a + b - 255
    BY <1>1, <1>2
  <2>. QED  BY <2>2, <2>3, <2>4
<1>. QED  BY <1>2, <1>5, <1>6

\* A sum stays a byte.
THEOREM PlusIsByte ==
    ASSUME NEW a \in Byte, NEW b \in Byte
    PROVE  plus(a, b) \in Byte
<1>1. /\ a \in Int /\ 0 <= a /\ a <= 255
      /\ b \in Int /\ 0 <= b /\ b <= 255
  BY ByteRange
<1>2. plus(a, b) \in Int /\ 0 <= plus(a, b) /\ plus(a, b) <= 255
  BY <1>1, PlusByCases
<1>. QED  BY <1>2, ByteRange

\* Two bytes may be added in either order (UDPClient.c 44-46): the checksum
\* does not notice that bytes have changed places.
THEOREM OrderIsNotNoticed ==
    ASSUME NEW s \in Byte, NEW a \in Byte, NEW b \in Byte
    PROVE  plus(plus(s, a), b) = plus(plus(s, b), a)
<1>. DEFINE p == plus(s, a)
            q == plus(s, b)
            x == plus(p, b)
            y == plus(q, a)
<1>1. /\ s \in Int /\ 0 <= s /\ s <= 255
      /\ a \in Int /\ 0 <= a /\ a <= 255
      /\ b \in Int /\ 0 <= b /\ b <= 255
  BY ByteRange
<1>2. p \in Byte /\ q \in Byte
  BY PlusIsByte
<1>3. p \in Int /\ q \in Int
  BY <1>2, ByteRange
<1>4. \/ s + a <= 255 /\ p = s + a
      \/ s + a > 255 /\ p = s + a - 255
  BY PlusByCases
<1>5. \/ s + b <= 255 /\ q = s + b
      \/ s + b > 255 /\ q = s + b - 255
  BY PlusByCases
<1>6. \/ p + b <= 255 /\ x = p + b
      \/ p + b > 255 /\ x = p + b - 255
  BY <1>2, PlusByCases
<1>7. \/ q + a <= 255 /\ y = q + a
      \/ q + a > 255 /\ y = q + a - 255
  BY <1>2, PlusByCases
<1>. HIDE DEF p, q, x, y
<1>8. x = y
  BY <1>1, <1>3, <1>4, <1>5, <1>6, <1>7
<1>. QED  BY <1>8 DEF p, q, x, y

\* a and b are different, and not the two forms of zero.
Apart(a, b) == a # b /\ {a, b} # {0, 255}

\* Two sums that differ go on to differ, whatever byte is added to both: a
\* corrupted byte is not made up for by the ones after it.
THEOREM DifferenceRemains ==
    ASSUME NEW s \in Byte, NEW t \in Byte, NEW b \in Byte, Apart(s, t)
    PROVE  Apart(plus(s, b), plus(t, b))
<1>. DEFINE p == plus(s, b)
            q == plus(t, b)
<1>1. /\ s \in Int /\ 0 <= s /\ s <= 255
      /\ t \in Int /\ 0 <= t /\ t <= 255
      /\ b \in Int /\ 0 <= b /\ b <= 255
  BY ByteRange
<1>2. s # t /\ ~(s = 0 /\ t = 255) /\ ~(s = 255 /\ t = 0)
  BY DEF Apart
<1>3. \/ s + b <= 255 /\ p = s + b
      \/ s + b > 255 /\ p = s + b - 255
  BY PlusByCases
<1>4. \/ t + b <= 255 /\ q = t + b
      \/ t + b > 255 /\ q = t + b - 255
  BY PlusByCases
<1>. HIDE DEF p, q
<1>5. p # q
  BY <1>1, <1>2, <1>3, <1>4
<1>6. ~(p = 0 /\ q = 255) /\ ~(p = 255 /\ q = 0)
  BY <1>1, <1>2, <1>3, <1>4
<1>7. {p, q} # {0, 255}
  BY <1>6
<1>. QED  BY <1>5, <1>7 DEF p, q, Apart

\* A corrupted byte changes the sum at once, unless 0 became 255 or 255 0
\* (UDPClient.c 59-61; UDPserver.py 45-49).
THEOREM CorruptionIsNoticed ==
    ASSUME NEW s \in Byte, NEW a \in Byte, NEW b \in Byte, Apart(a, b)
    PROVE  Apart(plus(s, a), plus(s, b))
<1>1. plus(s, a) = plus(a, s) /\ plus(s, b) = plus(b, s)
  <2>1. s \in Int /\ a \in Int /\ b \in Int
    BY ByteRange
  <2>2. s + a = a + s /\ s + b = b + s
    BY <2>1
  <2>. QED  BY <2>2 DEF plus
<1>2. Apart(plus(a, s), plus(b, s))
  BY DifferenceRemains
<1>. QED  BY <1>1, <1>2

\* A message of any sum verifies once its complement has been added
\* (UDPClient.c 48, 215; UDPserver.py 61, 94).
THEOREM ComplementVerifies ==
    ASSUME NEW s \in Byte
    PROVE  plus(s, 255 - s) = 255
<1>1. s \in Int /\ 0 <= s /\ s <= 255
  BY ByteRange
<1>2. PICK t \in Int : t = 255 - s /\ 0 <= t /\ t <= 255
  BY <1>1
<1>3. plus(s, t) = s + t
  BY <1>1, <1>2, ByteRange, PlusByCases
<1>4. s + t = 255
  BY <1>1, <1>2
<1>. QED  BY <1>2, <1>3, <1>4

(***************************************************************************)
(* Induction over the natural numbers, for sets: a set of numbers that is  *)
(* not empty has a least element.                                          *)
(***************************************************************************)
LEMMA LeastElement ==
    ASSUME NEW T, T \subseteq Nat, T # {}
    PROVE  \E n \in T : \A m \in T : n <= m
<1>1. PICK n \in T : \A m \in T : <<m, n>> \notin OpToRel(<, Nat)
  BY NatLessThanWellFounded, WFMin, Zenon
<1>2. \A m \in T : ~(m < n)
  BY <1>1, Zenon DEF OpToRel
<1>. QED  BY <1>2

LEMMA Induction ==
    ASSUME NEW N \in Nat, NEW S, 0 \in S,
           \A n \in 1..N : n - 1 \in S => n \in S
    PROVE  0..N \subseteq S
<1>. DEFINE T == (0..N) \ S
<1>. SUFFICES ASSUME T # {} PROVE FALSE
  OBVIOUS
<1>1. T \subseteq Nat
  OBVIOUS
<1>2. PICK n \in T : \A m \in T : n <= m
  BY <1>1, LeastElement
<1>3. n \in 1..N /\ n - 1 \in 0..N /\ ~(n <= n - 1)
  BY <1>2
<1>4. n - 1 \in S
  BY <1>2, <1>3
<1>. QED  BY <1>2, <1>3, <1>4

(***************************************************************************)
(* The loop as a whole.                                                    *)
(***************************************************************************)
\* f is what the sum is after each byte of message.
IsSum(f, message, n) ==
    f = [k \in 0..n |-> IF k = 0 THEN 0 ELSE plus(f[k - 1], message[k])]

LEMMA SumExists ==
    ASSUME NEW message \in Seq(Byte)
    PROVE  \E f : IsSum(f, message, Len(message))
<1>. DEFINE N == Len(message)
            S == {n \in 0..N : \E f : IsSum(f, message, n)}
<1>0. N \in Nat
  OBVIOUS
<1>1. 0 \in S
  <2>. DEFINE f == [k \in 0..0 |-> 0]
  <2>1. IsSum(f, message, 0)
    BY DEF IsSum
  <2>. QED  BY <1>0, <2>1
<1>2. ASSUME NEW n \in 1..N, n - 1 \in S
      PROVE  n \in S
  <2>1. PICK f : IsSum(f, message, n - 1)
    BY <1>2
  <2>. DEFINE g == [k \in 0..n |-> IF k = n THEN plus(f[n - 1], message[n]) ELSE f[k]]
  <2>2. \A k \in 0..n - 1 : f[k] = IF k = 0 THEN 0 ELSE plus(f[k - 1], message[k])
    BY <2>1 DEF IsSum
  <2>3. \A k \in 0..n : k - 1 # n
    BY <1>0
  <2>4. \A k \in 0..n : g[k] = IF k = 0 THEN 0 ELSE plus(g[k - 1], message[k])
    <3>. TAKE k \in 0..n
    <3>1. CASE k = n
      <4>1. n - 1 \in 0..n /\ n - 1 # n /\ n # 0
        BY <1>0
      <4>. QED  BY <3>1, <4>1
    <3>2. CASE k # n
      <4>1. k \in 0..n - 1 /\ (k # 0 => k - 1 \in 0..n /\ k - 1 # n)
        BY <1>0, <3>2
      <4>. QED  BY <2>2, <3>2, <4>1
    <3>. QED  BY <3>1, <3>2
  <2>5. IsSum(g, message, n)
    BY <2>4 DEF IsSum
  <2>. QED  BY <1>0, <2>5
<1>. HIDE DEF S, N
<1>3. 0..N \subseteq S
  BY <1>0, <1>1, <1>2, Induction
<1>4. N \in S
  BY <1>0, <1>3
<1>. QED  BY <1>4 DEF S, N

\* The loop of the code, as a sum over the bytes.
LEMMA Loop ==
    ASSUME NEW message \in Seq(Byte)
    PROVE  \E f : /\ IsSum(f, message, Len(message))
                  /\ checkTheCheckSum[message] = f[Len(message)]
<1>. DEFINE f == CHOOSE g : IsSum(g, message, Len(message))
<1>1. IsSum(f, message, Len(message))
  BY SumExists
<1>2. checkTheCheckSum[message] = f[Len(message)]
  BY DEF checkTheCheckSum, IsSum
<1>. QED  BY <1>1, <1>2

LEMMA Rounds ==
    ASSUME NEW message \in Seq(Byte), NEW f, IsSum(f, message, Len(message))
    PROVE  /\ f[0] = 0
           /\ \A n \in 1..Len(message) : f[n] = plus(f[n - 1], message[n])
           /\ \A n \in 0..Len(message) : f[n] \in Byte
<1>. DEFINE N == Len(message)
            S == {n \in 0..N : f[n] \in Byte}
<1>0. N \in Nat
  OBVIOUS
<1>1. f[0] = 0
  BY DEF IsSum
<1>2. \A n \in 1..N : f[n] = plus(f[n - 1], message[n])
  BY DEF IsSum
<1>3. 0 \in S
  BY <1>0, <1>1 DEF Byte
<1>4. ASSUME NEW n \in 1..N, n - 1 \in S
      PROVE  n \in S
  <2>1. message[n] \in Byte /\ f[n - 1] \in Byte
    BY <1>4
  <2>2. f[n] \in Byte
    BY <1>2, <2>1, PlusIsByte
  <2>. QED  BY <1>0, <2>2
<1>. HIDE DEF S
<1>5. 0..N \subseteq S
  BY <1>0, <1>3, <1>4, Induction
<1>. QED  BY <1>1, <1>2, <1>5 DEF S

\* The sum of a message of any length is a byte.
THEOREM ChecksumIsByte ==
    ASSUME NEW message \in Seq(Byte)
    PROVE  checkTheCheckSum[message] \in Byte
<1>1. PICK f : /\ IsSum(f, message, Len(message))
               /\ checkTheCheckSum[message] = f[Len(message)]
  BY Loop
<1>2. Len(message) \in 0..Len(message)
  OBVIOUS
<1>. QED  BY <1>1, <1>2, Rounds

\* One byte of a message is another.
LEMMA ChangedMessage ==
    ASSUME NEW message \in Seq(Byte), NEW i \in 1..Len(message), NEW b \in Byte
    PROVE  LET other == [message EXCEPT ![i] = b]
           IN  /\ other \in Seq(Byte) /\ Len(other) = Len(message)
               /\ other[i] = b
               /\ \A n \in 1..Len(message) : n # i => other[n] = message[n]
OBVIOUS

\* A byte that was zero adds its value to the sum of the whole message,
\* wherever it is: the checksum may be computed before it is put in its
\* place (UDPClient.c 208-215; UDPserver.py 83-94).
THEOREM ZeroCountsForNothing ==
    ASSUME NEW message \in Seq(Byte), NEW i \in 1..Len(message), message[i] = 0,
           NEW b \in Byte
    PROVE  checkTheCheckSum[[message EXCEPT ![i] = b]] =
               plus(checkTheCheckSum[message], b)
<1>. DEFINE N == Len(message)
            other == [message EXCEPT ![i] = b]
<1>0. N \in Nat /\ i \in 1..N
  OBVIOUS
<1>1. /\ other \in Seq(Byte) /\ Len(other) = N /\ other[i] = b
      /\ \A n \in 1..N : n # i => other[n] = message[n]
  BY ChangedMessage
<1>. HIDE DEF other, N
<1>2. PICK f : IsSum(f, message, N) /\ checkTheCheckSum[message] = f[N]
  BY Loop DEF N
<1>3. PICK g : IsSum(g, other, N) /\ checkTheCheckSum[other] = g[N]
  BY <1>1, Loop
<1>4. /\ f[0] = 0 /\ \A n \in 1..N : f[n] = plus(f[n - 1], message[n])
      /\ \A n \in 0..N : f[n] \in Byte
  BY <1>2, Rounds DEF N
<1>5. /\ g[0] = 0 /\ \A n \in 1..N : g[n] = plus(g[n - 1], other[n])
  BY <1>1, <1>3, Rounds
<1>6. \A n \in 1..N : message[n] \in Byte
  BY DEF N
<1>. DEFINE S == {n \in 0..N : g[n] = IF n < i THEN f[n] ELSE plus(f[n], b)}
<1>7. 0 \in S
  BY <1>0, <1>4, <1>5
<1>8. ASSUME NEW n \in 1..N, n - 1 \in S
      PROVE  n \in S
  <2>1. /\ g[n - 1] = IF n - 1 < i THEN f[n - 1] ELSE plus(f[n - 1], b)
        /\ g[n] = plus(g[n - 1], other[n])
        /\ f[n] = plus(f[n - 1], message[n])
        /\ f[n - 1] \in Byte /\ message[n] \in Byte
    BY <1>4, <1>5, <1>6, <1>8
  <2>2. CASE n < i
    <3>1. n - 1 < i /\ n # i
      BY <1>0, <2>2
    <3>2. g[n] = f[n]
      BY <1>1, <2>1, <3>1
    <3>. QED  BY <1>0, <2>2, <3>2
  <2>3. CASE n = i
    <3>1. n - 1 < i /\ ~(n < i)
      BY <1>0, <2>3
    <3>2. plus(f[n - 1], 0) = f[n - 1]
      <4>1. 0 \in Byte /\ f[n - 1] \in Int /\ f[n - 1] <= 255
        BY <2>1, ByteRange
      <4>. QED  BY <2>1, <4>1, PlusByCases
    <3>3. g[n] = plus(f[n], b)
      BY <1>1, <2>1, <2>3, <3>1, <3>2
    <3>. QED  BY <1>0, <3>1, <3>3
  <2>4. CASE n > i
    <3>1. ~(n - 1 < i) /\ ~(n < i) /\ n # i
      BY <1>0, <2>4
    <3>2. g[n] = plus(plus(f[n - 1], b), message[n])
      BY <1>1, <2>1, <3>1
    <3>3. g[n] = plus(f[n], b)
      BY <2>1, <3>2, OrderIsNotNoticed
    <3>. QED  BY <1>0, <3>1, <3>3
  <2>. QED  BY <1>0, <2>2, <2>3, <2>4
<1>. HIDE DEF S
<1>9. N \in S
  <2>1. 0..N \subseteq S
    BY <1>0, <1>7, <1>8, Induction
  <2>. QED  BY <1>0, <2>1
<1>10. g[N] = plus(f[N], b)
  BY <1>0, <1>9 DEF S
<1>. QED  BY <1>2, <1>3, <1>10 DEF other

LEMMA ComplementIsByte ==
    ASSUME NEW message \in Seq(Byte)
    PROVE  checkSum(message) \in Byte
<1>1. PICK n \in Byte : n = checkTheCheckSum[message]
  BY ChecksumIsByte
<1>2. n \in Int /\ 0 <= n /\ n <= 255
  BY ByteRange
<1>3. 255 - n \in Int /\ 0 <= 255 - n /\ 255 - n <= 255
  BY <1>2
<1>. QED  BY <1>1, <1>3, ByteRange DEF checkSum

\* A message of any length verifies when its checksum has been put in its
\* third byte.
THEOREM SealedMessageVerifies ==
    ASSUME NEW message \in Seq(Byte), Len(message) >= 3, message[3] = 0
    PROVE  Verifies(Sealed(message))
<1>1. checkTheCheckSum[message] \in Byte
  BY ChecksumIsByte
<1>2. checkSum(message) \in Byte
  BY ComplementIsByte
<1>3. 3 \in 1..Len(message)
  OBVIOUS
<1>4. checkTheCheckSum[Sealed(message)] =
          plus(checkTheCheckSum[message], checkSum(message))
  BY <1>2, <1>3, ZeroCountsForNothing DEF Sealed
<1>. QED  BY <1>1, <1>4, ComplementVerifies DEF Verifies, checkSum

\* A message of any length that verifies does not verify once one of its
\* bytes has changed, unless 0 became 255 or 255 0.
THEOREM OneChangedByteIsNoticed ==
    ASSUME NEW message \in Seq(Byte), Verifies(message),
           NEW i \in 1..Len(message), NEW b \in Byte,
           Apart(message[i], b)
    PROVE  ~Verifies([message EXCEPT ![i] = b])
<1>. DEFINE N == Len(message)
            other == [message EXCEPT ![i] = b]
<1>0. N \in Nat /\ i \in 1..N
  OBVIOUS
<1>1. /\ other \in Seq(Byte) /\ Len(other) = N /\ other[i] = b
      /\ \A n \in 1..N : n # i => other[n] = message[n]
  BY ChangedMessage
<1>. HIDE DEF other, N
<1>2. PICK f : IsSum(f, message, N) /\ checkTheCheckSum[message] = f[N]
  BY Loop DEF N
<1>3. PICK g : IsSum(g, other, N) /\ checkTheCheckSum[other] = g[N]
  BY <1>1, Loop
<1>4. /\ f[0] = 0 /\ \A n \in 1..N : f[n] = plus(f[n - 1], message[n])
      /\ \A n \in 0..N : f[n] \in Byte
  BY <1>2, Rounds DEF N
<1>5. /\ g[0] = 0 /\ \A n \in 1..N : g[n] = plus(g[n - 1], other[n])
      /\ \A n \in 0..N : g[n] \in Byte
  BY <1>1, <1>3, Rounds
<1>6. \A n \in 1..N : message[n] \in Byte
  BY DEF N
<1>. DEFINE S == {n \in 0..N : IF n < i THEN f[n] = g[n]
                               ELSE Apart(f[n], g[n])}
<1>7. 0 \in S
  BY <1>0, <1>4, <1>5
<1>8. ASSUME NEW n \in 1..N, n - 1 \in S
      PROVE  n \in S
  <2>1. /\ IF n - 1 < i THEN f[n - 1] = g[n - 1]
           ELSE Apart(f[n - 1], g[n - 1])
        /\ g[n] = plus(g[n - 1], other[n])
        /\ f[n] = plus(f[n - 1], message[n])
        /\ f[n - 1] \in Byte /\ g[n - 1] \in Byte /\ message[n] \in Byte
    BY <1>4, <1>5, <1>6, <1>8
  <2>2. CASE n < i
    <3>1. n - 1 < i /\ n # i
      BY <1>0, <2>2
    <3>2. f[n] = g[n]
      BY <1>1, <2>1, <3>1
    <3>. QED  BY <1>0, <2>2, <3>2
  <2>3. CASE n = i
    <3>1. n - 1 < i /\ ~(n < i)
      BY <1>0, <2>3
    <3>2. f[n] = plus(f[n - 1], message[i]) /\ g[n] = plus(f[n - 1], b)
      BY <1>1, <2>1, <2>3, <3>1
    <3>3. Apart(f[n], g[n])
      BY <2>1, <2>3, <3>2, CorruptionIsNoticed
    <3>. QED  BY <1>0, <3>1, <3>3
  <2>4. CASE n > i
    <3>1. ~(n - 1 < i) /\ ~(n < i) /\ n # i
      BY <1>0, <2>4
    <3>2. /\ Apart(f[n - 1], g[n - 1])
          /\ f[n] = plus(f[n - 1], message[n]) /\ g[n] = plus(g[n - 1], message[n])
      BY <1>1, <2>1, <3>1
    <3>3. Apart(f[n], g[n])
      BY <2>1, <3>2, DifferenceRemains
    <3>. QED  BY <1>0, <3>1, <3>3
  <2>. QED  BY <1>0, <2>2, <2>3, <2>4
<1>. HIDE DEF S
<1>9. N \in S
  <2>1. 0..N \subseteq S
    BY <1>0, <1>7, <1>8, Induction
  <2>. QED  BY <1>0, <2>1
<1>10. f[N] # g[N]
  BY <1>0, <1>9 DEF S, Apart
<1>. QED  BY <1>2, <1>3, <1>10 DEF Verifies, other

(***************************************************************************)
(* Sequences, and the two bytes of a length.                               *)
(***************************************************************************)
LEMMA FunctionIsSequence ==
    \A S, n, f : n \in Nat /\ f \in [1..n -> S] => f \in Seq(S) /\ Len(f) = n
OBVIOUS

LEMMA Concatenation ==
    ASSUME NEW S, NEW s \in Seq(S), NEW t \in Seq(S)
    PROVE  /\ s \o t \in Seq(S)
           /\ Len(s) \in Nat /\ Len(t) \in Nat
           /\ Len(s \o t) = Len(s) + Len(t)
           /\ \A i \in 1..Len(s) : (s \o t)[i] = s[i]
           /\ \A j \in 1..Len(t) : (s \o t)[Len(s) + j] = t[j]
OBVIOUS

\* A length that two bytes can hold.
Short(n) == n <= 65535

LEMMA TwoBytes ==
    \A n \in Int : 0 <= n =>
        /\ (n \div 256) % 256 \in Byte /\ n % 256 \in Byte
        /\ Short(n) => ((n \div 256) % 256) * 256 + (n % 256) = n
<1>1. \A n \in Int : 0 <= n => (n \div 256) % 256 \in Byte /\ n % 256 \in Byte
  BY DEF Byte
<1>2. \A n \in Int : 0 <= n /\ n <= 65535 =>
          ((n \div 256) % 256) * 256 + (n % 256) = n
  OBVIOUS
<1>. QED  BY <1>1, <1>2 DEF Short

(***************************************************************************)
(* Sequences put together.                                                 *)
(***************************************************************************)
\* f is what has been put together after each of the sequences.
IsFlat(f, seqs, n) ==
    f = [k \in 1..n |-> IF k = 1 THEN seqs[k] ELSE f[k - 1] \o seqs[k]]

LEMMA FlatExists ==
    ASSUME NEW S, NEW seqs \in Seq(Seq(S)), Len(seqs) > 0
    PROVE  \E f : IsFlat(f, seqs, Len(seqs))
<1>. DEFINE N == Len(seqs)
            T == {n \in 0..N - 1 : \E f : IsFlat(f, seqs, n + 1)}
<1>0. N \in Nat /\ N > 0 /\ N - 1 \in Nat
  OBVIOUS
<1>1. 0 \in T
  <2>. DEFINE f == [k \in 1..1 |-> seqs[k]]
  <2>1. IsFlat(f, seqs, 1)
    BY DEF IsFlat
  <2>. QED  BY <1>0, <2>1
<1>2. ASSUME NEW n \in 1..N - 1, n - 1 \in T
      PROVE  n \in T
  <2>0. n - 1 + 1 = n /\ n \in Int
    BY <1>0
  <2>1. PICK f : IsFlat(f, seqs, n)
    BY <1>2, <2>0
  <2>. DEFINE g == [k \in 1..n + 1 |-> IF k = n + 1 THEN f[n] \o seqs[k] ELSE f[k]]
  <2>2. \A k \in 1..n : f[k] = IF k = 1 THEN seqs[k] ELSE f[k - 1] \o seqs[k]
    BY <2>1 DEF IsFlat
  <2>3. \A k \in 1..n + 1 : g[k] = IF k = 1 THEN seqs[k] ELSE g[k - 1] \o seqs[k]
    <3>. TAKE k \in 1..n + 1
    <3>1. CASE k = n + 1
      <4>1. k - 1 = n /\ n \in 1..n + 1 /\ n # n + 1 /\ k # 1
        BY <1>0, <3>1
      <4>. QED  BY <3>1, <4>1
    <3>2. CASE k # n + 1
      <4>1. k \in 1..n /\ (k # 1 => k - 1 \in 1..n + 1 /\ k - 1 # n + 1)
        BY <1>0, <3>2
      <4>. QED  BY <2>2, <3>2, <4>1
    <3>. QED  BY <3>1, <3>2
  <2>4. IsFlat(g, seqs, n + 1)
    BY <2>3 DEF IsFlat
  <2>. QED  BY <1>0, <2>4
<1>. HIDE DEF T, N
<1>3. 0..N - 1 \subseteq T
  BY <1>0, <1>1, <1>2, Induction
<1>4. N - 1 \in T /\ N - 1 + 1 = N
  BY <1>0, <1>3
<1>. QED  BY <1>4 DEF T, N

\* Where the parts of flat end that has been put together from seqs.
Layout(P, seqs, flat, S) ==
    /\ P \in [0..Len(seqs) -> Nat]
    /\ P[0] = 0
    /\ \A k \in 1..Len(seqs) : P[k] = P[k - 1] + Len(seqs[k])
    /\ flat \in Seq(S) /\ Len(flat) = P[Len(seqs)]
    /\ \A k \in 1..Len(seqs) : \A j \in 1..Len(seqs[k]) :
          /\ P[k - 1] + j \in 1..Len(flat)
          /\ flat[P[k - 1] + j] = seqs[k][j]
    /\ \A i \in 1..Len(flat) :
          \E k \in 1..Len(seqs) : \E j \in 1..Len(seqs[k]) : i = P[k - 1] + j

\* The same after the first e of seqs.
LaidOut(P, seqs, flat, S, e) ==
    /\ flat \in Seq(S)
    /\ \A k \in 1..e : P[k] \in Nat /\ P[k] = P[k - 1] + Len(seqs[k])
    /\ \A k \in 1..e : \A j \in 1..Len(seqs[k]) :
          /\ P[k - 1] + j \in 1..P[e]
          /\ flat[P[k - 1] + j] = seqs[k][j]
    /\ \A i \in 1..P[e] :
          \E k \in 1..e : \E j \in 1..Len(seqs[k]) : i = P[k - 1] + j

LEMMA Flattened ==
    ASSUME NEW S, NEW seqs \in Seq(Seq(S)), Len(seqs) > 0
    PROVE  \E P : Layout(P, seqs, FlattenSeq(seqs), S)
<1>. DEFINE N == Len(seqs)
            f == CHOOSE g : IsFlat(g, seqs, N)
            P == [k \in 0..N |-> IF k = 0 THEN 0 ELSE Len(f[k])]
            T == {n \in 0..N - 1 : LaidOut(P, seqs, f[n + 1], S, n + 1)}
<1>0. N \in Nat /\ N > 0 /\ N - 1 \in Nat
  OBVIOUS
<1>1. IsFlat(f, seqs, N)
  BY FlatExists
<1>2. FlattenSeq(seqs) = f[N]
  BY SMTT(30) DEF FlattenSeq, IsFlat
<1>3. \A k \in 1..N : f[k] = IF k = 1 THEN seqs[k] ELSE f[k - 1] \o seqs[k]
  BY <1>1, Zenon DEF IsFlat
<1>4. \A k \in 1..N : seqs[k] \in Seq(S) /\ Len(seqs[k]) \in Nat
  OBVIOUS
<1>. HIDE DEF f, N
<1>5. P[0] = 0 /\ \A k \in 1..N : P[k] = Len(f[k])
  BY <1>0
<1>. HIDE DEF P
<1>6. 0 \in T
  <2>1. 1 \in 1..N /\ 0 + 1 = 1 /\ 0 \in 0..N - 1 /\ 1 - 1 = 0
    BY <1>0
  <2>2. f[1] = seqs[1] /\ seqs[1] \in Seq(S) /\ P[1] = Len(seqs[1]) /\ P[1] \in Nat
    BY <1>3, <1>4, <1>5, <2>1
  <2>3. \A j \in Int : P[0] + j = j
    BY <1>5
  <2>4. LaidOut(P, seqs, f[1], S, 1)
    BY <1>5, <2>1, <2>2, <2>3 DEF LaidOut
  <2>. QED  BY <2>1, <2>4
<1>7. ASSUME NEW n \in 1..N - 1, n - 1 \in T
      PROVE  n \in T
  <2>1. PICK m \in 1..N : m = n + 1 /\ m - 1 = n /\ m # 1 /\ n - 1 + 1 = n /\ n \in 1..N
    BY <1>0
  <2>2. LaidOut(P, seqs, f[n], S, n)
    BY <1>7, <2>1
  <2>. DEFINE L == Len(seqs[m])
              a == P[n]
              b == P[m]
  <2>3. f[m] = f[n] \o seqs[m] /\ seqs[m] \in Seq(S) /\ L \in Nat
    BY <1>3, <1>4, <2>1
  <2>4. f[n] \in Seq(S) /\ a = Len(f[n]) /\ b = Len(f[m])
    BY <1>5, <2>1, <2>2 DEF LaidOut
  <2>a. /\ f[m] \in Seq(S) /\ Len(f[n]) \in Nat
        /\ Len(f[m]) = Len(f[n]) + Len(seqs[m])
        /\ \A i \in 1..Len(f[n]) : f[m][i] = f[n][i]
        /\ \A j \in 1..Len(seqs[m]) : f[m][Len(f[n]) + j] = seqs[m][j]
    <3>. DEFINE s == f[n]
                t == seqs[m]
    <3>1. s \in Seq(S) /\ t \in Seq(S) /\ f[m] = s \o t
      BY <2>3, <2>4
    <3>. HIDE DEF s, t
    <3>2. /\ s \o t \in Seq(S) /\ Len(s) \in Nat
          /\ Len(s \o t) = Len(s) + Len(t)
          /\ \A i \in 1..Len(s) : (s \o t)[i] = s[i]
          /\ \A j \in 1..Len(t) : (s \o t)[Len(s) + j] = t[j]
      BY <3>1, Concatenation
    <3>. QED  BY <3>1, <3>2 DEF s, t
  <2>5. a \in Nat /\ b \in Nat /\ b = a + L
    <3>1. Len(f[n]) \in Nat /\ Len(f[m]) = Len(f[n]) + L
      BY <2>a
    <3>. HIDE DEF L, a, b
    <3>. QED  BY <2>3, <2>4, <3>1
  <2>b. /\ \A i \in 1..a : f[m][i] = f[n][i]
        /\ \A j \in 1..L : f[m][a + j] = seqs[m][j]
    BY <2>4, <2>a
  <2>. HIDE DEF a, b, L
  <2>6. \A k \in 1..m : k \in 1..n \/ k = m
    BY <2>1
  <2>7. \A k \in 1..m : P[k] \in Nat /\ P[k] = P[k - 1] + Len(seqs[k])
    BY <2>1, <2>2, <2>5, <2>6 DEF LaidOut, a, b, L
  <2>8. ASSUME NEW k \in 1..m, NEW j \in 1..Len(seqs[k])
        PROVE  /\ P[k - 1] + j \in 1..P[m]
               /\ f[m][P[k - 1] + j] = seqs[k][j]
    <3>1. CASE k \in 1..n
      <4>1. P[k - 1] + j \in 1..a /\ f[n][P[k - 1] + j] = seqs[k][j]
        BY <2>2, <2>8, <3>1 DEF LaidOut, a
      <4>2. P[k - 1] + j \in 1..b
        BY <2>3, <2>5, <4>1
      <4>. QED  BY <2>b, <4>1, <4>2 DEF b
    <3>2. CASE k = m
      <4>1. P[k - 1] = a /\ j \in 1..L
        BY <2>1, <2>8, <3>2 DEF a, L
      <4>2. a + j \in 1..b
        BY <2>3, <2>5, <4>1
      <4>. QED  BY <2>b, <3>2, <4>1, <4>2 DEF b
    <3>. QED  BY <2>6, <3>1, <3>2
  <2>9. ASSUME NEW i \in 1..P[m]
        PROVE  \E k \in 1..m : \E j \in 1..Len(seqs[k]) : i = P[k - 1] + j
    <3>1. CASE i \in 1..a
      <4>1. PICK k \in 1..n : \E j \in 1..Len(seqs[k]) : i = P[k - 1] + j
        BY <2>2, <3>1 DEF LaidOut, a
      <4>2. k \in 1..m
        BY <2>1
      <4>. QED  BY <4>1, <4>2
    <3>2. CASE i \notin 1..a
      <4>1. i \in 1..b
        BY DEF b
      <4>2. i - a \in 1..L /\ i = a + (i - a)
        BY <2>3, <2>5, <3>2, <4>1
      <4>3. m \in 1..m /\ P[m - 1] = a
        BY <2>1 DEF a
      <4>. QED  BY <4>2, <4>3 DEF L
    <3>. QED  BY <3>1, <3>2
  <2>10. LaidOut(P, seqs, f[m], S, m)
    BY <2>a, <2>7, <2>8, <2>9 DEF LaidOut
  <2>. QED  BY <1>0, <2>1, <2>10
<1>. HIDE DEF T
<1>8. LaidOut(P, seqs, f[N], S, N)
  <2>1. 0..N - 1 \subseteq T
    BY <1>0, <1>6, <1>7, Induction
  <2>2. N - 1 \in T /\ N - 1 + 1 = N
    BY <1>0, <2>1
  <2>. QED  BY <2>2 DEF T
<1>9. P \in [0..N -> Nat]
  <2>1. \A k \in 0..N : P[k] \in Nat
    <3>. TAKE k \in 0..N
    <3>1. CASE k = 0
      BY <1>5, <3>1
    <3>2. CASE k # 0
      <4>1. k \in 1..N
        BY <1>0, <3>2
      <4>. QED  BY <1>8, <4>1 DEF LaidOut
    <3>. QED  BY <3>1, <3>2
  <2>. QED  BY <2>1 DEF P
<1>10. N \in 1..N /\ P[N] = Len(f[N])
  BY <1>0, <1>5
<1>11. /\ f[N] \in Seq(S) /\ Len(f[N]) = P[N]
       /\ \A k \in 1..N : P[k] = P[k - 1] + Len(seqs[k])
  BY <1>8, <1>10 DEF LaidOut
<1>12. \A k \in 1..N : \A j \in 1..Len(seqs[k]) :
          P[k - 1] + j \in 1..P[N] /\ f[N][P[k - 1] + j] = seqs[k][j]
  BY <1>8 DEF LaidOut
<1>13. \A i \in 1..P[N] :
          \E k \in 1..N : \E j \in 1..Len(seqs[k]) : i = P[k - 1] + j
  BY <1>8 DEF LaidOut
<1>14. Layout(P, seqs, f[N], S)
  BY <1>5, <1>9, <1>11, <1>12, <1>13 DEF N, Layout
<1>. QED  BY <1>2, <1>14

(***************************************************************************)
(* Taking apart what has been joined.                                      *)
(***************************************************************************)
LEMMA LayoutGrows ==
    ASSUME NEW N \in Nat, NEW P \in [0..N -> Nat],
           \A k \in 1..N : P[k - 1] < P[k]
    PROVE  \A k \in 0..N : \A j \in 0..N : j < k => P[j] < P[k]
<1>. DEFINE T == {k \in 0..N : \A j \in 0..N : j < k => P[j] < P[k]}
<1>1. 0 \in T
  OBVIOUS
<1>2. ASSUME NEW n \in 1..N, n - 1 \in T
      PROVE  n \in T
  <2>1. n - 1 \in 0..N /\ n \in 0..N
    OBVIOUS
  <2>2. P[n - 1] < P[n] /\ P[n - 1] \in Nat /\ P[n] \in Nat
    BY <2>1
  <2>3. ASSUME NEW j \in 0..N, j < n
        PROVE  P[j] < P[n]
    <3>1. CASE j = n - 1
      BY <2>2, <3>1
    <3>2. CASE j # n - 1
      <4>1. j < n - 1 /\ P[j] \in Nat
        BY <2>3, <3>2
      <4>2. P[j] < P[n - 1]
        BY <1>2, <4>1
      <4>. QED  BY <2>2, <4>1, <4>2
    <3>. QED  BY <3>1, <3>2
  <2>. QED  BY <2>1, <2>3
<1>. HIDE DEF T
<1>3. 0..N \subseteq T
  BY <1>1, <1>2, Induction
<1>. QED  BY <1>3 DEF T

\* The end of each part, given the set of all ends.
IsEnds(f, ends, n) ==
    f = [k \in 0..n |-> IF k = 0 THEN 0 ELSE Min({j \in ends : j > f[k - 1]})]

LEMMA EndsInOrder ==
    ASSUME NEW N \in Nat, NEW P \in [0..N -> Nat], P[0] = 0,
           \A k \in 1..N : P[k - 1] < P[k]
    PROVE  LET ends == {P[k] : k \in 1..N}
           IN  /\ Cardinality(ends) = N
               /\ (CHOOSE f : IsEnds(f, ends, N)) = P
<1>. DEFINE ends == {P[k] : k \in 1..N}
<1>1. \A k \in 0..N : \A j \in 0..N : j < k => P[j] < P[k]
  BY LayoutGrows
<1>2. Cardinality(ends) = N
  <2>. DEFINE F == [k \in 1..N |-> P[k]]
  <2>1. F \in [1..N -> ends] /\ \A y \in ends : \E k \in 1..N : F[k] = y
    OBVIOUS
  <2>2. \A j, k \in 1..N : F[j] = F[k] => j = k
    <3>. SUFFICES ASSUME NEW j \in 1..N, NEW k \in 1..N, P[j] = P[k], j # k
                  PROVE  FALSE
      OBVIOUS
    <3>1. j \in 0..N /\ k \in 0..N /\ P[j] \in Nat /\ P[k] \in Nat
      OBVIOUS
    <3>2. P[j] < P[k] \/ P[k] < P[j]
      BY <1>1, <3>1
    <3>. QED  BY <3>1, <3>2
  <2>3. F \in Bijection(1..N, ends)
    BY <2>1, <2>2 DEF Bijection, Injection, Surjection, IsInjective
  <2>. QED  BY <2>3, FS_NatBijection, FS_CountingElements DEF ExistsBijection
<1>3. ASSUME NEW k \in 1..N
      PROVE  Min({j \in ends : j > P[k - 1]}) = P[k]
  <2>. DEFINE D == {j \in ends : j > P[k - 1]}
  <2>0. k - 1 \in 0..N /\ k \in 0..N /\ P[k - 1] \in Nat /\ P[k] \in Nat
    OBVIOUS
  <2>1. P[k] \in D
    BY <2>0
  <2>2. ASSUME NEW j \in D
        PROVE  P[k] <= j
    <3>1. PICK i \in 1..N : j = P[i] /\ P[i] > P[k - 1]
      BY <2>2
    <3>2. i \in 0..N /\ P[i] \in Nat
      OBVIOUS
    <3>3. ~(i < k)
      <4>. SUFFICES ASSUME i < k PROVE FALSE
        OBVIOUS
      <4>1. i = k - 1 \/ i < k - 1
        OBVIOUS
      <4>2. P[i] <= P[k - 1]
        <5>1. CASE i = k - 1
          BY <2>0, <5>1
        <5>2. CASE i < k - 1
          <6>1. P[i] < P[k - 1]
            BY <1>1, <2>0, <3>2, <5>2
          <6>. QED  BY <2>0, <3>2, <6>1
        <5>. QED  BY <4>1, <5>1, <5>2
      <4>. QED  BY <2>0, <3>1, <3>2, <4>2
    <3>4. i = k \/ k < i
      BY <3>3
    <3>. QED  BY <1>1, <2>0, <3>1, <3>2, <3>4
  <2>3. D \subseteq Nat
    OBVIOUS
  <2>. HIDE DEF D
  <2>4. \A m \in D : (\A j \in D : m <= j) => m = P[k]
    BY <2>0, <2>1, <2>2, <2>3
  <2>5. Min(D) = P[k]
    BY <2>1, <2>2, <2>4, Zenon DEF Min
  <2>. QED  BY <2>5 DEF D
<1>. HIDE DEF ends
<1>. DEFINE g == CHOOSE f : IsEnds(f, ends, N)
<1>4. IsEnds(P, ends, N)
  <2>1. P = [k \in 0..N |-> P[k]]
    OBVIOUS
  <2>2. \A k \in 0..N : P[k] = IF k = 0 THEN 0 ELSE Min({j \in ends : j > P[k - 1]})
    <3>. TAKE k \in 0..N
    <3>1. k # 0 => k \in 1..N
      OBVIOUS
    <3>. QED  BY <1>3, <3>1
  <2>. QED  BY <2>1, <2>2 DEF IsEnds
<1>5. IsEnds(g, ends, N)
  BY <1>4
<1>. HIDE DEF g
<1>. DEFINE T == {k \in 0..N : g[k] = P[k]}
<1>6. 0 \in T
  BY <1>5 DEF IsEnds
<1>7. ASSUME NEW n \in 1..N, n - 1 \in T
      PROVE  n \in T
  <2>1. n \in 0..N /\ n # 0
    OBVIOUS
  <2>2. g[n] = Min({j \in ends : j > g[n - 1]})
    BY <1>5, <2>1 DEF IsEnds
  <2>. QED  BY <1>3, <1>7, <2>1, <2>2
<1>8. 0..N \subseteq T
  <2>. HIDE DEF T
  <2>. QED  BY <1>6, <1>7, Induction
<1>9. g = P
  <2>1. \A k \in 0..N : g[k] = P[k]
    BY <1>8
  <2>2. g = [k \in 0..N |-> g[k]]
    BY <1>5 DEF IsEnds
  <2>. QED  BY <2>1, <2>2
<1>. QED  BY <1>2, <1>9 DEF g, ends

\* What split() returns, with its recursion by name.
LEMMA SplitByEnds ==
    ASSUME NEW body, NEW d
    PROVE  LET ends == {i \in 1..Len(body) : body[i] = d} \cup {Len(body) + 1}
               n == Cardinality(ends)
               f == CHOOSE g : IsEnds(g, ends, n)
           IN  split(body, d) =
                   [k \in 1..n |-> SubSeq(body, f[k - 1] + 1, f[k] - 1)]
BY DEF split, IsEnds

LEMMA ElementOfSequence ==
    ASSUME NEW S, NEW s \in Seq(S), NEW i \in 1..Len(s)
    PROVE  s[i] \in S
OBVIOUS

LEMMA TailOfSequence ==
    ASSUME NEW S, NEW s \in Seq(S), Len(s) > 0
    PROVE  /\ Tail(s) \in Seq(S)
           /\ Len(Tail(s)) \in Nat /\ Len(s) = Len(Tail(s)) + 1
           /\ \A i \in 1..Len(Tail(s)) : Tail(s)[i] = s[i + 1]
OBVIOUS

LEMMA PartOfSequence ==
    ASSUME NEW S, NEW s \in Seq(S), NEW a \in Nat \ {0}, NEW n \in Nat,
           a + n - 1 <= Len(s), NEW b, b = a + n - 1
    PROVE  /\ SubSeq(s, a, b) \in Seq(S)
           /\ Len(SubSeq(s, a, b)) = n
           /\ \A j \in 1..n : SubSeq(s, a, b)[j] = s[a - 1 + j]
OBVIOUS

LEMMA SameSequence ==
    ASSUME NEW S, NEW s \in Seq(S), NEW t \in Seq(S), Len(s) = Len(t),
           \A i \in 1..Len(s) : s[i] = t[i]
    PROVE  s = t
OBVIOUS

\* Between its bytes p and q, body reads like name.
ReadsLike(body, p, q, name) ==
    /\ p \in Nat /\ q \in Nat /\ q = p + 1 + Len(name) /\ q <= Len(body) + 1
    /\ \A j \in 1..Len(name) : body[p + j] = name[j]

LEMMA PartIsSequence ==
    ASSUME NEW S, NEW body \in Seq(S), NEW name \in Seq(S), NEW p, NEW q,
           ReadsLike(body, p, q, name)
    PROVE  SubSeq(body, p + 1, q - 1) = name
<1>0. /\ p \in Nat /\ q \in Nat /\ q = p + 1 + Len(name) /\ q <= Len(body) + 1
      /\ \A j \in 1..Len(name) : body[p + j] = name[j]
  BY DEF ReadsLike
<1>1. PICK a \in Nat \ {0} : a = p + 1 /\ a - 1 = p
  BY <1>0
<1>2. PICK n \in Nat : n = Len(name)
  OBVIOUS
<1>3. a + n - 1 <= Len(body) /\ q - 1 = a + n - 1
  BY <1>0, <1>1, <1>2
<1>4. PICK b : b = a + n - 1
  OBVIOUS
<1>5. /\ SubSeq(body, a, b) \in Seq(S)
      /\ Len(SubSeq(body, a, b)) = n
      /\ \A j \in 1..n : SubSeq(body, a, b)[j] = body[a - 1 + j]
  BY <1>3, <1>4
<1>6. \A j \in 1..n : SubSeq(body, a, b)[j] = name[j]
  BY <1>0, <1>1, <1>2, <1>5
<1>7. SubSeq(body, a, b) = name
  BY <1>2, <1>5, <1>6, SameSequence
<1>. QED  BY <1>1, <1>3, <1>4, <1>7

LEMMA OneBefore ==
    ASSUME NEW S, NEW d \in S, NEW t \in Seq(S)
    PROVE  /\ <<d>> \o t \in Seq(S)
           /\ Len(<<d>> \o t) = 1 + Len(t)
           /\ (<<d>> \o t)[1] = d
           /\ \A j \in 1..Len(t) : (<<d>> \o t)[1 + j] = t[j]
OBVIOUS

\* The names that a client joins, a delimiter before each but the first, are
\* what the server gets when it splits them (UDPClient.c 156-183;
\* UDPserver.py 112-115).
THEOREM SplitUndoesJoin ==
    ASSUME NEW S, NEW d \in S, NEW names \in Seq(Seq(S)), Len(names) > 0,
           \A k \in 1..Len(names) : \A j \in 1..Len(names[k]) : names[k][j] # d
    PROVE  split(Tail(FlattenSeq([k \in 1..Len(names) |-> <<d>> \o names[k]])), d)
               = names
<1>. DEFINE N == Len(names)
            parts == [k \in 1..N |-> <<d>> \o names[k]]
            flat == FlattenSeq(parts)
            body == Tail(flat)
<1>0. N \in Nat /\ N > 0 /\ \A k \in 1..N : names[k] \in Seq(S) /\ Len(names[k]) \in Nat
  OBVIOUS
<1>1. \A k \in 1..N : /\ parts[k] \in Seq(S)
                      /\ Len(parts[k]) = 1 + Len(names[k])
                      /\ parts[k][1] = d
                      /\ \A j \in 1..Len(names[k]) : parts[k][1 + j] = names[k][j]
  BY <1>0, OneBefore
<1>2. parts \in Seq(Seq(S)) /\ Len(parts) = N
  <2>1. parts \in [1..N -> Seq(S)]
    BY <1>1
  <2>. QED  BY <1>0, <2>1, FunctionIsSequence
<1>. HIDE DEF parts, N
<1>3. PICK P : Layout(P, parts, flat, S)
  BY <1>0, <1>2, Flattened
<1>4. /\ P \in [0..N -> Nat] /\ P[0] = 0
      /\ \A k \in 1..N : P[k] = P[k - 1] + 1 + Len(names[k])
      /\ flat \in Seq(S) /\ Len(flat) = P[N]
  <2>1. P \in [0..N -> Nat] /\ \A k \in 1..N : P[k] = P[k - 1] + Len(parts[k])
    BY <1>2, <1>3 DEF Layout
  <2>2. ASSUME NEW k \in 1..N
        PROVE  P[k] = P[k - 1] + 1 + Len(names[k])
    <3>1. k - 1 \in 0..N
      BY <1>0
    <3>2. PICK p \in Nat, n \in Nat : p = P[k - 1] /\ n = Len(names[k])
      BY <1>0, <2>1, <3>1
    <3>3. p + (1 + n) = p + 1 + n
      OBVIOUS
    <3>. QED  BY <1>1, <2>1, <3>2, <3>3
  <2>. QED  BY <1>2, <1>3, <2>2 DEF Layout
<1>5. ASSUME NEW k \in 1..N
      PROVE  /\ flat[P[k - 1] + 1] = d
             /\ \A j \in 1..Len(names[k]) : flat[P[k - 1] + (1 + j)] = names[k][j]
  <2>1. \A j \in 1..Len(parts[k]) : flat[P[k - 1] + j] = parts[k][j]
    BY <1>2, <1>3 DEF Layout
  <2>2. 1 \in 1..Len(parts[k]) /\ \A j \in 1..Len(names[k]) : 1 + j \in 1..Len(parts[k])
    BY <1>0, <1>1
  <2>. QED  BY <1>1, <2>1, <2>2
<1>6. ASSUME NEW i \in 1..Len(flat), flat[i] = d
      PROVE  \E k \in 1..N : i = P[k - 1] + 1
  <2>1. PICK k \in 1..N : \E j \in 1..Len(parts[k]) : i = P[k - 1] + j
    BY <1>2, <1>3 DEF Layout
  <2>2. PICK j \in 1..Len(parts[k]) : i = P[k - 1] + j
    BY <2>1
  <2>3. CASE j = 1
    BY <2>2, <2>3
  <2>4. CASE j # 1
    <3>1. j - 1 \in 1..Len(names[k]) /\ j = 1 + (j - 1)
      BY <1>0, <1>1, <2>4
    <3>2. flat[i] = names[k][j - 1]
      BY <1>5, <2>2, <3>1
    <3>. QED  BY <1>6, <3>1, <3>2 DEF N
  <2>. QED  BY <2>3, <2>4
<1>7. \A k \in 1..N : P[k - 1] < P[k] /\ P[k - 1] \in Nat /\ P[k] \in Nat
  <2>. TAKE k \in 1..N
  <2>1. P[k - 1] \in Nat /\ P[k] \in Nat /\ Len(names[k]) \in Nat
    BY <1>0, <1>4
  <2>2. PICK x \in Nat, y \in Nat, n \in Nat :
            x = P[k - 1] /\ y = P[k] /\ n = Len(names[k]) /\ y = x + 1 + n
    BY <1>4, <2>1, Zenon
  <2>3. x < y
    BY <2>2
  <2>. QED  BY <2>2, <2>3, Zenon
<1>8. \A k \in 0..N : \A j \in 0..N : j < k => P[j] < P[k]
  BY <1>0, <1>4, <1>7, LayoutGrows
<1>9. P[N] > 0 /\ P[N] \in Nat /\ N \in 0..N /\ N \in 1..N
  <2>1. 0 \in 0..N /\ N \in 0..N /\ 0 < N /\ N \in 1..N
    BY <1>0
  <2>. QED  BY <1>4, <1>8, <2>1
<1>. HIDE DEF flat
<1>10. /\ body \in Seq(S) /\ Len(body) \in Nat /\ P[N] = Len(body) + 1
       /\ \A i \in 1..Len(body) : body[i] = flat[i + 1]
  BY <1>4, <1>9, TailOfSequence
<1>. HIDE DEF body
<1>. DEFINE ends == {i \in 1..Len(body) : body[i] = d} \cup {Len(body) + 1}
<1>11. ends = {P[k] : k \in 1..N}
  <2>1. ASSUME NEW i \in ends
        PROVE  i \in {P[k] : k \in 1..N}
    <3>1. CASE i = Len(body) + 1
      BY <1>9, <1>10, <3>1
    <3>2. CASE i \in 1..Len(body) /\ body[i] = d
      <4>1. i + 1 \in 1..Len(flat) /\ flat[i + 1] = d /\ i \in Nat /\ i > 0
        BY <1>4, <1>9, <1>10, <3>2
      <4>2. PICK k \in 1..N : i + 1 = P[k - 1] + 1
        BY <1>6, <4>1
      <4>3. P[k - 1] = i
        BY <1>7, <4>1, <4>2
      <4>4. k - 1 # 0
        BY <1>4, <4>1, <4>3
      <4>5. k - 1 \in 1..N
        BY <1>0, <4>4
      <4>. QED  BY <4>3, <4>5
    <3>. QED  BY <2>1, <3>1, <3>2
  <2>2. ASSUME NEW k \in 1..N
        PROVE  P[k] \in ends
    <3>1. CASE k = N
      BY <1>10, <3>1
    <3>2. CASE k # N
      <4>1. k + 1 \in 1..N /\ k + 1 - 1 = k /\ k \in 0..N /\ 0 \in 0..N /\ 0 < k /\ k < N
        BY <1>0, <3>2
      <4>2. 0 < P[k] /\ P[k] < P[N] /\ P[k] \in Nat
        BY <1>4, <1>7, <1>8, <1>9, <4>1
      <4>3. P[k] \in 1..Len(body)
        BY <1>10, <4>2
      <4>4. flat[P[k] + 1] = d
        BY <1>5, <4>1
      <4>. QED  BY <1>10, <4>3, <4>4
    <3>. QED  BY <3>1, <3>2
  <2>. QED  BY <2>1, <2>2
<1>12. /\ Cardinality(ends) = N
       /\ (CHOOSE f : IsEnds(f, ends, N)) = P
  <2>1. /\ Cardinality({P[k] : k \in 1..N}) = N
        /\ (CHOOSE f : IsEnds(f, {P[k] : k \in 1..N}, N)) = P
    BY <1>0, <1>4, <1>7, EndsInOrder
  <2>. HIDE DEF ends
  <2>. QED  BY <1>11, <2>1
<1>13. split(body, d) = [k \in 1..N |-> SubSeq(body, P[k - 1] + 1, P[k] - 1)]
  <2>1. split(body, d) =
            [k \in 1..Cardinality(ends) |->
                SubSeq(body, (CHOOSE g : IsEnds(g, ends, Cardinality(ends)))[k - 1] + 1,
                             (CHOOSE g : IsEnds(g, ends, Cardinality(ends)))[k] - 1)]
    BY SplitByEnds
  <2>. HIDE DEF ends
  <2>. QED  BY <1>12, <2>1
<1>14. ASSUME NEW k \in 1..N
       PROVE  SubSeq(body, P[k - 1] + 1, P[k] - 1) = names[k]
  <2>. DEFINE p == P[k - 1]
              q == P[k]
              L == Len(names[k])
  <2>1. /\ L \in Nat /\ p \in Nat /\ q \in Nat /\ P[N] \in Nat
        /\ q = p + 1 + L /\ q <= P[N]
    <3>1. k = N \/ (k < N /\ k \in 0..N /\ N \in 0..N)
      BY <1>0
    <3>2. p \in Nat /\ q \in Nat /\ P[N] \in Nat /\ L \in Nat
      BY <1>0, <1>7, <1>9
    <3>3. q = p + 1 + L
      BY <1>0, <1>4, <3>2
    <3>4. q <= P[N]
      <4>1. k = N \/ q < P[N]
        BY <1>8, <3>1
      <4>. QED  BY <3>2, <4>1
    <3>. QED  BY <3>2, <3>3, <3>4
  <2>3. names[k] \in Seq(S) /\ L = Len(names[k])
    BY <1>0
  <2>9. \A j \in 1..L : flat[p + (1 + j)] = names[k][j]
    BY <1>5
  <2>. HIDE DEF p, q
  <2>4. q <= Len(body) + 1
    BY <1>10, <2>1
  <2>5. ASSUME NEW j \in 1..L
        PROVE  body[p + j] = names[k][j]
    <3>. HIDE DEF L
    <3>1. p + j \in 1..Len(body) /\ (p + j) + 1 = p + (1 + j)
      BY <1>10, <2>1
    <3>. QED  BY <1>10, <2>9, <3>1
  <2>6. ReadsLike(body, p, q, names[k])
    BY <2>1, <2>4, <2>5, Zenon DEF ReadsLike
  <2>7. body \in Seq(S)
    BY <1>10
  <2>8. SubSeq(body, p + 1, q - 1) = names[k]
    BY <2>3, <2>6, <2>7, PartIsSequence, Zenon
  <2>. QED  BY <2>8 DEF p, q
<1>15. split(body, d) = [k \in 1..N |-> names[k]]
  BY <1>13, <1>14
<1>16. names = [k \in 1..N |-> names[k]]
  BY DEF N
<1>. QED  BY <1>15, <1>16 DEF body, flat, parts, N

(***************************************************************************)
(* The datagrams of the clients.                                           *)
(***************************************************************************)
LEMMA PartsOfRequest ==
    ASSUME NEW r \in Seq(Byte), NEW body \in Seq(Byte), NEW n,
           n = 6 + Len(body), Len(r) = n, r[6] = delim,
           \A j \in 1..Len(body) : r[6 + j] = body[j],
           lengthOfPacket(r) = n
    PROVE  listOfHosts(r) = split(body, delim)
<1>1. Len(body) \in Nat /\ 7 \in Nat \ {0} /\ 7 - 1 = 6
  OBVIOUS
<1>2. PICK k \in Nat : k = Len(body) /\ n = 7 + k - 1 /\ 7 + k - 1 <= Len(r)
  BY <1>1
<1>3. /\ SubSeq(r, 7, n) \in Seq(Byte)
      /\ Len(SubSeq(r, 7, n)) = k
      /\ \A j \in 1..k : SubSeq(r, 7, n)[j] = r[7 - 1 + j]
  BY <1>1, <1>2, PartOfSequence
<1>4. \A j \in 1..k : SubSeq(r, 7, n)[j] = body[j]
  BY <1>1, <1>2, <1>3, Zenon
<1>5. SubSeq(r, 7, n) = body
  BY <1>2, <1>3, <1>4, SameSequence, Zenon
<1>6. listOfHosts(r) = split(SubSeq(r, 7, n), delim)
  BY DEF listOfHosts
<1>. QED  BY <1>5, <1>6, Zenon

\* A request verifies.  It says how long it is, and the server finds in it
\* the names that the client has been given, if two bytes are enough for the
\* length.
LEMMA RequestIsRight ==
    ASSUME NEW c \in Clients
    PROVE  /\ Request(c) \in Seq(Byte)
           /\ Len(Request(c)) >= 6
           /\ Verifies(Request(c))
           /\ Short(Len(Request(c))) =>
                 /\ lengthOfPacket(Request(c)) = Len(Request(c))
                 /\ listOfHosts(Request(c)) = Hosts[c]
<1>. DEFINE names == [e \in 1..Len(Hosts[c]) |-> <<delim>> \o Hosts[c][e]]
            body == Tail(FlattenSeq(names))
            length == 6 + Len(body)
            message == <<(length \div 256) % 256, length % 256, 0, gid, reqID[c], delim>>
                           \o body
<1>1. Hosts[c] \in Seq(Names) /\ Len(Hosts[c]) \in Nat /\ Len(Hosts[c]) > 0
  BY RequestAssumption
<1>2. delim \in Byte
  BY DEF delim, Byte
<1>a. /\ Hosts[c] \in Seq(Seq(Byte))
      /\ \A e \in 1..Len(Hosts[c]) : \A j \in 1..Len(Hosts[c][e]) :
            Hosts[c][e][j] # delim
  <2>1. \A e \in 1..Len(Hosts[c]) : Hosts[c][e] \in Seq(1..127 \ {delim})
    BY <1>1 DEF Names
  <2>2. 1..127 \ {delim} \subseteq Byte
    BY DEF Byte
  <2>3. \A e \in 1..Len(Hosts[c]) : \A j \in 1..Len(Hosts[c][e]) :
            Hosts[c][e][j] \in 1..127 \ {delim}
    BY <2>1, ElementOfSequence
  <2>4. \A e \in 1..Len(Hosts[c]) : Hosts[c][e] \in Seq(Byte)
    BY <2>1, <2>2
  <2>. QED  BY <1>1, <2>3, <2>4
<1>3. names \in Seq(Seq(Byte)) /\ Len(names) > 0 /\ Len(names[1]) > 0
  <2>1. \A e \in 1..Len(Hosts[c]) : Hosts[c][e] \in Seq(Byte)
    BY <1>a
  <2>2. \A e \in 1..Len(Hosts[c]) :
            names[e] \in Seq(Byte) /\ Len(names[e]) = 1 + Len(Hosts[c][e])
    BY <1>2, <2>1
  <2>3. names \in Seq(Seq(Byte)) /\ Len(names) = Len(Hosts[c])
    <3>1. names \in [1..Len(Hosts[c]) -> Seq(Byte)]
      BY <2>2
    <3>. QED  BY <1>1, <3>1, FunctionIsSequence
  <2>4. Len(Hosts[c][1]) \in Nat
    BY <1>1, <2>1
  <2>. QED  BY <1>1, <2>2, <2>3, <2>4
<1>. HIDE DEF names
<1>4. body \in Seq(Byte) /\ Len(body) \in Nat
  <2>1. PICK P : Layout(P, names, FlattenSeq(names), Byte)
    BY <1>3, Flattened
  <2>2. FlattenSeq(names) \in Seq(Byte) /\ FlattenSeq(names) # <<>>
    <3>1. 1 \in 1..Len(names) /\ 1 \in 1..Len(names[1])
      BY <1>3
    <3>2. P[1 - 1] + 1 \in 1..Len(FlattenSeq(names))
      BY <2>1, <3>1 DEF Layout
    <3>. QED  BY <2>1, <3>2 DEF Layout
  <2>. QED  BY <2>1, <2>2
<1>b. split(body, delim) = Hosts[c]
  BY <1>1, <1>2, <1>a, SplitUndoesJoin DEF names
<1>. HIDE DEF body
<1>5. length \in Nat /\ (length \div 256) % 256 \in Byte /\ length % 256 \in Byte
  <2>1. length \in Nat
    BY <1>4
  <2>. QED  BY <2>1, TwoBytes
<1>6. gid \in Byte /\ reqID[c] \in Byte /\ 0 \in Byte
  BY RequestAssumption DEF Byte
<1>. DEFINE head == <<(length \div 256) % 256, length % 256, 0, gid, reqID[c], delim>>
<1>7. head \in Seq(Byte) /\ Len(head) = 6
  BY <1>2, <1>5, <1>6
<1>8. /\ message \in Seq(Byte) /\ Len(message) = length
      /\ message[1] = (length \div 256) % 256
      /\ message[2] = length % 256 /\ message[3] = 0
      /\ message[6] = delim /\ \A j \in 1..Len(body) : message[6 + j] = body[j]
  BY <1>4, <1>7
<1>9. Len(message) >= 6 /\ 3 \in 1..Len(message)
  BY <1>4, <1>8
<1>10. Request(c) = Sealed(message)
  BY DEF Request, names, body
<1>. HIDE DEF message
<1>11. checkSum(message) \in Byte
  BY <1>8, ComplementIsByte
<1>12. /\ Request(c) \in Seq(Byte) /\ Len(Request(c)) = Len(message)
       /\ Request(c)[1] = message[1] /\ Request(c)[2] = message[2]
       /\ Request(c)[6] = delim
       /\ \A j \in 1..Len(body) : Request(c)[6 + j] = body[j]
  <2>1. /\ 1 \in 1..Len(message) /\ 2 \in 1..Len(message) /\ 6 \in 1..Len(message)
        /\ \A j \in 1..Len(body) : 6 + j \in 1..Len(message) /\ 6 + j # 3
    BY <1>4, <1>8, <1>9
  <2>. QED  BY <1>8, <1>9, <1>10, <1>11, <2>1, ChangedMessage DEF Sealed
<1>13. Verifies(Request(c))
  BY <1>8, <1>9, <1>10, SealedMessageVerifies
<1>14. Short(length) => ((length \div 256) % 256) * 256 + (length % 256) = length
  BY <1>5, TwoBytes
<1>15. Short(length) => lengthOfPacket(Request(c)) = length
  BY <1>8, <1>12, <1>14 DEF lengthOfPacket
<1>17. Short(length) => listOfHosts(Request(c)) = Hosts[c]
  <2>1. length = 6 + Len(body) /\ Len(Request(c)) = length
    BY <1>8, <1>12
  <2>. HIDE DEF length
  <2>2. Short(length) => listOfHosts(Request(c)) = split(body, delim)
    BY <1>4, <1>12, <1>15, <2>1, PartsOfRequest
  <2>. QED  BY <1>b, <2>2
<1>. QED  BY <1>8, <1>9, <1>12, <1>13, <1>15, <1>17

(***************************************************************************)
(* The bags of datagrams on their way.                                     *)
(***************************************************************************)
LEMMA TakeLeaves ==
    \A bag, m : DOMAIN Take(bag, m) \subseteq DOMAIN bag
BY DEF Take, (-), SetToBag

LEMMA PutAdds ==
    \A bag, m : DOMAIN Put(bag, m) = DOMAIN bag \cup {m}
BY DEF Put, (+), SetToBag

\* What one fault leaves on its way was there, or comes of something that
\* was there and that the network had left alone.
LEMMA DisturbancesByCases ==
    ASSUME NEW bag, NEW x \in Disturbances(bag)
    PROVE  \/ x[2] \in {"loss", "duplicate"} /\ DOMAIN x[1] \subseteq DOMAIN bag
           \/ \E m \in DOMAIN bag : \E y \in Corruptions(m) :
                 m.clean /\ x[2] = y[2] /\ DOMAIN x[1] \subseteq DOMAIN bag \cup {y[1]}
<1>1. PICK m \in DOMAIN bag :
        \/ x = <<Take(bag, m), "loss">>
        \/ x = <<Put(bag, m), "duplicate">>
        \/ m.clean /\ \E y \in Corruptions(m) : x = <<Put(Take(bag, m), y[1]), y[2]>>
  BY Zenon DEF Disturbances
<1>2. CASE x = <<Take(bag, m), "loss">>
  BY <1>2, TakeLeaves
<1>3. CASE x = <<Put(bag, m), "duplicate">>
  <2>1. x[1] = Put(bag, m) /\ x[2] = "duplicate"
    BY <1>3
  <2>2. DOMAIN x[1] = DOMAIN bag \cup {m}
    BY <2>1, PutAdds, Zenon
  <2>. QED  BY <2>1, <2>2, Zenon
<1>4. ASSUME m.clean, NEW y \in Corruptions(m),
             x = <<Put(Take(bag, m), y[1]), y[2]>>
      PROVE  m.clean /\ x[2] = y[2] /\ DOMAIN x[1] \subseteq DOMAIN bag \cup {y[1]}
  <2>1. x[1] = Put(Take(bag, m), y[1]) /\ x[2] = y[2]
    BY <1>4
  <2>2. DOMAIN x[1] = DOMAIN Take(bag, m) \cup {y[1]}
    BY <2>1, PutAdds
  <2>. QED  BY <1>4, <2>1, <2>2, TakeLeaves
<1>. QED  BY <1>1, <1>2, <1>3, <1>4

LEMMA CorruptionsByCases ==
    ASSUME NEW m, NEW y \in Corruptions(m)
    PROVE  \E i \in 1..Len(m.bytes), b \in Noise :
               /\ b # m.bytes[i]
               /\ y[1] = Corrupted(m, i, b)
               /\ y[2] = Corruption(m.bytes[i], b)
<1>1. PICK i \in 1..Len(m.bytes), b \in Noise :
        b # m.bytes[i] /\ y = <<Corrupted(m, i, b), Corruption(m.bytes[i], b)>>
  BY DEF Corruptions
<1>2. y[1] = Corrupted(m, i, b) /\ y[2] = Corruption(m.bytes[i], b)
  BY <1>1
<1>. QED  BY <1>1, <1>2

LEMMA CorruptionKind ==
    ASSUME NEW a, NEW b
    PROVE  /\ Corruption(a, b) \in {"flip", "corrupt"}
           /\ a # b /\ Corruption(a, b) # "flip" => Apart(a, b)
<1>1. {a, b} = {b, a}
  OBVIOUS
<1>. QED  BY <1>1 DEF Corruption, Apart

LEMMA DisturbanceKind ==
    ASSUME NEW bag, NEW x \in Disturbances(bag)
    PROVE  x[2] \in FaultKinds
<1>1. \/ x[2] \in {"loss", "duplicate"}
      \/ \E m \in DOMAIN bag : \E y \in Corruptions(m) : x[2] = y[2]
  BY DisturbancesByCases
<1>2. \A m : \A y \in Corruptions(m) : y[2] \in {"flip", "corrupt"}
  <2>. TAKE m
  <2>. TAKE y \in Corruptions(m)
  <2>1. PICK i \in 1..Len(m.bytes), b \in Noise : y[2] = Corruption(m.bytes[i], b)
    BY CorruptionsByCases
  <2>. QED  BY <2>1, CorruptionKind
<1>. QED  BY <1>1, <1>2 DEF FaultKinds

LEMMA Sizes ==
    /\ BUFSIZE \in Nat
    /\ \A n \in Nat : n <= BUFSIZE => Short(n)
    /\ \A n \in Nat : n <= BUFSIZE + 1 => Short(5 + 4 * n)
    /\ Tries \in Nat /\ Tries > 0
    /\ Noise \subseteq Byte
<1>1. BUFSIZE \in Nat /\ 4 * (BUFSIZE + 1) + 5 < 256 * 256
  BY ResolverAssumption
<1>. QED  BY <1>1, ResolverAssumption DEF Short

LEMMA FaultCounts ==
    ASSUME faults \in [FaultKinds -> Nat], NEW k \in FaultKinds, Fault(k)
    PROVE  /\ faults' \in [FaultKinds -> Nat]
           /\ NoFlips' => NoFlips /\ k # "flip"
<1>1. faults' = [faults EXCEPT ![k] = faults[k] + 1] /\ faults[k] + 1 # 0
  BY DEF Fault
<1>. QED  BY <1>1 DEF NoFlips, FaultKinds

(***************************************************************************)
(* The server stays up.                                                    *)
(***************************************************************************)
\* A request that the server can live with: it is as it was sent, or one
\* byte has changed and the checksum sees it.
Harmless(c, m) ==
    \/ m.clean /\ m.bytes = Request(c)
    \/ /\ ~m.clean
       /\ \E i \in 1..Len(Request(c)), b \in Byte :
             Apart(Request(c)[i], b) /\ m.bytes = [Request(c) EXCEPT ![i] = b]

AllFit == \A c \in Clients : Fits(c)

UpInv ==
    /\ faults \in [FaultKinds -> Nat]
    /\ DOMAIN request = Clients
    /\ NoFlips =>
          /\ up
          /\ \A c \in Clients : \A m \in DOMAIN request[c] : Harmless(c, m)

LEMMA HarmlessIsNoMismatch ==
    ASSUME NEW c \in Clients, Fits(c), NEW m, Harmless(c, m)
    PROVE  ~Mismatch(m.bytes)
<1>1. /\ Request(c) \in Seq(Byte) /\ Verifies(Request(c))
      /\ lengthOfPacket(Request(c)) = Len(Request(c))
  <2>1. Len(Request(c)) <= BUFSIZE /\ Len(Request(c)) \in Nat
    BY RequestIsRight DEF Fits
  <2>2. Short(Len(Request(c)))
    BY <2>1, Sizes
  <2>. QED  BY <2>1, <2>2, RequestIsRight
<1>2. CASE m.bytes = Request(c)
  BY <1>1, <1>2 DEF Mismatch
<1>3. ASSUME NEW i \in 1..Len(Request(c)), NEW b \in Byte,
             Apart(Request(c)[i], b), m.bytes = [Request(c) EXCEPT ![i] = b]
      PROVE  ~Mismatch(m.bytes)
  BY <1>1, <1>3, OneChangedByteIsNoticed DEF Mismatch
<1>. QED  BY <1>2, <1>3 DEF Harmless

LEMMA WholeDatagram ==
    ASSUME NEW bytes \in Seq(Byte), Len(bytes) <= BUFSIZE
    PROVE  Datagram(bytes) = [bytes |-> bytes, clean |-> TRUE]
<1>. DEFINE L == Len(bytes)
<1>1. L \in Nat /\ L <= BUFSIZE /\ BUFSIZE \in Nat
  BY Sizes
<1>2. Min({L, BUFSIZE}) = L
  <2>1. \A y \in {L, BUFSIZE} : L <= y
    BY <1>1
  <2>2. \A x \in {L, BUFSIZE} : (\A y \in {L, BUFSIZE} : x <= y) => x = L
    BY <1>1
  <2>. HIDE DEF L
  <2>. QED  BY <2>1, <2>2, Zenon DEF Min
<1>3. SubSeq(bytes, 1, L) = bytes
  BY <1>1
<1>. QED  BY <1>2, <1>3 DEF Datagram

LEMMA SentIsHarmless ==
    ASSUME NEW c \in Clients, Fits(c)
    PROVE  Harmless(c, Datagram(Request(c)))
<1>1. Datagram(Request(c)) = [bytes |-> Request(c), clean |-> TRUE]
  BY RequestIsRight, WholeDatagram DEF Fits
<1>. QED  BY <1>1 DEF Harmless

LEMMA CorruptedIsHarmless ==
    ASSUME NEW c \in Clients, NEW m, Harmless(c, m), m.clean,
           NEW y \in Corruptions(m), y[2] # "flip"
    PROVE  Harmless(c, y[1])
<1>1. m.bytes = Request(c)
  BY DEF Harmless
<1>2. PICK i \in 1..Len(Request(c)), b \in Noise :
        /\ b # Request(c)[i]
        /\ y[1] = Corrupted(m, i, b)
        /\ y[2] = Corruption(Request(c)[i], b)
  BY <1>1, CorruptionsByCases
<1>3. Apart(Request(c)[i], b)
  BY <1>2, CorruptionKind
<1>4. b \in Byte
  BY Sizes
<1>5. ~y[1].clean /\ y[1].bytes = [Request(c) EXCEPT ![i] = b]
  BY <1>1, <1>2 DEF Corrupted
<1>. QED  BY <1>3, <1>4, <1>5 DEF Harmless

\* While the network turns no 0 into a 255 and no 255 into a 0, and requests
\* fit in the buffer, no request gets to the call of a function that does
\* not exist (UDPserver.py 97, 108): whatever the host names, and whatever
\* is lost, duplicated, reordered or corrupted in one byte.
THEOREM ServerOutlivesCorruption == Spec => []ServerStaysUp
<1>1. Init => (AllFit => UpInv)
  <2>. SUFFICES ASSUME Init PROVE UpInv
    OBVIOUS
  <2>1. \A c \in Clients : DOMAIN request[c] = {}
    BY DEF Init, EmptyBag, SetToBag
  <2>. QED  BY <2>1 DEF Init, UpInv
<1>2. ASSUME AllFit, UpInv, [Next]_vars
      PROVE  UpInv'
  <2>1. ASSUME NEW c \in Clients, Serve(c)
        PROVE  UpInv'
    <3>1. PICK m \in DOMAIN request[c] :
            Crash(c, m) \/ AnswerRequest(c, m) \/ RejectRequest(c, m)
      BY <2>1 DEF Serve
    <3>2. /\ request' = [request EXCEPT ![c] = Take(request[c], m)]
          /\ faults' = faults
          /\ up' = up \/ Mismatch(m.bytes)
      BY <3>1 DEF Crash, AnswerRequest, RejectRequest
    <3>3. \A d \in Clients : DOMAIN request'[d] \subseteq DOMAIN request[d]
      BY <1>2, <3>2, TakeLeaves DEF UpInv
    <3>4. NoFlips => ~Mismatch(m.bytes)
      BY <1>2, HarmlessIsNoMismatch DEF UpInv, AllFit
    <3>5. DOMAIN request' = Clients
      BY <1>2, <3>2 DEF UpInv
    <3>7. NoFlips' <=> NoFlips
      BY <3>2 DEF NoFlips
    <3>. QED  BY <1>2, <3>2, <3>3, <3>4, <3>5, <3>7 DEF UpInv
  <2>2. ASSUME NEW c \in Clients, ClientStep(c)
        PROVE  UpInv'
    <3>1. CASE Send(c)
      <4>1. /\ request' = [request EXCEPT ![c] = Put(request[c], Datagram(Request(c)))]
            /\ UNCHANGED <<up, faults>>
        BY <3>1 DEF Send
      <4>2. \A d \in Clients : DOMAIN request'[d] \subseteq
                IF d = c THEN DOMAIN request[d] \cup {Datagram(Request(c))}
                ELSE DOMAIN request[d]
        BY <1>2, <4>1, PutAdds DEF UpInv
      <4>3. DOMAIN request' = Clients
        BY <1>2, <4>1 DEF UpInv
      <4>. QED  BY <1>2, <4>1, <4>2, <4>3, SentIsHarmless DEF UpInv, NoFlips, AllFit
    <3>2. CASE ~Send(c)
      <4>1. UNCHANGED <<up, request, faults>>
        BY <2>2, <3>2 DEF ClientStep, InvalidResponse, ServerError, Answer, Receive
      <4>. QED  BY <1>2, <4>1 DEF UpInv, NoFlips
    <3>. QED  BY <3>1, <3>2
  <2>3. ASSUME NEW c \in Clients, DisturbRequest(c)
        PROVE  UpInv'
    <3>1. PICK x \in Disturbances(request[c]) :
            Fault(x[2]) /\ request' = [request EXCEPT ![c] = x[1]]
      BY <2>3 DEF DisturbRequest
    <3>2. UNCHANGED up /\ DOMAIN request' = Clients
      BY <1>2, <2>3, <3>1 DEF DisturbRequest, UpInv
    <3>3. CASE x[2] \in {"loss", "duplicate"} /\ DOMAIN x[1] \subseteq DOMAIN request[c]
      <4>1. x[2] \in FaultKinds
        BY <3>3 DEF FaultKinds
      <4>2. faults' \in [FaultKinds -> Nat] /\ (NoFlips' => NoFlips)
        BY <1>2, <3>1, <4>1, FaultCounts DEF UpInv
      <4>3. \A d \in Clients : DOMAIN request'[d] \subseteq DOMAIN request[d]
        BY <1>2, <3>1, <3>3 DEF UpInv
      <4>. QED  BY <1>2, <3>2, <4>2, <4>3 DEF UpInv
    <3>4. ASSUME NEW m \in DOMAIN request[c], NEW y \in Corruptions(m), m.clean,
                 x[2] = y[2], DOMAIN x[1] \subseteq DOMAIN request[c] \cup {y[1]}
          PROVE  UpInv'
      <4>1. x[2] \in FaultKinds
        BY DisturbanceKind
      <4>2. faults' \in [FaultKinds -> Nat] /\ (NoFlips' => NoFlips /\ y[2] # "flip")
        BY <1>2, <3>1, <3>4, <4>1, FaultCounts DEF UpInv
      <4>3. \A d \in Clients : DOMAIN request'[d] \subseteq
                IF d = c THEN DOMAIN request[d] \cup {y[1]} ELSE DOMAIN request[d]
        BY <1>2, <3>1, <3>4 DEF UpInv
      <4>4. NoFlips' => Harmless(c, y[1])
        BY <1>2, <3>4, <4>2, CorruptedIsHarmless DEF UpInv
      <4>. QED  BY <1>2, <3>2, <4>2, <4>3, <4>4 DEF UpInv
    <3>. QED  BY <3>3, <3>4, DisturbancesByCases
  <2>4. ASSUME NEW c \in Clients, DisturbReply(c)
        PROVE  UpInv'
    <3>1. PICK x \in Disturbances(reply[c]) : Fault(x[2])
      BY <2>4 DEF DisturbReply
    <3>2. x[2] \in FaultKinds
      BY DisturbanceKind
    <3>3. faults' \in [FaultKinds -> Nat] /\ (NoFlips' => NoFlips)
      BY <1>2, <3>1, <3>2, FaultCounts DEF UpInv
    <3>4. UNCHANGED <<up, request>>
      BY <2>4 DEF DisturbReply
    <3>. QED  BY <1>2, <3>3, <3>4 DEF UpInv
  <2>5. CASE UNCHANGED vars
    BY <1>2, <2>5 DEF UpInv, vars, NoFlips
  <2>. QED  BY <1>2, <2>1, <2>2, <2>3, <2>4, <2>5 DEF Next
<1>3. (AllFit => UpInv) => ServerStaysUp
  BY DEF AllFit, UpInv, ServerStaysUp
<1>4. (AllFit => UpInv) /\ [Next]_vars => (AllFit => UpInv)'
  BY <1>2 DEF AllFit, Fits
<1>. QED  BY <1>1, <1>3, <1>4, PTL DEF Spec

(***************************************************************************)
(* The answers, and what a client prints of them.                          *)
(***************************************************************************)
LEMMA HostCount ==
    ASSUME NEW c \in Clients
    PROVE  /\ Len(Hosts[c]) \in Nat /\ Len(Hosts[c]) > 0
           /\ 5 + 8 * Len(Hosts[c]) <= BUFSIZE
BY RequestAssumption

\* What is found for each host is four bytes.
LEMMA ResolutionsAreRight ==
    ASSUME NEW hosts, Len(hosts) \in Nat, NEW ips \in Resolutions(hosts)
    PROVE  /\ ips \in Seq(Seq(Byte)) /\ Len(ips) = Len(hosts)
           /\ \A k \in 1..Len(hosts) :
                 /\ ips[k] \in [1..4 -> Byte]
                 /\ ips[k] = unresolved \/ ips[k] = Address[hosts[k]]
<1>1. \A h : \A ip \in Lookups(h) :
          ip \in [1..4 -> Byte] /\ (ip = unresolved \/ ip = Address[h])
  <2>1. unresolved \in [1..4 -> Byte]
    BY DEF unresolved, Byte
  <2>. QED  BY <2>1, AddressAssumption DEF Lookups
<1>2. \A k \in 1..Len(hosts) : ips[k] \in Lookups(hosts[k])
  BY DEF Resolutions
<1>3. ips = [k \in 1..Len(hosts) |-> ips[k]]
  BY DEF Resolutions
<1>4. \A k \in 1..Len(hosts) : ips[k] \in [1..4 -> Byte] /\ ips[k] \in Seq(Byte)
  <2>1. \A ip \in [1..4 -> Byte] : ip \in Seq(Byte)
    BY FunctionIsSequence
  <2>. QED  BY <1>1, <1>2, <2>1
<1>5. ips \in [1..Len(hosts) -> Seq(Byte)]
  BY <1>3, <1>4
<1>. QED  BY <1>1, <1>2, <1>4, <1>5, FunctionIsSequence

\* Sequences of four bytes each, put together.
LEMMA FlattenedByFour ==
    ASSUME NEW ips \in Seq(Seq(Byte)), Len(ips) > 0,
           \A k \in 1..Len(ips) : Len(ips[k]) = 4
    PROVE  /\ FlattenSeq(ips) \in Seq(Byte)
           /\ Len(FlattenSeq(ips)) = 4 * Len(ips)
           /\ \A k \in 1..Len(ips) : \A j \in 1..4 :
                 FlattenSeq(ips)[4 * (k - 1) + j] = ips[k][j]
<1>. DEFINE N == Len(ips)
            flat == FlattenSeq(ips)
<1>0. N \in Nat /\ N > 0
  OBVIOUS
<1>1. PICK P : Layout(P, ips, flat, Byte)
  BY Flattened
<1>. HIDE DEF flat, N
<1>2. /\ P[0] = 0 /\ \A k \in 1..N : P[k] = P[k - 1] + 4
      /\ flat \in Seq(Byte) /\ Len(flat) = P[N]
      /\ \A k \in 1..N : \A j \in 1..4 : flat[P[k - 1] + j] = ips[k][j]
  BY <1>1 DEF Layout, N
<1>. DEFINE T == {k \in 0..N : P[k] = 4 * k}
<1>3. 0 \in T
  BY <1>0, <1>2
<1>4. ASSUME NEW n \in 1..N, n - 1 \in T
      PROVE  n \in T
  BY <1>0, <1>2, <1>4
<1>. HIDE DEF T
<1>5. 0..N \subseteq T
  BY <1>0, <1>3, <1>4, Induction
<1>6. \A k \in 0..N : P[k] = 4 * k
  BY <1>5 DEF T
<1>7. P[N] = 4 * N /\ \A k \in 1..N : P[k - 1] = 4 * (k - 1)
  <2>1. N \in 0..N /\ \A k \in 1..N : k - 1 \in 0..N
    BY <1>0
  <2>. QED  BY <1>6, <2>1
<1>8. \A k \in 1..N : \A j \in 1..4 : flat[4 * (k - 1) + j] = ips[k][j]
  BY <1>2, <1>7
<1>. QED  BY <1>2, <1>7, <1>8 DEF flat, N

LEMMA BytesOfLength ==
    \A n \in Nat : Short(n) => n \div 256 \in Byte /\ n % 256 \in Byte
<1>1. \A n \in Nat : n <= 65535 => 0 <= n \div 256 /\ n \div 256 <= 255
  OBVIOUS
<1>2. \A n \in Nat : 0 <= n % 256 /\ n % 256 <= 255
  OBVIOUS
<1>. QED  BY <1>1, <1>2, ByteRange DEF Short

\* An answer has four bytes for each host, after five others, and verifies.
LEMMA AnswerIsRight ==
    ASSUME NEW data, data[4] \in Byte, data[5] \in Byte,
           NEW hosts, NEW n \in Nat, Len(hosts) = n, n > 0, Short(5 + 4 * n),
           NEW ips \in Resolutions(hosts)
    PROVE  /\ answerMessage(data, ips) \in Seq(Byte)
           /\ Len(answerMessage(data, ips)) = 5 + 4 * n
           /\ Verifies(answerMessage(data, ips))
           /\ answerMessage(data, ips)[2] = (5 + 4 * n) % 256
           /\ \A k \in 1..n : \A j \in 1..4 :
                 answerMessage(data, ips)[5 + (4 * (k - 1) + j)] = ips[k][j]
<1>. DEFINE length == Len(ips) * 4 + 5
            head == <<length \div 256, length % 256, 0, data[4], data[5]>>
            flat == FlattenSeq(ips)
            message == head \o flat
<1>2. /\ ips \in Seq(Seq(Byte)) /\ Len(ips) = n
      /\ \A k \in 1..n : ips[k] \in [1..4 -> Byte]
  BY ResolutionsAreRight
<1>3. \A k \in 1..n : Len(ips[k]) = 4
  BY <1>2, FunctionIsSequence
<1>4. /\ flat \in Seq(Byte) /\ Len(flat) = 4 * n
      /\ \A k \in 1..n : \A j \in 1..4 : flat[4 * (k - 1) + j] = ips[k][j]
  <2>1. Len(ips) > 0 /\ \A k \in 1..Len(ips) : Len(ips[k]) = 4
    BY <1>2, <1>3
  <2>2. /\ flat \in Seq(Byte) /\ Len(flat) = 4 * Len(ips)
        /\ \A k \in 1..Len(ips) : \A j \in 1..4 : flat[4 * (k - 1) + j] = ips[k][j]
    <3>1. ips \in Seq(Seq(Byte))
      BY <1>2
    <3>. QED  BY <2>1, <3>1, FlattenedByFour, Zenon
  <2>. HIDE DEF flat
  <2>. QED  BY <1>2, <2>2
<1>5. length \in Nat /\ Short(length) /\ length = 5 + 4 * n
  BY <1>2
<1>. HIDE DEF flat, length
<1>6. length \div 256 \in Byte /\ length % 256 \in Byte /\ 0 \in Byte
  BY <1>5, BytesOfLength, ByteRange
<1>7. head \in Seq(Byte) /\ Len(head) = 5 /\ head[3] = 0 /\ head[2] = length % 256
  BY <1>6
<1>8. 3 \in 1..Len(head)
  BY <1>7
<1>. HIDE DEF head
<1>9. /\ message \in Seq(Byte)
      /\ Len(message) = Len(head) + Len(flat)
      /\ \A i \in 1..Len(head) : message[i] = head[i]
      /\ \A j \in 1..Len(flat) : message[Len(head) + j] = flat[j]
  <2>1. head \in Seq(Byte) /\ flat \in Seq(Byte)
    BY <1>4, <1>7
  <2>. QED  BY <2>1, Concatenation
<1>. HIDE DEF message
<1>10. Len(message) = length /\ message[3] = 0 /\ Len(message) >= 3 /\ 3 \in 1..Len(message)
  BY <1>4, <1>5, <1>7, <1>8, <1>9
<1>11. answerMessage(data, ips) = Sealed(message)
  BY DEF answerMessage, message, head, length, flat
<1>12. Verifies(Sealed(message))
  BY <1>9, <1>10, SealedMessageVerifies
<1>13. /\ Sealed(message) \in Seq(Byte) /\ Len(Sealed(message)) = Len(message)
       /\ \A i \in 1..Len(message) : i # 3 => Sealed(message)[i] = message[i]
  BY <1>9, <1>10, ComplementIsByte, ChangedMessage DEF Sealed
<1>14. ASSUME NEW k \in 1..n, NEW j \in 1..4
       PROVE  Sealed(message)[5 + (4 * (k - 1) + j)] = ips[k][j]
  <2>1. 4 * (k - 1) + j \in 1..Len(flat)
    BY <1>4
  <2>2. PICK i \in 1..Len(flat) : i = 4 * (k - 1) + j
    BY <2>1
  <2>3. 5 + i \in 1..Len(message) /\ 5 + i # 3
    BY <1>4, <1>7, <1>9
  <2>4. message[5 + i] = flat[i]
    BY <1>7, <1>9
  <2>5. Sealed(message)[5 + i] = flat[i]
    BY <1>13, <2>3, <2>4
  <2>6. flat[i] = ips[k][j]
    BY <1>4, <2>2, Zenon
  <2>. QED  BY <2>2, <2>5, <2>6
<1>15. Sealed(message)[2] = (5 + 4 * n) % 256
  <2>1. 2 \in 1..Len(head) /\ 2 \in 1..Len(message) /\ 2 # 3
    BY <1>4, <1>7, <1>9
  <2>. QED  BY <1>5, <1>7, <1>9, <1>13, <2>1
<1>. QED  BY <1>5, <1>9, <1>10, <1>11, <1>12, <1>13, <1>14, <1>15

\* Zeros behind a message change nothing (UDPClient.c 194, 213).
THEOREM TrailingZerosCountForNothing ==
    ASSUME NEW message \in Seq(Byte), NEW other \in Seq(Byte),
           Len(message) <= Len(other),
           \A i \in 1..Len(other) :
               other[i] = IF i <= Len(message) THEN message[i] ELSE 0
    PROVE  checkTheCheckSum[other] = checkTheCheckSum[message]
<1>. DEFINE M == Len(message)
            N == Len(other)
<1>0. M \in Nat /\ N \in Nat /\ M <= N
  OBVIOUS
<1>1. PICK f : IsSum(f, message, M) /\ checkTheCheckSum[message] = f[M]
  BY Loop
<1>2. PICK g : IsSum(g, other, N) /\ checkTheCheckSum[other] = g[N]
  BY Loop
<1>3. /\ f[0] = 0 /\ \A n \in 1..M : f[n] = plus(f[n - 1], message[n])
      /\ \A n \in 0..M : f[n] \in Byte
  BY <1>1, Rounds
<1>4. g[0] = 0 /\ \A n \in 1..N : g[n] = plus(g[n - 1], other[n])
  BY <1>2, Rounds
<1>5. \A i \in 1..N : other[i] = IF i <= M THEN message[i] ELSE 0
  OBVIOUS
<1>. HIDE DEF M, N
<1>. DEFINE T == {n \in 0..N : g[n] = IF n <= M THEN f[n] ELSE f[M]}
<1>6. 0 \in T
  BY <1>0, <1>3, <1>4
<1>7. ASSUME NEW n \in 1..N, n - 1 \in T
      PROVE  n \in T
  <2>0. n \in 0..N
    BY <1>0
  <2>1. g[n] = plus(g[n - 1], other[n]) /\ g[n - 1] = IF n - 1 <= M THEN f[n - 1] ELSE f[M]
    BY <1>4, <1>7
  <2>2. CASE n <= M
    <3>1. n - 1 <= M /\ n \in 1..M
      BY <1>0, <2>2
    <3>2. g[n] = f[n]
      BY <1>3, <1>5, <2>1, <2>2, <3>1
    <3>. QED  BY <2>0, <2>2, <3>2
  <2>3. CASE ~(n <= M)
    <3>1. n - 1 <= M => n - 1 = M
      BY <1>0, <2>3
    <3>2. g[n - 1] = f[M] /\ other[n] = 0
      BY <1>5, <2>1, <2>3, <3>1
    <3>3. plus(f[M], 0) = f[M]
      <4>1. M \in 0..M
        BY <1>0
      <4>2. f[M] \in Byte /\ 0 \in Byte
        BY <1>3, <4>1, ByteRange
      <4>3. f[M] \in Int /\ f[M] <= 255
        BY <4>2, ByteRange
      <4>. QED  BY <4>2, <4>3, PlusByCases
    <3>. QED  BY <2>0, <2>1, <2>3, <3>2, <3>3
  <2>. QED  BY <2>2, <2>3
<1>. HIDE DEF T
<1>8. 0..N \subseteq T
  BY <1>0, <1>6, <1>7, Induction
<1>9. g[N] = IF N <= M THEN f[N] ELSE f[M]
  BY <1>0, <1>8 DEF T
<1>10. N <= M => N = M
  BY <1>0
<1>. QED  BY <1>1, <1>2, <1>9, <1>10

\* f is where the printing loop begins each host.
IsIndex(f, buffer, n) ==
    f = [e \in 1..n |->
            IF e = 1 THEN 6
            ELSE IF buffer[f[e - 1]] = 255 THEN f[e - 1] + 8 ELSE f[e - 1] + 4]

LEMMA IndexExists ==
    ASSUME NEW buffer, NEW N \in Nat
    PROVE  \E f : IsIndex(f, buffer, N)
<1>. DEFINE T == {n \in 0..N : \E f : IsIndex(f, buffer, n)}
<1>1. 0 \in T
  <2>. DEFINE f == [e \in 1..0 |-> 0]
  <2>1. IsIndex(f, buffer, 0)
    BY DEF IsIndex
  <2>. QED  BY <2>1
<1>2. ASSUME NEW n \in 1..N, n - 1 \in T
      PROVE  n \in T
  <2>1. PICK f : IsIndex(f, buffer, n - 1)
    BY <1>2
  <2>. DEFINE next(i) == IF buffer[i] = 255 THEN i + 8 ELSE i + 4
              g == [e \in 1..n |-> IF e # n THEN f[e]
                                   ELSE IF n = 1 THEN 6 ELSE next(f[n - 1])]
  <2>2. \A e \in 1..n - 1 : f[e] = IF e = 1 THEN 6 ELSE next(f[e - 1])
    BY <2>1 DEF IsIndex
  <2>. HIDE DEF next
  <2>3. \A e \in 1..n : g[e] = IF e = 1 THEN 6 ELSE next(g[e - 1])
    <3>. TAKE e \in 1..n
    <3>1. CASE e = n
      <4>1. n # 1 => n - 1 \in 1..n /\ n - 1 # n
        OBVIOUS
      <4>. QED  BY <3>1, <4>1
    <3>2. CASE e # n
      <4>1. e \in 1..n - 1 /\ (e # 1 => e - 1 \in 1..n /\ e - 1 # n)
        BY <3>2
      <4>. QED  BY <2>2, <3>2, <4>1
    <3>. QED  BY <3>1, <3>2
  <2>4. g = [e \in 1..n |-> g[e]]
    OBVIOUS
  <2>. HIDE DEF g
  <2>5. g = [e \in 1..n |-> IF e = 1 THEN 6 ELSE next(g[e - 1])]
    BY <2>3, <2>4
  <2>6. IsIndex(g, buffer, n)
    BY <2>5 DEF IsIndex, next
  <2>. QED  BY <2>6
<1>. HIDE DEF T
<1>3. 0..N \subseteq T
  BY <1>1, <1>2, Induction
<1>4. N \in T
  BY <1>3
<1>. QED  BY <1>4 DEF T

LEMMA IndexSteps ==
    ASSUME NEW buffer, NEW N \in Nat
    PROVE  /\ N > 0 => Index(buffer, N)[1] = 6
           /\ \A e \in 1..N : e # 1 =>
                 Index(buffer, N)[e] =
                     IF buffer[Index(buffer, N)[e - 1]] = 255
                     THEN Index(buffer, N)[e - 1] + 8
                     ELSE Index(buffer, N)[e - 1] + 4
<1>. DEFINE f == CHOOSE g : IsIndex(g, buffer, N)
<1>1. IsIndex(f, buffer, N)
  BY IndexExists
<1>2. Index(buffer, N) = f
  BY DEF Index, IsIndex
<1>. HIDE DEF f
<1>3. \A e \in 1..N : f[e] = IF e = 1 THEN 6
                             ELSE IF buffer[f[e - 1]] = 255 THEN f[e - 1] + 8
                                  ELSE f[e - 1] + 4
  BY <1>1 DEF IsIndex
<1>4. N > 0 => 1 \in 1..N
  OBVIOUS
<1>. QED  BY <1>2, <1>3, <1>4

LEMMA NextIndex ==
    ASSUME NEW buffer, NEW N \in Nat, NEW k \in 1..N, NEW e \in 1..N, e = k + 1,
           buffer[Index(buffer, N)[k]] # 255
    PROVE  Index(buffer, N)[e] = Index(buffer, N)[k] + 4
<1>1. e # 1 /\ e - 1 = k
  OBVIOUS
<1>. DEFINE I == Index(buffer, N)
<1>2. I[e] = IF buffer[I[e - 1]] = 255 THEN I[e - 1] + 8 ELSE I[e - 1] + 4
  BY <1>1, IndexSteps
<1>. QED  BY <1>1, <1>2

\* Whatever an answer was found to be, what is printed of it is right.
RightPrintout(c, p) ==
    \A e \in 1..Len(p) :
        (\A k \in 1..e : ~p[k].issues) => p[e].ip = Address[Hosts[c][e]]

LEMMA FourBytes ==
    \A u \in [1..4 -> Byte] : u \in Seq(Byte) /\ Len(u) = 4
<1>1. 4 \in Nat
  OBVIOUS
<1>. QED  BY <1>1, FunctionIsSequence, Zenon

LEMMA FourOfSequence ==
    ASSUME NEW s \in Seq(Byte), NEW t \in [1..4 -> Byte], NEW a \in Nat \ {0},
           a + 3 <= Len(s), \A j \in 1..4 : s[a - 1 + j] = t[j]
    PROVE  SubSeq(s, a, a + 3) = t
<1>1. 4 \in Nat /\ a + 4 - 1 <= Len(s) /\ a + 3 = a + 4 - 1
  OBVIOUS
<1>2. /\ SubSeq(s, a, a + 3) \in Seq(Byte)
      /\ Len(SubSeq(s, a, a + 3)) = 4
      /\ \A j \in 1..4 : SubSeq(s, a, a + 3)[j] = s[a - 1 + j]
  <2>. DEFINE b == a + 3
  <2>1. b = a + 4 - 1 /\ 4 \in Nat /\ a + 4 - 1 <= Len(s)
    BY <1>1
  <2>. HIDE DEF b
  <2>2. /\ SubSeq(s, a, b) \in Seq(Byte)
        /\ Len(SubSeq(s, a, b)) = 4
        /\ \A j \in 1..4 : SubSeq(s, a, b)[j] = s[a - 1 + j]
    BY <2>1, PartOfSequence
  <2>. QED  BY <2>2 DEF b
<1>3. t \in Seq(Byte) /\ Len(t) = 4
  BY FourBytes, Zenon
<1>4. \A j \in 1..4 : SubSeq(s, a, a + 3)[j] = t[j]
  BY <1>2
<1>. QED  BY <1>2, <1>3, <1>4, SameSequence

LEMMA AnswerIsPrintedRight ==
    ASSUME NEW c \in Clients, NEW ips \in Resolutions(Hosts[c]),
           NEW buffer \in [1..BUFSIZE -> Byte],
           \A k \in 1..Len(Hosts[c]) : \A j \in 1..4 :
               buffer[5 + (4 * (k - 1) + j)] = ips[k][j]
    PROVE  RightPrintout(c, Printout(buffer, Len(Hosts[c])))
<1>. DEFINE n == Len(Hosts[c])
            I == Index(buffer, n)
            p == Printout(buffer, n)
<1>1. n \in Nat /\ n > 0 /\ 5 + 8 * n <= BUFSIZE /\ BUFSIZE \in Nat
  BY HostCount, Sizes
<1>2. \A k \in 1..n : /\ ips[k] \in [1..4 -> Byte]
                      /\ ips[k] = unresolved \/ ips[k] = Address[Hosts[c][k]]
  BY <1>1, ResolutionsAreRight
<1>3. \A k \in 1..n : \A j \in 1..4 : buffer[5 + (4 * (k - 1) + j)] = ips[k][j]
  OBVIOUS
<1>. HIDE DEF n
<1>4. I[1] = 6
  BY <1>1, IndexSteps
<1>5. /\ Len(p) = n
      /\ \A e \in 1..n :
            /\ p[e].issues = (buffer[I[e]] = 255)
            /\ buffer[I[e]] # 255 => p[e].ip = SubSeq(buffer, I[e], I[e] + 3)
  <2>. DEFINE first(e) == IF buffer[I[e]] = 255 THEN I[e] + 4 ELSE I[e]
  <2>1. p = [e \in 1..n |-> [issues |-> buffer[I[e]] = 255,
                             ip |-> SubSeq(buffer, first(e), first(e) + 3)]]
    BY DEF Printout
  <2>. HIDE DEF p, I
  <2>2. Len(p) = n
    <3>. HIDE DEF first
    <3>. QED  BY <1>1, <2>1
  <2>3. ASSUME NEW e \in 1..n
        PROVE  /\ p[e].issues = (buffer[I[e]] = 255)
               /\ buffer[I[e]] # 255 => p[e].ip = SubSeq(buffer, I[e], I[e] + 3)
    <3>. DEFINE x == buffer[I[e]]
                y == SubSeq(buffer, first(e), first(e) + 3)
                q == p[e]
    <3>1. q = [issues |-> (x = 255), ip |-> y]
      <4>. HIDE DEF first
      <4>. QED  BY <2>1
    <3>2. x # 255 => y = SubSeq(buffer, I[e], I[e] + 3)
      OBVIOUS
    <3>. HIDE DEF x, y, q
    <3>3. q.issues = (x = 255) /\ q.ip = y
      BY <3>1
    <3>. QED  BY <3>2, <3>3, Zenon DEF x, q
  <2>. QED  BY <2>2, <2>3
<1>. HIDE DEF p, I
<1>. DEFINE T == {k \in 0..n - 1 : (\A j \in 1..k : ~p[j].issues) => I[k + 1] = 6 + 4 * k}
<1>6. 0 \in T
  BY <1>1, <1>4
<1>7. ASSUME NEW k \in 1..n - 1, k - 1 \in T
      PROVE  k \in T
  <2>1. /\ k \in 1..n /\ k + 1 \in 1..n /\ k + 1 # 1 /\ k + 1 - 1 = k /\ k - 1 + 1 = k
        /\ k \in 0..n - 1 /\ \A j \in 1..k - 1 : j \in 1..k
    BY <1>1
  <2>2. SUFFICES ASSUME \A j \in 1..k : ~p[j].issues
                 PROVE  I[k + 1] = 6 + 4 * k
    BY <2>1
  <2>3. I[k] = 6 + 4 * (k - 1)
    <3>1. \A j \in 1..k - 1 : ~p[j].issues
      BY <2>1, <2>2, Zenon
    <3>2. I[k - 1 + 1] = 6 + 4 * (k - 1)
      BY <1>7, <3>1, Zenon
    <3>. QED  BY <2>1, <3>2, Zenon
  <2>4. I[k + 1] = I[k] + 4
    <3>1. k \in 1..k
      BY <2>1
    <3>2. buffer[I[k]] # 255
      BY <1>5, <2>1, <2>2, <3>1, Zenon
    <3>. QED  BY <1>1, <2>1, <3>2, NextIndex DEF I
  <2>5. (6 + 4 * (k - 1)) + 4 = 6 + 4 * k
    BY <1>1
  <2>. QED  BY <2>3, <2>4, <2>5, Zenon
<1>. HIDE DEF T
<1>8. 0..n - 1 \subseteq T
  <2>1. n - 1 \in Nat
    BY <1>1
  <2>. QED  BY <1>6, <1>7, <2>1, Induction
<1>9. ASSUME NEW e \in 1..n, \A k \in 1..e : ~p[k].issues
      PROVE  p[e].ip = Address[Hosts[c][e]]
  <2>1. /\ e - 1 \in 0..n - 1 /\ e - 1 + 1 = e /\ e \in 1..e
        /\ \A j \in 1..e - 1 : j \in 1..e
    BY <1>1
  <2>2. I[e] = 6 + 4 * (e - 1)
    <3>1. e - 1 \in T /\ \A j \in 1..e - 1 : ~p[j].issues
      BY <1>8, <1>9, <2>1, Zenon
    <3>2. I[e - 1 + 1] = 6 + 4 * (e - 1)
      BY <3>1, Zenon DEF T
    <3>. QED  BY <2>1, <3>2, Zenon
  <2>3. buffer[I[e]] # 255 /\ p[e].ip = SubSeq(buffer, I[e], I[e] + 3)
    <3>1. ~p[e].issues
      BY <1>9, <2>1, Zenon
    <3>. QED  BY <1>5, <3>1, Zenon
  <2>4. PICK a \in Nat \ {0} : a = I[e] /\ a = 6 + 4 * (e - 1) /\ a + 3 <= BUFSIZE
    BY <1>1, <2>2
  <2>6. \A j \in 1..4 : buffer[a - 1 + j] = ips[e][j]
    <3>. TAKE j \in 1..4
    <3>1. a - 1 + j = 5 + (4 * (e - 1) + j)
      BY <1>1, <2>4
    <3>. QED  BY <1>3, <3>1
  <2>8. SubSeq(buffer, a, a + 3) = ips[e]
    <3>1. buffer \in Seq(Byte) /\ Len(buffer) = BUFSIZE
      BY <1>1, FunctionIsSequence
    <3>. QED  BY <1>2, <2>4, <2>6, <3>1, FourOfSequence
  <2>9. ips[e] # unresolved
    <3>1. 1 \in 1..4 /\ a - 1 + 1 = a
      BY <2>4
    <3>2. buffer[a] = ips[e][1]
      BY <2>6, <3>1
    <3>3. unresolved[1] = 255
      BY DEF unresolved
    <3>. QED  BY <2>3, <2>4, <3>2, <3>3
  <2>. QED  BY <1>2, <2>3, <2>4, <2>8, <2>9
<1>. QED  BY <1>5, <1>9 DEF RightPrintout, p, n

\* A reply that a client can live with: one of the seven bytes of an error,
\* an answer to its request, or one that has changed in a byte so that the
\* checksum sees it.
Answers(c) == {answerMessage(Request(c), ips) : ips \in Resolutions(Hosts[c])}

RightReply(c, m) ==
    \/ m.bytes \in Seq(Byte) /\ Len(m.bytes) = 7
    \/ \E a \in Answers(c) :
          \/ m.bytes = a
          \/ /\ ~m.clean
             /\ \E i \in 1..Len(a), b \in Byte :
                   Apart(a[i], b) /\ m.bytes = [a EXCEPT ![i] = b]

\* No reply has reached the buffer beyond the length of an answer.
Unwritten(c, b) ==
    /\ b \in [1..BUFSIZE -> Byte]
    /\ \A i \in 1..BUFSIZE : i > 5 + 4 * Len(Hosts[c]) => b[i] = 0

\* c gets what it asked for, or notices.
AnswersReach(c) ==
    /\ \A m \in DOMAIN request[c] : Harmless(c, m)
    /\ \A m \in DOMAIN reply[c] : RightReply(c, m)
    /\ Unwritten(c, buf[c])
    /\ RightPrintout(c, printed[c])

PrintInv ==
    /\ faults \in [FaultKinds -> Nat]
    /\ DOMAIN request = Clients /\ DOMAIN reply = Clients
    /\ DOMAIN buf = Clients /\ DOMAIN printed = Clients
    /\ NoFlips => \A c \in Clients : Fits(c) => AnswersReach(c)

LEMMA ClientSizes ==
    ASSUME NEW c \in Clients
    PROVE  /\ Len(Hosts[c]) \in Nat /\ BUFSIZE \in Nat
           /\ 5 + 4 * Len(Hosts[c]) \in Nat
           /\ 9 <= 5 + 4 * Len(Hosts[c]) /\ 5 + 4 * Len(Hosts[c]) <= BUFSIZE
           /\ 7 <= BUFSIZE
<1>1. PICK n \in Nat : n = Len(Hosts[c]) /\ n > 0 /\ 5 + 8 * n <= BUFSIZE
  BY HostCount
<1>2. BUFSIZE \in Nat
  BY Sizes
<1>. QED  BY <1>1, <1>2

LEMMA RequestHasID ==
    ASSUME NEW c \in Clients
    PROVE  Request(c)[4] \in Byte /\ Request(c)[5] \in Byte
<1>1. Request(c) \in Seq(Byte) /\ Len(Request(c)) >= 6
  BY RequestIsRight
<1>2. 4 \in 1..Len(Request(c)) /\ 5 \in 1..Len(Request(c))
  BY <1>1
<1>. QED  BY <1>1, <1>2, ElementOfSequence

LEMMA AnswersAreRight ==
    ASSUME NEW c \in Clients, NEW a \in Answers(c)
    PROVE  /\ a \in Seq(Byte) /\ Len(a) = 5 + 4 * Len(Hosts[c]) /\ Verifies(a)
           /\ \E ips \in Resolutions(Hosts[c]) :
                 \A k \in 1..Len(Hosts[c]) : \A j \in 1..4 :
                     a[5 + (4 * (k - 1) + j)] = ips[k][j]
<1>1. PICK ips \in Resolutions(Hosts[c]) : a = answerMessage(Request(c), ips)
  BY DEF Answers
<1>2. /\ answerMessage(Request(c), ips) \in Seq(Byte)
      /\ Len(answerMessage(Request(c), ips)) = 5 + 4 * Len(Hosts[c])
      /\ Verifies(answerMessage(Request(c), ips))
      /\ \A k \in 1..Len(Hosts[c]) : \A j \in 1..4 :
            answerMessage(Request(c), ips)[5 + (4 * (k - 1) + j)] = ips[k][j]
  <2>1. PICK n \in Nat : Len(Hosts[c]) = n /\ n > 0 /\ 5 + 8 * n <= BUFSIZE
    BY HostCount
  <2>2. Short(5 + 4 * n)
    <3>1. BUFSIZE \in Nat /\ n <= BUFSIZE + 1
      BY <2>1, Sizes
    <3>. QED  BY <3>1, Sizes
  <2>3. Request(c)[4] \in Byte /\ Request(c)[5] \in Byte
    BY RequestHasID
  <2>4. /\ answerMessage(Request(c), ips) \in Seq(Byte)
        /\ Len(answerMessage(Request(c), ips)) = 5 + 4 * n
        /\ Verifies(answerMessage(Request(c), ips))
        /\ \A k \in 1..n : \A j \in 1..4 :
              answerMessage(Request(c), ips)[5 + (4 * (k - 1) + j)] = ips[k][j]
    BY <2>1, <2>2, <2>3, AnswerIsRight
  <2>. QED  BY <2>1, <2>4
<1>. QED  BY <1>1, <1>2, Zenon

\* The server answers a request only if it is as it was sent.
LEMMA AnsweredRight ==
    ASSUME NEW c \in Clients, Fits(c), NEW m, Harmless(c, m), Verifies(m.bytes),
           NEW ips \in Resolutions(listOfHosts(m.bytes))
    PROVE  RightReply(c, Datagram(answerMessage(m.bytes, ips)))
<1>1. /\ Request(c) \in Seq(Byte) /\ Verifies(Request(c))
      /\ listOfHosts(Request(c)) = Hosts[c]
  <2>1. Len(Request(c)) <= BUFSIZE /\ Len(Request(c)) \in Nat
    BY RequestIsRight DEF Fits
  <2>2. Short(Len(Request(c)))
    BY <2>1, Sizes
  <2>. QED  BY <2>1, <2>2, RequestIsRight
<1>2. m.bytes = Request(c)
  BY <1>1, OneChangedByteIsNoticed DEF Harmless
<1>3. PICK a \in Answers(c) : a = answerMessage(m.bytes, ips)
  BY <1>1, <1>2 DEF Answers
<1>4. a \in Seq(Byte) /\ Len(a) <= BUFSIZE
  BY AnswersAreRight, ClientSizes
<1>5. Datagram(a).bytes = a
  BY <1>4, WholeDatagram
<1>. QED  BY <1>3, <1>5 DEF RightReply

LEMMA RejectedRight ==
    ASSUME NEW c \in Clients, NEW m, Harmless(c, m)
    PROVE  RightReply(c, Datagram(errorMessage(m.bytes)))
<1>1. m.bytes \in Seq(Byte) /\ Len(m.bytes) >= 6
  <2>1. Request(c) \in Seq(Byte) /\ Len(Request(c)) >= 6
    BY RequestIsRight
  <2>2. ASSUME NEW i \in 1..Len(Request(c)), NEW b \in Byte,
               m.bytes = [Request(c) EXCEPT ![i] = b]
        PROVE  m.bytes \in Seq(Byte) /\ Len(m.bytes) >= 6
    <3>1. m.bytes \in Seq(Byte) /\ Len(m.bytes) = Len(Request(c))
      BY <2>1, <2>2, ChangedMessage
    <3>. QED  BY <2>1, <3>1
  <2>. QED  BY <2>1, <2>2 DEF Harmless
<1>2. m.bytes[4] \in Byte /\ m.bytes[5] \in Byte
  <2>1. 4 \in 1..Len(m.bytes) /\ 5 \in 1..Len(m.bytes)
    BY <1>1
  <2>. QED  BY <1>1, <2>1, ElementOfSequence
<1>3. checkTheCheckSum[m.bytes] \in Byte
  BY <1>1, ChecksumIsByte
<1>. DEFINE e == errorMessage(m.bytes)
<1>4. e \in Seq(Byte) /\ Len(e) = 7
  <2>1. 0 \in Byte /\ 7 \in Byte
    BY DEF Byte
  <2>. QED  BY <1>2, <1>3, <2>1 DEF errorMessage
<1>. HIDE DEF e
<1>5. Datagram(e).bytes = e
  <2>1. 7 <= BUFSIZE
    BY ClientSizes
  <2>2. Len(e) <= BUFSIZE
    BY <1>4, <2>1
  <2>3. Datagram(e) = [bytes |-> e, clean |-> TRUE]
    BY <1>4, <2>2, WholeDatagram
  <2>. QED  BY <2>3
<1>6. RightReply(c, Datagram(e))
  BY <1>4, <1>5 DEF RightReply
<1>. QED  BY <1>6 DEF e

LEMMA CorruptedIsRight ==
    ASSUME NEW c \in Clients, NEW m, RightReply(c, m), m.clean,
           NEW y \in Corruptions(m), y[2] # "flip"
    PROVE  RightReply(c, y[1])
<1>1. PICK i \in 1..Len(m.bytes), b \in Noise :
        /\ b # m.bytes[i]
        /\ y[1] = Corrupted(m, i, b)
        /\ y[2] = Corruption(m.bytes[i], b)
  BY CorruptionsByCases
<1>2. Apart(m.bytes[i], b) /\ b \in Byte
  BY <1>1, CorruptionKind, Sizes
<1>3. ~y[1].clean /\ y[1].bytes = [m.bytes EXCEPT ![i] = b]
  BY <1>1 DEF Corrupted
<1>4. CASE m.bytes \in Seq(Byte) /\ Len(m.bytes) = 7
  <2>1. y[1].bytes \in Seq(Byte) /\ Len(y[1].bytes) = 7
    BY <1>2, <1>3, <1>4, ChangedMessage
  <2>. QED  BY <2>1 DEF RightReply
<1>5. CASE m.bytes \in Answers(c)
  BY <1>2, <1>3, <1>5 DEF RightReply
<1>. QED  BY <1>4, <1>5 DEF RightReply

\* What recvfrom() leaves in the buffer of an answer, and of anything that
\* is not longer.
LEMMA OverwriteLeavesZeros ==
    ASSUME NEW c \in Clients, NEW b, Unwritten(c, b), NEW data \in Seq(Byte),
           Len(data) <= 5 + 4 * Len(Hosts[c])
    PROVE  Unwritten(c, Overwrite(b, data))
<1>. DEFINE n == 5 + 4 * Len(Hosts[c])
            d == Overwrite(b, data)
<1>1. n \in Nat /\ n <= BUFSIZE /\ BUFSIZE \in Nat
  BY ClientSizes
<1>. HIDE DEF n
<1>2. Len(data) \in Nat /\ Len(data) <= n
  BY DEF n
<1>3. /\ d = [i \in 1..BUFSIZE |-> d[i]]
      /\ \A i \in 1..BUFSIZE : d[i] = IF i <= Len(data) THEN data[i] ELSE b[i]
  BY DEF Overwrite
<1>. HIDE DEF d
<1>4. \A i \in 1..BUFSIZE : b[i] \in Byte /\ (i > n => b[i] = 0)
  BY DEF Unwritten, n
<1>5. \A i \in 1..BUFSIZE : d[i] \in Byte /\ (i > n => d[i] = 0)
  <2>. TAKE i \in 1..BUFSIZE
  <2>1. CASE i <= Len(data)
    <3>1. i \in 1..Len(data)
      BY <1>2, <2>1
    <3>2. data[i] \in Byte
      BY <3>1, ElementOfSequence
    <3>3. ~(i > n)
      BY <1>1, <1>2, <2>1
    <3>. QED  BY <1>3, <2>1, <3>2, <3>3
  <2>2. CASE ~(i <= Len(data))
    BY <1>3, <1>4, <2>2
  <2>. QED  BY <2>1, <2>2
<1>6. d \in [1..BUFSIZE -> Byte]
  BY <1>3, <1>5
<1>. QED  BY <1>5, <1>6 DEF Unwritten, n, d

\* The checksum sees whether an answer has changed, whatever has been in the
\* buffer before.
LEMMA BufferSumsAnswer ==
    ASSUME NEW c \in Clients, NEW b, Unwritten(c, b), NEW a \in Seq(Byte),
           Len(a) = 5 + 4 * Len(Hosts[c]), Verifies(a)
    PROVE  /\ Overwrite(b, a) \in Seq(Byte) /\ Len(Overwrite(b, a)) = BUFSIZE
           /\ Verifies(Overwrite(b, a))
<1>. DEFINE d == Overwrite(b, a)
            n == Len(a)
<1>1. n \in Nat /\ n <= BUFSIZE /\ BUFSIZE \in Nat /\ n = 5 + 4 * Len(Hosts[c])
  BY ClientSizes
<1>2. d \in [1..BUFSIZE -> Byte]
  BY <1>1, OverwriteLeavesZeros DEF Unwritten
<1>3. \A i \in 1..BUFSIZE : d[i] = IF i <= n THEN a[i] ELSE b[i]
  BY DEF Overwrite
<1>. HIDE DEF d, n
<1>4. d \in Seq(Byte) /\ Len(d) = BUFSIZE
  BY <1>1, <1>2, FunctionIsSequence
<1>5. \A i \in 1..BUFSIZE : i > n => b[i] = 0
  BY <1>1 DEF Unwritten
<1>6. \A i \in 1..Len(d) : d[i] = IF i <= n THEN a[i] ELSE 0
  <2>. TAKE i \in 1..Len(d)
  <2>1. i \in 1..BUFSIZE /\ (~(i <= n) => i > n)
    BY <1>1, <1>4
  <2>. QED  BY <1>3, <1>5, <2>1
<1>7. checkTheCheckSum[d] = checkTheCheckSum[a]
  BY <1>1, <1>4, <1>6, TrailingZerosCountForNothing DEF n
<1>. QED  BY <1>4, <1>7 DEF d, Verifies

\* An answer that has changed in a byte does not get past the checksum.
LEMMA ChangeIsSeen ==
    ASSUME NEW c \in Clients, NEW b, Unwritten(c, b), NEW a \in Seq(Byte),
           Len(a) = 5 + 4 * Len(Hosts[c]), Verifies(a),
           NEW i \in 1..Len(a), NEW x \in Byte, Apart(a[i], x)
    PROVE  ~Verifies(Overwrite(b, [a EXCEPT ![i] = x]))
<1>. DEFINE d == Overwrite(b, a)
            other == [a EXCEPT ![i] = x]
            e == Overwrite(b, other)
<1>1. d \in Seq(Byte) /\ Len(d) = BUFSIZE /\ Verifies(d)
  BY BufferSumsAnswer
<1>2. Len(a) \in Nat /\ Len(a) <= BUFSIZE /\ BUFSIZE \in Nat
  BY ClientSizes
<1>3. i \in 1..BUFSIZE /\ i <= Len(a)
  BY <1>2
<1>4. /\ Len(other) = Len(a) /\ other[i] = x
      /\ \A k \in 1..Len(a) : k # i => other[k] = a[k]
  BY ChangedMessage
<1>. HIDE DEF other
<1>5. /\ e = [k \in 1..BUFSIZE |-> IF k <= Len(a) THEN other[k] ELSE b[k]]
      /\ d = [k \in 1..BUFSIZE |-> IF k <= Len(a) THEN a[k] ELSE b[k]]
  BY <1>4 DEF Overwrite
<1>. HIDE DEF e, d
<1>6. e = [d EXCEPT ![i] = x]
  <2>1. \A k \in 1..BUFSIZE : e[k] = IF k = i THEN x ELSE d[k]
    <3>. TAKE k \in 1..BUFSIZE
    <3>1. CASE k = i
      BY <1>3, <1>4, <1>5, <3>1
    <3>2. CASE k # i /\ k <= Len(a)
      <4>1. k \in 1..Len(a)
        BY <1>2, <3>2
      <4>. QED  BY <1>4, <1>5, <3>2, <4>1
    <3>3. CASE k # i /\ ~(k <= Len(a))
      BY <1>5, <3>3
    <3>. QED  BY <3>1, <3>2, <3>3
  <2>2. DOMAIN d = 1..BUFSIZE /\ e = [k \in 1..BUFSIZE |-> e[k]]
    BY <1>5
  <2>. QED  BY <1>3, <2>1, <2>2
<1>7. d[i] = a[i] /\ i \in 1..Len(d)
  BY <1>1, <1>3, <1>5
<1>8. ~Verifies([d EXCEPT ![i] = x])
  BY <1>1, <1>7, OneChangedByteIsNoticed
<1>. QED  BY <1>6, <1>8 DEF e, other

LEMMA ReplyIsTaken ==
    ASSUME NEW c \in Clients, NEW m, RightReply(c, m), NEW b, Unwritten(c, b)
    PROVE  /\ Unwritten(c, Overwrite(b, m.bytes))
           /\ Len(m.bytes) # 7 /\ Verifies(Overwrite(b, m.bytes)) =>
                 RightPrintout(c, Printout(Overwrite(b, m.bytes), Len(Hosts[c])))
<1>. DEFINE n == 5 + 4 * Len(Hosts[c])
<1>0. n \in Nat /\ 9 <= n /\ n <= BUFSIZE /\ BUFSIZE \in Nat
  BY ClientSizes
<1>1. CASE m.bytes \in Seq(Byte) /\ Len(m.bytes) = 7
  <2>1. Len(m.bytes) <= 5 + 4 * Len(Hosts[c])
    BY <1>0, <1>1
  <2>. QED  BY <1>1, <2>1, OverwriteLeavesZeros
<1>2. ASSUME NEW a \in Answers(c), m.bytes = a
      PROVE  /\ Unwritten(c, Overwrite(b, m.bytes))
             /\ RightPrintout(c, Printout(Overwrite(b, m.bytes), Len(Hosts[c])))
  <2>1. a \in Seq(Byte) /\ Len(a) = n
    BY AnswersAreRight
  <2>2. PICK ips \in Resolutions(Hosts[c]) :
          \A k \in 1..Len(Hosts[c]) : \A j \in 1..4 :
              a[5 + (4 * (k - 1) + j)] = ips[k][j]
    BY AnswersAreRight
  <2>3. Unwritten(c, Overwrite(b, a))
    <3>1. Len(a) <= 5 + 4 * Len(Hosts[c])
      BY <1>0, <2>1
    <3>. QED  BY <2>1, <3>1, OverwriteLeavesZeros
  <2>4. Overwrite(b, a) \in [1..BUFSIZE -> Byte]
    BY <2>3 DEF Unwritten
  <2>5. \A k \in 1..Len(Hosts[c]) : \A j \in 1..4 :
            Overwrite(b, a)[5 + (4 * (k - 1) + j)] = ips[k][j]
    <3>. TAKE k \in 1..Len(Hosts[c])
    <3>. TAKE j \in 1..4
    <3>1. PICK i \in 1..n : i = 5 + (4 * (k - 1) + j)
      <4>1. Len(Hosts[c]) \in Nat
        BY ClientSizes
      <4>. QED  BY <4>1
    <3>2. i \in 1..BUFSIZE /\ i <= Len(a)
      BY <1>0, <2>1
    <3>3. Overwrite(b, a)[i] = a[i]
      BY <3>2 DEF Overwrite
    <3>. QED  BY <2>2, <3>1, <3>3
  <2>. QED  BY <1>2, <2>3, <2>4, <2>5, AnswerIsPrintedRight
<1>3. ASSUME NEW a \in Answers(c), NEW i \in 1..Len(a), NEW x \in Byte,
             Apart(a[i], x), m.bytes = [a EXCEPT ![i] = x]
      PROVE  Unwritten(c, Overwrite(b, m.bytes)) /\ ~Verifies(Overwrite(b, m.bytes))
  <2>1. a \in Seq(Byte) /\ Len(a) = 5 + 4 * Len(Hosts[c]) /\ Verifies(a)
    BY AnswersAreRight
  <2>2. m.bytes \in Seq(Byte) /\ Len(m.bytes) = Len(a)
    BY <1>3, <2>1, ChangedMessage
  <2>3. Len(m.bytes) <= 5 + 4 * Len(Hosts[c])
    BY <1>0, <2>1, <2>2
  <2>. QED  BY <1>3, <2>1, <2>2, <2>3, OverwriteLeavesZeros, ChangeIsSeen
<1>. QED  BY <1>1, <1>2, <1>3 DEF RightReply

LEMMA PrintInvInit == Init => PrintInv
<1>. SUFFICES ASSUME Init PROVE PrintInv
  OBVIOUS
<1>1. /\ faults \in [FaultKinds -> Nat]
      /\ DOMAIN request = Clients /\ DOMAIN reply = Clients
      /\ DOMAIN buf = Clients /\ DOMAIN printed = Clients
  BY DEF Init
<1>2. ASSUME NEW c \in Clients
      PROVE  AnswersReach(c)
  <2>1. DOMAIN request[c] = {} /\ DOMAIN reply[c] = {}
    BY DEF Init, EmptyBag, SetToBag
  <2>2. buf[c] = [i \in 1..BUFSIZE |-> 0]
    BY DEF Init
  <2>3. 0 \in Byte
    BY DEF Byte
  <2>4. Unwritten(c, buf[c])
    BY <2>2, <2>3 DEF Unwritten
  <2>5. RightPrintout(c, printed[c])
    BY DEF Init, RightPrintout
  <2>. QED  BY <2>1, <2>4, <2>5 DEF AnswersReach
<1>. QED  BY <1>1, <1>2 DEF PrintInv

LEMMA ServePrints ==
    ASSUME PrintInv, NEW c \in Clients, Serve(c)
    PROVE  PrintInv'
<1>1. PICK m \in DOMAIN request[c] :
        Crash(c, m) \/ AnswerRequest(c, m) \/ RejectRequest(c, m)
  BY DEF Serve
<1>2. /\ request' = [request EXCEPT ![c] = Take(request[c], m)]
      /\ UNCHANGED <<faults, buf, printed>>
  BY <1>1 DEF Crash, AnswerRequest, RejectRequest
<1>3. /\ DOMAIN request' = Clients
      /\ \A d \in Clients : DOMAIN request'[d] \subseteq DOMAIN request[d]
  BY <1>2, TakeLeaves DEF PrintInv
<1>4. NoFlips' <=> NoFlips
  BY <1>2 DEF NoFlips
<1>5. NoFlips /\ Fits(c) => Harmless(c, m)
  BY DEF PrintInv, AnswersReach
<1>6. /\ DOMAIN reply' = Clients
      /\ NoFlips =>
            \A d \in Clients : Fits(d) =>
                \A r \in DOMAIN reply'[d] : r \in DOMAIN reply[d] \/ RightReply(d, r)
  <2>1. CASE Crash(c, m)
    BY <2>1 DEF Crash, PrintInv
  <2>2. ASSUME NEW r, reply' = [reply EXCEPT ![c] = Put(reply[c], r)],
               NoFlips /\ Fits(c) => RightReply(c, r)
        PROVE  /\ DOMAIN reply' = Clients
               /\ NoFlips =>
                     \A d \in Clients : Fits(d) =>
                         \A q \in DOMAIN reply'[d] : q \in DOMAIN reply[d] \/ RightReply(d, q)
    <3>1. DOMAIN reply' = Clients
      BY <2>2 DEF PrintInv
    <3>2. \A d \in Clients : DOMAIN reply'[d] =
              IF d = c THEN DOMAIN reply[d] \cup {r} ELSE DOMAIN reply[d]
      BY <2>2, PutAdds DEF PrintInv
    <3>3. ASSUME NoFlips, NEW d \in Clients, Fits(d), NEW q \in DOMAIN reply'[d]
          PROVE  q \in DOMAIN reply[d] \/ RightReply(d, q)
      <4>1. CASE d = c
        BY <2>2, <3>2, <3>3, <4>1
      <4>2. CASE d # c
        BY <3>2, <3>3, <4>2
      <4>. QED  BY <4>1, <4>2
    <3>. QED  BY <3>1, <3>3
  <2>3. CASE AnswerRequest(c, m)
    <3>1. PICK ips \in Resolutions(listOfHosts(m.bytes)) :
            reply' = [reply EXCEPT ![c] = Put(reply[c], Datagram(answerMessage(m.bytes, ips)))]
      BY <2>3 DEF AnswerRequest
    <3>2. NoFlips /\ Fits(c) => RightReply(c, Datagram(answerMessage(m.bytes, ips)))
      BY <1>5, <2>3, AnsweredRight DEF AnswerRequest
    <3>. QED  BY <2>2, <3>1, <3>2
  <2>4. CASE RejectRequest(c, m)
    <3>1. reply' = [reply EXCEPT ![c] = Put(reply[c], Datagram(errorMessage(m.bytes)))]
      BY <2>4 DEF RejectRequest
    <3>2. NoFlips /\ Fits(c) => RightReply(c, Datagram(errorMessage(m.bytes)))
      BY <1>5, RejectedRight
    <3>. QED  BY <2>2, <3>1, <3>2
  <2>. QED  BY <1>1, <2>1, <2>3, <2>4
<1>. QED  BY <1>2, <1>3, <1>4, <1>6 DEF PrintInv, AnswersReach

LEMMA SendPrints ==
    ASSUME PrintInv, NEW c \in Clients, Send(c)
    PROVE  PrintInv'
<1>1. /\ request' = [request EXCEPT ![c] = Put(request[c], Datagram(Request(c)))]
      /\ UNCHANGED <<reply, buf, printed, faults>>
  BY DEF Send
<1>2. /\ DOMAIN request' = Clients
      /\ \A d \in Clients : DOMAIN request'[d] =
            IF d = c THEN DOMAIN request[d] \cup {Datagram(Request(c))}
            ELSE DOMAIN request[d]
  BY <1>1, PutAdds DEF PrintInv
<1>3. NoFlips' <=> NoFlips
  BY <1>1 DEF NoFlips
<1>4. Fits(c) => Harmless(c, Datagram(Request(c)))
  BY SentIsHarmless
<1>5. \A d \in Clients : Fits(d) =>
          \A m \in DOMAIN request'[d] : m \in DOMAIN request[d] \/ Harmless(d, m)
  BY <1>2, <1>4
<1>. QED  BY <1>1, <1>2, <1>3, <1>5 DEF PrintInv, AnswersReach

LEMMA ReceivePrints ==
    ASSUME PrintInv, NEW c \in Clients, NEW m \in DOMAIN reply[c],
           InvalidResponse(c, m) \/ ServerError(c, m) \/ Answer(c, m)
    PROVE  PrintInv'
<1>1. /\ reply' = [reply EXCEPT ![c] = Take(reply[c], m)]
      /\ buf' = [buf EXCEPT ![c] = Overwrite(buf[c], m.bytes)]
      /\ UNCHANGED <<request, faults>>
  BY DEF InvalidResponse, ServerError, Answer, Receive
<1>2. /\ DOMAIN reply' = Clients /\ DOMAIN buf' = Clients
      /\ \A d \in Clients : DOMAIN reply'[d] \subseteq DOMAIN reply[d]
      /\ buf'[c] = Overwrite(buf[c], m.bytes)
      /\ \A d \in Clients : d # c => buf'[d] = buf[d]
  BY <1>1, TakeLeaves DEF PrintInv
<1>3. NoFlips' <=> NoFlips
  BY <1>1 DEF NoFlips
<1>4. NoFlips /\ Fits(c) => RightReply(c, m) /\ Unwritten(c, buf[c])
  BY DEF PrintInv, AnswersReach
<1>5. NoFlips /\ Fits(c) => Unwritten(c, buf'[c])
  BY <1>2, <1>4, ReplyIsTaken
<1>6. /\ DOMAIN printed' = Clients
      /\ \A d \in Clients : d # c => printed'[d] = printed[d]
      /\ NoFlips /\ Fits(c) => printed'[c] = printed[c] \/ RightPrintout(c, printed'[c])
  <2>1. CASE UNCHANGED printed
    BY <2>1 DEF PrintInv
  <2>2. CASE Answer(c, m)
    <3>1. /\ printed' = [printed EXCEPT ![c] = Printout(buf'[c], Len(Hosts[c]))]
          /\ Verifies(buf'[c]) /\ Len(m.bytes) # 7
      BY <2>2 DEF Answer
    <3>2. /\ DOMAIN printed' = Clients
          /\ printed'[c] = Printout(buf'[c], Len(Hosts[c]))
          /\ \A d \in Clients : d # c => printed'[d] = printed[d]
      BY <3>1 DEF PrintInv
    <3>3. NoFlips /\ Fits(c) => RightPrintout(c, Printout(buf'[c], Len(Hosts[c])))
      BY <1>2, <1>4, <3>1, ReplyIsTaken
    <3>. QED  BY <3>2, <3>3
  <2>. QED  BY <2>1, <2>2 DEF InvalidResponse, ServerError
<1>7. NoFlips => \A d \in Clients : Fits(d) =>
          Unwritten(d, buf'[d]) /\ RightPrintout(d, printed'[d])
  BY <1>2, <1>5, <1>6 DEF PrintInv, AnswersReach
<1>8. NoFlips => \A d \in Clients : Fits(d) =>
          /\ \A q \in DOMAIN request'[d] : Harmless(d, q)
          /\ \A q \in DOMAIN reply'[d] : RightReply(d, q)
  BY <1>1, <1>2 DEF PrintInv, AnswersReach
<1>. QED  BY <1>1, <1>2, <1>3, <1>6, <1>7, <1>8 DEF PrintInv, AnswersReach

LEMMA DisturbPrints ==
    ASSUME PrintInv, NEW c \in Clients, DisturbRequest(c) \/ DisturbReply(c)
    PROVE  PrintInv'
<1>1. UNCHANGED <<buf, printed>>
  BY DEF DisturbRequest, DisturbReply
<1>2. CASE DisturbRequest(c)
  <2>1. PICK x \in Disturbances(request[c]) :
          Fault(x[2]) /\ request' = [request EXCEPT ![c] = x[1]]
    BY <1>2 DEF DisturbRequest
  <2>2. x[2] \in FaultKinds
    BY DisturbanceKind
  <2>3. faults' \in [FaultKinds -> Nat] /\ (NoFlips' => NoFlips /\ x[2] # "flip")
    BY <2>1, <2>2, FaultCounts DEF PrintInv
  <2>4. UNCHANGED reply /\ DOMAIN request' = Clients
    BY <1>2, <2>1 DEF DisturbRequest, PrintInv
  <2>5. NoFlips' /\ Fits(c) =>
            \A m \in DOMAIN x[1] : m \in DOMAIN request[c] \/ Harmless(c, m)
    <3>1. CASE DOMAIN x[1] \subseteq DOMAIN request[c]
      BY <3>1
    <3>2. ASSUME NEW m \in DOMAIN request[c], NEW y \in Corruptions(m), m.clean,
                 x[2] = y[2], DOMAIN x[1] \subseteq DOMAIN request[c] \cup {y[1]},
                 NoFlips', Fits(c)
          PROVE  \A q \in DOMAIN x[1] : q \in DOMAIN request[c] \/ Harmless(c, q)
      <4>1. Harmless(c, m)
        BY <2>3, <3>2 DEF PrintInv, AnswersReach
      <4>2. Harmless(c, y[1])
        BY <2>3, <3>2, <4>1, CorruptedIsHarmless
      <4>. QED  BY <3>2, <4>2
    <3>. QED  BY <3>1, <3>2, DisturbancesByCases
  <2>6. /\ request'[c] = x[1]
        /\ \A d \in Clients : d # c => request'[d] = request[d]
    BY <2>1 DEF PrintInv
  <2>7. NoFlips' => \A d \in Clients : Fits(d) =>
            \A m \in DOMAIN request'[d] : Harmless(d, m)
    BY <2>3, <2>5, <2>6 DEF PrintInv, AnswersReach
  <2>. QED  BY <1>1, <2>3, <2>4, <2>7 DEF PrintInv, AnswersReach
<1>3. CASE DisturbReply(c)
  <2>1. PICK x \in Disturbances(reply[c]) :
          Fault(x[2]) /\ reply' = [reply EXCEPT ![c] = x[1]]
    BY <1>3 DEF DisturbReply
  <2>2. x[2] \in FaultKinds
    BY DisturbanceKind
  <2>3. faults' \in [FaultKinds -> Nat] /\ (NoFlips' => NoFlips /\ x[2] # "flip")
    BY <2>1, <2>2, FaultCounts DEF PrintInv
  <2>4. UNCHANGED request /\ DOMAIN reply' = Clients
    BY <1>3, <2>1 DEF DisturbReply, PrintInv
  <2>5. NoFlips' /\ Fits(c) =>
            \A m \in DOMAIN x[1] : m \in DOMAIN reply[c] \/ RightReply(c, m)
    <3>1. CASE DOMAIN x[1] \subseteq DOMAIN reply[c]
      BY <3>1
    <3>2. ASSUME NEW m \in DOMAIN reply[c], NEW y \in Corruptions(m), m.clean,
                 x[2] = y[2], DOMAIN x[1] \subseteq DOMAIN reply[c] \cup {y[1]},
                 NoFlips', Fits(c)
          PROVE  \A q \in DOMAIN x[1] : q \in DOMAIN reply[c] \/ RightReply(c, q)
      <4>1. RightReply(c, m)
        BY <2>3, <3>2 DEF PrintInv, AnswersReach
      <4>2. RightReply(c, y[1])
        BY <2>3, <3>2, <4>1, CorruptedIsRight
      <4>. QED  BY <3>2, <4>2
    <3>. QED  BY <3>1, <3>2, DisturbancesByCases
  <2>6. /\ reply'[c] = x[1]
        /\ \A d \in Clients : d # c => reply'[d] = reply[d]
    BY <2>1 DEF PrintInv
  <2>7. NoFlips' => \A d \in Clients : Fits(d) =>
            \A m \in DOMAIN reply'[d] : RightReply(d, m)
    BY <2>3, <2>5, <2>6 DEF PrintInv, AnswersReach
  <2>. QED  BY <1>1, <2>3, <2>4, <2>7 DEF PrintInv, AnswersReach
<1>. QED  BY <1>2, <1>3

\* What a client prints about its hosts, up to the first that was not
\* resolved, are their addresses (UDPClient.c 226-240): for any hosts that
\* fit, any number of clients and tries, and whatever is lost, duplicated,
\* delayed or corrupted in one byte, but for 0 into 255 and 255 into 0.
THEOREM PrintoutIsRight == Spec => []PrintedAddressesAreRight
<1>1. PrintInv /\ [Next]_vars => PrintInv'
  <2>. SUFFICES ASSUME PrintInv, [Next]_vars PROVE PrintInv'
    OBVIOUS
  <2>1. ASSUME NEW c \in Clients, ClientStep(c)
        PROVE  PrintInv'
    BY <2>1, SendPrints, ReceivePrints DEF ClientStep
  <2>2. CASE UNCHANGED vars
    BY <2>2 DEF PrintInv, AnswersReach, vars, NoFlips
  <2>. QED  BY <2>1, <2>2, ServePrints, DisturbPrints DEF Next
<1>2. PrintInv => PrintedAddressesAreRight
  BY DEF PrintInv, AnswersReach, RightPrintout, PrintedAddressesAreRight
<1>. QED  BY <1>1, <1>2, PrintInvInit, PTL DEF Spec

(***************************************************************************)
(* The types.                                                              *)
(***************************************************************************)
LEMMA PutIsBag ==
    ASSUME NEW bag, IsABag(bag), NEW m
    PROVE  IsABag(Put(bag, m))
BY DEF IsABag, Put, (+), SetToBag

LEMMA TakeIsBag ==
    ASSUME NEW bag, IsABag(bag), NEW m
    PROVE  IsABag(Take(bag, m))
<1>. DEFINE rest == [e \in DOMAIN bag |-> IF e \in {m} THEN bag[e] - 1 ELSE bag[e]]
<1>1. \A e \in DOMAIN bag : bag[e] \in Nat /\ bag[e] > 0
  BY DEF IsABag
<1>2. Take(bag, m) = [e \in {d \in DOMAIN rest : rest[d] > 0} |-> rest[e]]
  BY DEF Take, (-), SetToBag
<1>3. \A e \in DOMAIN rest : rest[e] \in Nat
  BY <1>1
<1>. HIDE DEF rest
<1>. QED  BY <1>2, <1>3 DEF IsABag

\* A datagram holds no more than the buffer of the one who receives it.
LEMMA DatagramFits ==
    ASSUME Clients # {}, NEW bytes \in Seq(Byte)
    PROVE  /\ Datagram(bytes) \in Datagrams
           /\ Len(Datagram(bytes).bytes) <= BUFSIZE
           /\ Len(bytes) >= 6 => Len(Datagram(bytes).bytes) >= 6
<1>. DEFINE L == Len(bytes)
            k == Min({L, BUFSIZE})
<1>1. L \in Nat /\ BUFSIZE \in Nat
  BY Sizes
<1>2. k \in Nat /\ k <= L /\ k <= BUFSIZE /\ (k = L \/ k = BUFSIZE)
  <2>. DEFINE D == {L, BUFSIZE}
  <2>1. \E x \in D : \A y \in D : x <= y
    <3>1. CASE L <= BUFSIZE
      BY <1>1, <3>1
    <3>2. CASE ~(L <= BUFSIZE)
      BY <1>1, <3>2
    <3>. QED  BY <3>1, <3>2
  <2>2. Min(D) \in D /\ \A y \in D : Min(D) <= y
    <3>. HIDE DEF D
    <3>. QED  BY <2>1, Zenon DEF Min
  <2>. QED  BY <1>1, <2>2
<1>. HIDE DEF k
<1>3. SubSeq(bytes, 1, k) \in Seq(Byte) /\ Len(SubSeq(bytes, 1, k)) = k
  BY <1>1, <1>2
<1>4. Datagram(bytes) = [bytes |-> SubSeq(bytes, 1, k), clean |-> TRUE]
  BY DEF Datagram, k
<1>5. BUFSIZE >= 6
  BY <1>1, ClientSizes
<1>. QED  BY <1>1, <1>2, <1>3, <1>4, <1>5 DEF Datagrams

\* split() returns at least one part, and at most one more than there are
\* bytes.
LEMMA PartCount ==
    ASSUME NEW body \in Seq(Byte), NEW d
    PROVE  \E n \in Nat : n > 0 /\ n <= Len(body) + 1 /\ Len(split(body, d)) = n
<1>. DEFINE L == Len(body)
            ends == {i \in 1..L : body[i] = d} \cup {L + 1}
            n == Cardinality(ends)
            f == CHOOSE g : IsEnds(g, ends, n)
<1>1. split(body, d) = [k \in 1..n |-> SubSeq(body, f[k - 1] + 1, f[k] - 1)]
  BY SplitByEnds
<1>2. L \in Nat
  OBVIOUS
<1>. HIDE DEF L
<1>3. ends \subseteq 1..L + 1 /\ ends # {}
  BY <1>2
<1>. HIDE DEF ends
<1>4. IsFiniteSet(1..L + 1) /\ Cardinality(1..L + 1) = L + 1
  <2>1. 1 \in Int /\ L + 1 \in Int /\ ~(1 > L + 1) /\ L + 1 - 1 + 1 = L + 1
    BY <1>2
  <2>. QED  BY <2>1, FS_Interval
<1>5. IsFiniteSet(ends) /\ n <= L + 1
  <2>1. IsFiniteSet(ends) /\ n <= Cardinality(1..L + 1)
    BY <1>3, <1>4, FS_Subset, Zenon
  <2>. QED  BY <1>4, <2>1, Zenon
<1>6. n \in Nat
  BY <1>5, FS_CardinalityType
<1>7. n # 0
  BY <1>3, <1>5, FS_EmptySet
<1>. HIDE DEF n, f
<1>8. Len(split(body, d)) = n
  BY <1>1, <1>6
<1>. QED  BY <1>5, <1>6, <1>7, <1>8 DEF L

\* The loop does not leave the buffer, which has room for twice as many
\* addresses as there are hosts.
LEMMA IndexStays ==
    ASSUME NEW buffer, NEW n \in Nat
    PROVE  \A e \in 1..n : /\ Index(buffer, n)[e] \in Nat
                           /\ 6 <= Index(buffer, n)[e]
                           /\ Index(buffer, n)[e] <= 8 * e - 2
<1>. DEFINE I == Index(buffer, n)
            T == {k \in 0..n : k > 0 => I[k] \in Nat /\ 6 <= I[k] /\ I[k] <= 8 * k - 2}
<1>1. 0 \in T
  OBVIOUS
<1>2. ASSUME NEW k \in 1..n, k - 1 \in T
      PROVE  k \in T
  <2>1. /\ n > 0 => I[1] = 6
        /\ k # 1 => I[k] = I[k - 1] + 8 \/ I[k] = I[k - 1] + 4
    BY IndexSteps
  <2>. HIDE DEF I
  <2>2. CASE k = 1
    BY <2>1, <2>2
  <2>3. CASE k # 1
    <3>1. /\ k - 1 > 0 /\ k \in 0..n /\ k \in Int
          /\ I[k - 1] \in Nat /\ 6 <= I[k - 1] /\ I[k - 1] <= 8 * (k - 1) - 2
      BY <1>2, <2>3
    <3>2. PICK i \in Nat : i = I[k - 1]
      BY <3>1
    <3>. QED  BY <2>1, <2>3, <3>1, <3>2
  <2>. QED  BY <2>2, <2>3
<1>. HIDE DEF T
<1>3. 0..n \subseteq T
  BY <1>1, <1>2, Induction
<1>4. \A e \in 1..n : e \in 0..n /\ e > 0
  OBVIOUS
<1>. QED  BY <1>3, <1>4 DEF T

LEMMA PrintoutType ==
    ASSUME NEW c \in Clients, NEW buffer \in [1..BUFSIZE -> Byte]
    PROVE  Printout(buffer, Len(Hosts[c])) \in Seq([issues : BOOLEAN, ip : Seq(Byte)])
<1>. DEFINE n == Len(Hosts[c])
            I == Index(buffer, n)
            first(e) == IF buffer[I[e]] = 255 THEN I[e] + 4 ELSE I[e]
            p == Printout(buffer, n)
<1>1. n \in Nat /\ 5 + 8 * n <= BUFSIZE /\ BUFSIZE \in Nat
  BY HostCount, Sizes
<1>2. buffer \in Seq(Byte) /\ Len(buffer) = BUFSIZE
  BY <1>1, FunctionIsSequence
<1>3. p = [e \in 1..n |-> [issues |-> buffer[I[e]] = 255,
                           ip |-> SubSeq(buffer, first(e), first(e) + 3)]]
  BY DEF Printout
<1>. HIDE DEF n, p
<1>4. \A e \in 1..n : I[e] \in Nat /\ 6 <= I[e] /\ I[e] <= 8 * e - 2
  BY <1>1, IndexStays
<1>. HIDE DEF I
<1>5. ASSUME NEW e \in 1..n
      PROVE  SubSeq(buffer, first(e), first(e) + 3) \in Seq(Byte)
  <2>1. PICK i \in Nat \ {0} : i = first(e) /\ i + 3 <= BUFSIZE
    <3>1. PICK j \in Nat : j = I[e] /\ 6 <= j /\ j <= 8 * e - 2
      BY <1>4
    <3>2. first(e) \in {j, j + 4}
      BY <3>1
    <3>3. j + 7 <= BUFSIZE /\ j \in Nat \ {0} /\ j + 4 \in Nat \ {0}
      BY <1>1, <3>1
    <3>. HIDE DEF first
    <3>. QED  BY <1>1, <3>2, <3>3
  <2>. HIDE DEF first
  <2>2. SubSeq(buffer, i, i + 3) \in Seq(Byte)
    <3>. DEFINE b == i + 3
    <3>1. b = i + 4 - 1 /\ 4 \in Nat /\ i + 4 - 1 <= Len(buffer)
      BY <1>1, <1>2, <2>1
    <3>. HIDE DEF b
    <3>2. SubSeq(buffer, i, b) \in Seq(Byte)
      BY <1>2, <3>1, PartOfSequence
    <3>. QED  BY <3>2 DEF b
  <2>. QED  BY <2>1, <2>2
<1>. HIDE DEF first
<1>6. \A e \in 1..n : [issues |-> buffer[I[e]] = 255,
                       ip |-> SubSeq(buffer, first(e), first(e) + 3)]
                      \in [issues : BOOLEAN, ip : Seq(Byte)]
  BY <1>5
<1>7. p \in [1..n -> [issues : BOOLEAN, ip : Seq(Byte)]]
  BY <1>3, <1>6
<1>8. p \in Seq([issues : BOOLEAN, ip : Seq(Byte)])
  BY <1>1, <1>7, FunctionIsSequence
<1>. QED  BY <1>8 DEF p, n

\* Datagrams on their way: the buffers' sizes hold for all of them, and a
\* request has its header whatever has happened to it.
IsTraffic(bag) == IsABag(bag) /\ DOMAIN bag \subseteq Datagrams

Whole(bag) == \A m \in DOMAIN bag : 6 <= Len(m.bytes) /\ Len(m.bytes) <= BUFSIZE

TypeInv ==
    /\ TypeOK
    /\ DOMAIN request = Clients /\ DOMAIN reply = Clients
    /\ \A c \in Clients : Whole(request[c])
    /\ \A c \in Clients : pc[c] \in {"send", "recv"} => trys[c] < Tries

LEMMA TrafficLeaves ==
    ASSUME NEW bag, IsTraffic(bag), NEW m
    PROVE  IsTraffic(Take(bag, m)) /\ (Whole(bag) => Whole(Take(bag, m)))
BY TakeIsBag, TakeLeaves DEF IsTraffic, Whole

LEMMA TrafficComes ==
    ASSUME NEW bag, IsTraffic(bag), NEW m \in Datagrams
    PROVE  /\ IsTraffic(Put(bag, m))
           /\ Whole(bag) /\ 6 <= Len(m.bytes) /\ Len(m.bytes) <= BUFSIZE =>
                 Whole(Put(bag, m))
<1>1. DOMAIN Put(bag, m) = DOMAIN bag \cup {m}
  BY PutAdds
<1>2. IsTraffic(Put(bag, m))
  BY <1>1, PutIsBag DEF IsTraffic
<1>3. Whole(bag) /\ 6 <= Len(m.bytes) /\ Len(m.bytes) <= BUFSIZE => Whole(Put(bag, m))
  BY <1>1 DEF Whole
<1>. QED  BY <1>2, <1>3

LEMMA TrafficIsDisturbed ==
    ASSUME NEW bag, IsTraffic(bag), NEW x \in Disturbances(bag)
    PROVE  IsTraffic(x[1]) /\ (Whole(bag) => Whole(x[1]))
<1>1. PICK m \in DOMAIN bag :
        \/ x = <<Take(bag, m), "loss">>
        \/ x = <<Put(bag, m), "duplicate">>
        \/ m.clean /\ \E y \in Corruptions(m) : x = <<Put(Take(bag, m), y[1]), y[2]>>
  BY Zenon DEF Disturbances
<1>2. m \in Datagrams
  BY DEF IsTraffic
<1>3. CASE x = <<Take(bag, m), "loss">>
  BY <1>3, TrafficLeaves
<1>4. CASE x = <<Put(bag, m), "duplicate">>
  BY <1>2, <1>4, TrafficComes DEF Whole
<1>5. ASSUME NEW y \in Corruptions(m), x = <<Put(Take(bag, m), y[1]), y[2]>>
      PROVE  IsTraffic(x[1]) /\ (Whole(bag) => Whole(x[1]))
  <2>1. PICK i \in 1..Len(m.bytes), b \in Noise : y[1] = Corrupted(m, i, b)
    BY CorruptionsByCases
  <2>2. m.bytes \in Seq(Byte) /\ b \in Byte
    BY <1>2, Sizes DEF Datagrams
  <2>3. /\ [m.bytes EXCEPT ![i] = b] \in Seq(Byte)
        /\ Len([m.bytes EXCEPT ![i] = b]) = Len(m.bytes)
    BY <2>2, ChangedMessage
  <2>4. y[1] \in Datagrams /\ Len(y[1].bytes) = Len(m.bytes)
    BY <2>1, <2>3 DEF Corrupted, Datagrams
  <2>5. Whole(bag) => 6 <= Len(y[1].bytes) /\ Len(y[1].bytes) <= BUFSIZE
    BY <2>4 DEF Whole
  <2>6. x[1] = Put(Take(bag, m), y[1])
    BY <1>5
  <2>. QED  BY <2>4, <2>5, <2>6, TrafficLeaves, TrafficComes
<1>. QED  BY <1>1, <1>3, <1>4, <1>5

\* What the server does with a request leaves a datagram on its way.
LEMMA ReplyType ==
    ASSUME NEW c \in Clients, NEW m \in Datagrams, 6 <= Len(m.bytes), Len(m.bytes) <= BUFSIZE
    PROVE  /\ Datagram(errorMessage(m.bytes)) \in Datagrams
           /\ ~Mismatch(m.bytes) /\ Verifies(m.bytes) =>
                 \A ips \in Resolutions(listOfHosts(m.bytes)) :
                     Datagram(answerMessage(m.bytes, ips)) \in Datagrams
<1>. DEFINE data == m.bytes
<1>1. data \in Seq(Byte) /\ Len(data) \in Nat /\ 6 <= Len(data) /\ Len(data) <= BUFSIZE
  BY DEF Datagrams
<1>. HIDE DEF data
<1>2. data[4] \in Byte /\ data[5] \in Byte
  <2>1. 4 \in 1..Len(data) /\ 5 \in 1..Len(data)
    BY <1>1
  <2>. QED  BY <1>1, <2>1, ElementOfSequence
<1>3. errorMessage(data) \in Seq(Byte)
  <2>1. 0 \in Byte /\ 7 \in Byte
    BY ByteRange
  <2>2. checkTheCheckSum[data] \in Byte
    BY <1>1, ChecksumIsByte, Zenon
  <2>. QED  BY <1>2, <2>1, <2>2 DEF errorMessage
<1>4. ASSUME ~Mismatch(data), Verifies(data), NEW ips \in Resolutions(listOfHosts(data))
      PROVE  answerMessage(data, ips) \in Seq(Byte)
  <2>1. lengthOfPacket(data) = Len(data)
    BY <1>4 DEF Mismatch
  <2>. DEFINE L == Len(data)
              body == SubSeq(data, 7, L)
  <2>2. body \in Seq(Byte) /\ Len(body) \in Nat /\ Len(body) <= L
    <3>1. PICK k \in Nat : L = 7 + k - 1 /\ 7 + k - 1 <= Len(data) /\ k <= L
      BY <1>1
    <3>2. 7 \in Nat \ {0}
      OBVIOUS
    <3>. HIDE DEF L
    <3>3. SubSeq(data, 7, L) \in Seq(Byte) /\ Len(SubSeq(data, 7, L)) = k
      BY <1>1, <3>1, <3>2, PartOfSequence
    <3>. QED  BY <3>1, <3>3
  <2>3. listOfHosts(data) = split(body, data[6])
    BY <2>1 DEF listOfHosts
  <2>. HIDE DEF body
  <2>4. PICK n \in Nat : /\ n > 0 /\ n <= Len(body) + 1
                         /\ Len(listOfHosts(data)) = n
    BY <2>2, <2>3, PartCount
  <2>5. Short(5 + 4 * n)
    <3>1. n <= BUFSIZE + 1
      BY <1>1, <2>2, <2>4, Sizes
    <3>. QED  BY <3>1, Sizes
  <2>6. answerMessage(data, ips) \in Seq(Byte)
    BY <1>2, <1>4, <2>4, <2>5, AnswerIsRight
  <2>. QED  BY <2>6
<1>. QED  BY <1>3, <1>4, DatagramFits DEF data

LEMMA TypeInvInit == Init => TypeInv
<1>. SUFFICES ASSUME Init PROVE TypeInv
  OBVIOUS
<1>1. 0 \in Byte /\ 0 \in 0..Tries /\ 0 < Tries
  BY Sizes DEF Byte
<1>2. EmptyBag = [e \in {} |-> 1]
  BY DEF EmptyBag, SetToBag
<1>3. IsABag(EmptyBag) /\ DOMAIN EmptyBag = {}
  BY <1>2 DEF IsABag
<1>4. \A c \in Clients : /\ IsABag(request[c]) /\ DOMAIN request[c] = {}
                         /\ IsABag(reply[c]) /\ DOMAIN reply[c] = {}
  BY <1>3 DEF Init
<1>5. buf \in [Clients -> [1..BUFSIZE -> Byte]]
  BY <1>1 DEF Init
<1>6. printed \in [Clients -> Seq([issues : BOOLEAN, ip : Seq(Byte)])]
  BY DEF Init
<1>7. /\ up \in BOOLEAN
      /\ pc \in [Clients -> {"send", "recv"} \cup Ended]
      /\ trys \in [Clients -> 0..Tries]
      /\ faults \in [FaultKinds -> Nat]
      /\ DOMAIN request = Clients /\ DOMAIN reply = Clients
      /\ \A c \in Clients : trys[c] < Tries
  BY <1>1 DEF Init
<1>. QED  BY <1>4, <1>5, <1>6, <1>7 DEF TypeInv, TypeOK, Whole

LEMMA TypeIsTraffic ==
    TypeOK <=>
        /\ up \in BOOLEAN
        /\ \A c \in Clients : IsTraffic(request[c]) /\ IsTraffic(reply[c])
        /\ pc \in [Clients -> {"send", "recv"} \cup Ended]
        /\ trys \in [Clients -> 0..Tries]
        /\ buf \in [Clients -> [1..BUFSIZE -> Byte]]
        /\ printed \in [Clients -> Seq([issues : BOOLEAN, ip : Seq(Byte)])]
        /\ faults \in [FaultKinds -> Nat]
BY DEF TypeOK, IsTraffic

LEMMA ServeTypes ==
    ASSUME TypeInv, NEW c \in Clients, Serve(c)
    PROVE  TypeInv'
<1>1. PICK m \in DOMAIN request[c] :
        Crash(c, m) \/ AnswerRequest(c, m) \/ RejectRequest(c, m)
  BY DEF Serve
<1>2. /\ request' = [request EXCEPT ![c] = Take(request[c], m)]
      /\ UNCHANGED <<pc, trys, faults, buf, printed>>
      /\ up' \in {up, FALSE}
  BY <1>1 DEF Crash, AnswerRequest, RejectRequest
<1>3. IsTraffic(request[c]) /\ Whole(request[c]) /\ IsTraffic(reply[c])
  BY TypeIsTraffic DEF TypeInv
<1>4. DOMAIN request' = Clients
      /\ \A d \in Clients : request'[d] = IF d = c THEN Take(request[c], m) ELSE request[d]
  BY <1>2 DEF TypeInv
<1>5. \A d \in Clients : IsTraffic(request'[d]) /\ Whole(request'[d])
  BY <1>3, <1>4, TrafficLeaves, TypeIsTraffic DEF TypeInv
<1>6. m \in Datagrams /\ 6 <= Len(m.bytes) /\ Len(m.bytes) <= BUFSIZE
  BY <1>3 DEF IsTraffic, Whole
<1>7. UNCHANGED reply \/ \E r \in Datagrams : reply' = [reply EXCEPT ![c] = Put(reply[c], r)]
  <2>1. CASE Crash(c, m)
    BY <2>1 DEF Crash
  <2>2. CASE AnswerRequest(c, m)
    <3>1. PICK ips \in Resolutions(listOfHosts(m.bytes)) :
            reply' = [reply EXCEPT ![c] = Put(reply[c], Datagram(answerMessage(m.bytes, ips)))]
      BY <2>2 DEF AnswerRequest
    <3>2. Datagram(answerMessage(m.bytes, ips)) \in Datagrams
      BY <1>6, <2>2, ReplyType DEF AnswerRequest
    <3>. QED  BY <3>1, <3>2
  <2>3. CASE RejectRequest(c, m)
    <3>1. reply' = [reply EXCEPT ![c] = Put(reply[c], Datagram(errorMessage(m.bytes)))]
      BY <2>3 DEF RejectRequest
    <3>2. Datagram(errorMessage(m.bytes)) \in Datagrams
      BY <1>6, ReplyType
    <3>. QED  BY <3>1, <3>2
  <2>. QED  BY <1>1, <2>1, <2>2, <2>3
<1>8. DOMAIN reply' = Clients /\ \A d \in Clients : IsTraffic(reply'[d])
  <2>1. CASE UNCHANGED reply
    BY <2>1, TypeIsTraffic DEF TypeInv
  <2>2. ASSUME NEW r \in Datagrams, reply' = [reply EXCEPT ![c] = Put(reply[c], r)]
        PROVE  DOMAIN reply' = Clients /\ \A d \in Clients : IsTraffic(reply'[d])
    <3>1. DOMAIN reply' = Clients
          /\ \A d \in Clients : reply'[d] = IF d = c THEN Put(reply[c], r) ELSE reply[d]
      BY <2>2 DEF TypeInv
    <3>2. IsTraffic(Put(reply[c], r))
      BY <1>3, TrafficComes
    <3>. QED  BY <3>1, <3>2, TypeIsTraffic DEF TypeInv
  <2>. QED  BY <1>7, <2>1, <2>2
<1>9. /\ up' \in BOOLEAN
      /\ pc' \in [Clients -> {"send", "recv"} \cup Ended]
      /\ trys' \in [Clients -> 0..Tries]
      /\ buf' \in [Clients -> [1..BUFSIZE -> Byte]]
      /\ printed' \in [Clients -> Seq([issues : BOOLEAN, ip : Seq(Byte)])]
      /\ faults' \in [FaultKinds -> Nat]
      /\ \A d \in Clients : pc'[d] \in {"send", "recv"} => trys'[d] < Tries
  BY <1>2, TypeIsTraffic DEF TypeInv
<1>10. TypeOK'
  BY <1>5, <1>8, <1>9 DEF TypeOK, IsTraffic
<1>. QED  BY <1>4, <1>5, <1>8, <1>9, <1>10 DEF TypeInv

LEMMA SendTypes ==
    ASSUME TypeInv, NEW c \in Clients, Send(c)
    PROVE  TypeInv'
<1>. DEFINE r == Datagram(Request(c))
<1>1. /\ request' = [request EXCEPT ![c] = Put(request[c], r)]
      /\ pc[c] = "send" /\ pc' = [pc EXCEPT ![c] = "recv"]
      /\ UNCHANGED <<up, reply, trys, buf, printed, faults>>
  BY DEF Send
<1>2. r \in Datagrams /\ 6 <= Len(r.bytes) /\ Len(r.bytes) <= BUFSIZE
  <2>1. Datagram(Request(c)).bytes \in Seq(Byte)
    BY RequestIsRight, DatagramFits DEF Datagrams
  <2>. QED  BY <2>1, RequestIsRight, DatagramFits
<1>. HIDE DEF r
<1>3. IsTraffic(request[c]) /\ Whole(request[c])
  BY TypeIsTraffic DEF TypeInv
<1>4. DOMAIN request' = Clients
      /\ \A d \in Clients : request'[d] = IF d = c THEN Put(request[c], r) ELSE request[d]
  BY <1>1 DEF TypeInv
<1>5. \A d \in Clients : IsTraffic(request'[d]) /\ Whole(request'[d])
  BY <1>2, <1>3, <1>4, TrafficComes, TypeIsTraffic DEF TypeInv
<1>6. /\ pc' \in [Clients -> {"send", "recv"} \cup Ended]
      /\ \A d \in Clients : pc'[d] \in {"send", "recv"} => trys'[d] < Tries
  BY <1>1, TypeIsTraffic DEF TypeInv
<1>7. TypeOK'
  BY <1>1, <1>5, <1>6, TypeIsTraffic DEF TypeInv, TypeOK, IsTraffic
<1>. QED  BY <1>1, <1>4, <1>5, <1>6, <1>7 DEF TypeInv

LEMMA ReceiveTypes ==
    ASSUME TypeInv, NEW c \in Clients, NEW m \in DOMAIN reply[c],
           InvalidResponse(c, m) \/ ServerError(c, m) \/ Answer(c, m)
    PROVE  TypeInv'
<1>1. /\ pc[c] = "recv"
      /\ reply' = [reply EXCEPT ![c] = Take(reply[c], m)]
      /\ buf' = [buf EXCEPT ![c] = Overwrite(buf[c], m.bytes)]
      /\ UNCHANGED <<up, request, faults>>
  BY DEF InvalidResponse, ServerError, Answer, Receive
<1>2. IsTraffic(reply[c]) /\ m \in Datagrams
  BY TypeIsTraffic DEF TypeInv, IsTraffic
<1>3. DOMAIN reply' = Clients
      /\ \A d \in Clients : reply'[d] = IF d = c THEN Take(reply[c], m) ELSE reply[d]
  BY <1>1 DEF TypeInv
<1>4. \A d \in Clients : IsTraffic(reply'[d])
  BY <1>2, <1>3, TrafficLeaves, TypeIsTraffic DEF TypeInv
<1>5. Overwrite(buf[c], m.bytes) \in [1..BUFSIZE -> Byte]
  <2>1. m.bytes \in Seq(Byte) /\ Len(m.bytes) \in Nat /\ buf[c] \in [1..BUFSIZE -> Byte]
    BY <1>2, TypeIsTraffic DEF TypeInv, Datagrams
  <2>2. \A i \in 1..BUFSIZE : i <= Len(m.bytes) => m.bytes[i] \in Byte
    <3>. TAKE i \in 1..BUFSIZE
    <3>1. i <= Len(m.bytes) => i \in 1..Len(m.bytes)
      BY <2>1, Sizes
    <3>. QED  BY <2>1, <3>1, ElementOfSequence
  <2>. QED  BY <2>1, <2>2 DEF Overwrite
<1>6. buf' \in [Clients -> [1..BUFSIZE -> Byte]] /\ buf'[c] \in [1..BUFSIZE -> Byte]
  BY <1>1, <1>5, TypeIsTraffic DEF TypeInv
<1>7. /\ pc \in [Clients -> {"send", "recv"} \cup Ended]
      /\ trys \in [Clients -> 0..Tries] /\ trys[c] < Tries /\ Tries \in Nat
      /\ printed \in [Clients -> Seq([issues : BOOLEAN, ip : Seq(Byte)])]
      /\ \A d \in Clients : pc[d] \in {"send", "recv"} => trys[d] < Tries
  BY <1>1, Sizes, TypeIsTraffic DEF TypeInv
<1>8. /\ pc' \in [Clients -> {"send", "recv"} \cup Ended]
      /\ trys' \in [Clients -> 0..Tries]
      /\ printed' \in [Clients -> Seq([issues : BOOLEAN, ip : Seq(Byte)])]
      /\ \A d \in Clients : pc'[d] \in {"send", "recv"} => trys'[d] < Tries
  <2>1. CASE InvalidResponse(c, m)
    <3>1. /\ trys' = [trys EXCEPT ![c] = trys[c] + 1]
          /\ pc' = [pc EXCEPT ![c] = IF trys'[c] < Tries THEN "send" ELSE "failed"]
          /\ UNCHANGED printed
      BY <2>1 DEF InvalidResponse
    <3>2. trys[c] + 1 \in 0..Tries
      BY <1>7
    <3>3. trys' \in [Clients -> 0..Tries] /\ \A d \in Clients : d # c => trys'[d] = trys[d]
      BY <1>7, <3>1, <3>2
    <3>4. /\ pc' \in [Clients -> {"send", "recv"} \cup Ended]
          /\ \A d \in Clients : d # c => pc'[d] = pc[d]
          /\ pc'[c] \in {"send", "recv"} => trys'[c] < Tries
      BY <1>7, <3>1 DEF Ended
    <3>. QED  BY <1>7, <3>1, <3>3, <3>4
  <2>2. CASE ServerError(c, m)
    BY <1>7, <2>2 DEF ServerError, Ended
  <2>3. CASE Answer(c, m)
    <3>1. /\ printed' = [printed EXCEPT ![c] = Printout(buf'[c], Len(Hosts[c]))]
          /\ pc' = [pc EXCEPT ![c] = "answered"]
          /\ UNCHANGED trys
      BY <2>3 DEF Answer
    <3>2. Printout(buf'[c], Len(Hosts[c])) \in Seq([issues : BOOLEAN, ip : Seq(Byte)])
      BY <1>6, PrintoutType
    <3>3. printed' \in [Clients -> Seq([issues : BOOLEAN, ip : Seq(Byte)])]
      BY <1>7, <3>1, <3>2
    <3>. QED  BY <1>7, <3>1, <3>3 DEF Ended
  <2>. QED  BY <2>1, <2>2, <2>3
<1>9. TypeOK'
  BY <1>1, <1>4, <1>6, <1>8, TypeIsTraffic DEF TypeInv, TypeOK, IsTraffic
<1>. QED  BY <1>1, <1>3, <1>8, <1>9 DEF TypeInv

LEMMA DisturbTypes ==
    ASSUME TypeInv, NEW c \in Clients, DisturbRequest(c) \/ DisturbReply(c)
    PROVE  TypeInv'
<1>1. UNCHANGED <<up, pc, trys, buf, printed>>
  BY DEF DisturbRequest, DisturbReply
<1>2. IsTraffic(request[c]) /\ Whole(request[c]) /\ IsTraffic(reply[c])
  BY TypeIsTraffic DEF TypeInv
<1>3. CASE DisturbRequest(c)
  <2>1. PICK x \in Disturbances(request[c]) :
          Fault(x[2]) /\ request' = [request EXCEPT ![c] = x[1]] /\ UNCHANGED reply
    BY <1>3 DEF DisturbRequest
  <2>2. faults' \in [FaultKinds -> Nat]
    BY <2>1, DisturbanceKind, FaultCounts, TypeIsTraffic DEF TypeInv
  <2>3. IsTraffic(x[1]) /\ Whole(x[1])
    BY <1>2, TrafficIsDisturbed
  <2>4. DOMAIN request' = Clients
        /\ \A d \in Clients : request'[d] = IF d = c THEN x[1] ELSE request[d]
    BY <2>1 DEF TypeInv
  <2>5. \A d \in Clients : IsTraffic(request'[d]) /\ Whole(request'[d])
    BY <2>3, <2>4, TypeIsTraffic DEF TypeInv
  <2>6. TypeOK'
    BY <1>1, <2>1, <2>2, <2>5, TypeIsTraffic DEF TypeInv, TypeOK, IsTraffic
  <2>. QED  BY <1>1, <2>1, <2>4, <2>5, <2>6 DEF TypeInv
<1>4. CASE DisturbReply(c)
  <2>1. PICK x \in Disturbances(reply[c]) :
          Fault(x[2]) /\ reply' = [reply EXCEPT ![c] = x[1]] /\ UNCHANGED request
    BY <1>4 DEF DisturbReply
  <2>2. faults' \in [FaultKinds -> Nat]
    BY <2>1, DisturbanceKind, FaultCounts, TypeIsTraffic DEF TypeInv
  <2>3. IsTraffic(x[1])
    BY <1>2, TrafficIsDisturbed
  <2>4. DOMAIN reply' = Clients
        /\ \A d \in Clients : reply'[d] = IF d = c THEN x[1] ELSE reply[d]
    BY <2>1 DEF TypeInv
  <2>5. \A d \in Clients : IsTraffic(reply'[d])
    BY <2>3, <2>4, TypeIsTraffic DEF TypeInv
  <2>6. TypeOK'
    BY <1>1, <2>1, <2>2, <2>5, TypeIsTraffic DEF TypeInv, TypeOK, IsTraffic
  <2>. QED  BY <1>1, <2>1, <2>4, <2>6 DEF TypeInv
<1>. QED  BY <1>3, <1>4

\* Every variable keeps its type: what is on its way is bytes, whatever has
\* been done to it, the printing loop stays within the buffer, and no client
\* tries more often than it may (UDPClient.c 221, 226-240).
THEOREM TypesAreKept == Spec => []TypeOK
<1>1. TypeInv /\ [Next]_vars => TypeInv'
  <2>. SUFFICES ASSUME TypeInv, [Next]_vars PROVE TypeInv'
    OBVIOUS
  <2>1. ASSUME NEW c \in Clients, ClientStep(c)
        PROVE  TypeInv'
    BY <2>1, SendTypes, ReceiveTypes DEF ClientStep
  <2>2. CASE UNCHANGED vars
    BY <2>2 DEF TypeInv, TypeOK, Whole, vars
  <2>. QED  BY <2>1, <2>2, ServeTypes, DisturbTypes DEF Next
<1>2. TypeInv => TypeOK
  BY DEF TypeInv
<1>. QED  BY <1>1, <1>2, TypeInvInit, PTL DEF Spec

(***************************************************************************)
(* The tries.  What they are spent on are datagrams that do not verify,    *)
(* and every one of those, in as many copies as there are of it, was made  *)
(* by a fault.                                                             *)
(***************************************************************************)
\* The two forms of zero are alike to the checksum.
Alike(s, t) == s = t \/ (s = 0 /\ t = 255) \/ (s = 255 /\ t = 0)

LEMMA AlikeOrApart ==
    ASSUME NEW a, NEW b
    PROVE  Apart(a, b) \/ Alike(a, b)
<1>1. {a, b} = {0, 255} => Alike(a, b)
  <2>. SUFFICES ASSUME {a, b} = {0, 255} PROVE Alike(a, b)
    OBVIOUS
  <2>1. a \in {0, 255} /\ b \in {0, 255} /\ 0 \in {a, b} /\ 255 \in {a, b}
    OBVIOUS
  <2>. QED  BY <2>1 DEF Alike
<1>. QED  BY <1>1 DEF Apart, Alike

\* A flip is what the checksum cannot see.
LEMMA FlipIsAlike ==
    ASSUME NEW a, NEW b, Corruption(a, b) = "flip"
    PROVE  Alike(a, b) /\ a \in {0, 255}
<1>1. {a, b} = {0, 255}
  BY DEF Corruption
<1>2. a \in {0, 255} /\ b \in {0, 255} /\ 0 \in {a, b} /\ 255 \in {a, b}
  BY <1>1
<1>. QED  BY <1>2 DEF Alike

LEMMA SumsStayAlike ==
    ASSUME NEW s \in Byte, NEW t \in Byte, NEW a \in Byte, NEW b \in Byte,
           Alike(s, t), Alike(a, b)
    PROVE  /\ Alike(plus(s, a), plus(t, b))
           /\ t # 0 \/ b # 0 => plus(t, b) # 0
<1>. DEFINE p == plus(s, a)
            q == plus(t, b)
<1>1. /\ s \in Int /\ 0 <= s /\ s <= 255
      /\ t \in Int /\ 0 <= t /\ t <= 255
      /\ a \in Int /\ 0 <= a /\ a <= 255
      /\ b \in Int /\ 0 <= b /\ b <= 255
  BY ByteRange
<1>2. \/ s + a <= 255 /\ p = s + a
      \/ s + a > 255 /\ p = s + a - 255
  BY PlusByCases
<1>3. \/ t + b <= 255 /\ q = t + b
      \/ t + b > 255 /\ q = t + b - 255
  BY PlusByCases
<1>. HIDE DEF p, q
<1>4. Alike(p, q) /\ (t # 0 \/ b # 0 => q # 0)
  BY <1>1, <1>2, <1>3 DEF Alike
<1>. QED  BY <1>4 DEF p, q

\* A byte that turns from 0 into 255 or back does not change whether a
\* message verifies, as long as another of its bytes is not zero.
THEOREM FlipIsNotNoticed ==
    ASSUME NEW message \in Seq(Byte), Verifies(message),
           NEW i \in 1..Len(message), NEW b \in Byte, Alike(message[i], b),
           NEW j \in 1..Len(message), j # i, message[j] # 0
    PROVE  Verifies([message EXCEPT ![i] = b])
<1>. DEFINE N == Len(message)
            other == [message EXCEPT ![i] = b]
<1>0. N \in Nat /\ i \in 1..N /\ j \in 1..N
  OBVIOUS
<1>1. /\ other \in Seq(Byte) /\ Len(other) = N /\ other[i] = b
      /\ \A n \in 1..N : n # i => other[n] = message[n]
  BY ChangedMessage
<1>8. checkTheCheckSum[message] = 255
  BY DEF Verifies
<1>. HIDE DEF other
<1>2. PICK f : IsSum(f, message, N) /\ checkTheCheckSum[message] = f[N]
  BY Loop
<1>3. PICK g : IsSum(g, other, N) /\ checkTheCheckSum[other] = g[N]
  BY <1>1, Loop
<1>4. /\ f[0] = 0 /\ \A n \in 1..N : f[n] = plus(f[n - 1], message[n])
      /\ \A n \in 0..N : f[n] \in Byte
  BY <1>2, Rounds
<1>5. /\ g[0] = 0 /\ \A n \in 1..N : g[n] = plus(g[n - 1], other[n])
      /\ \A n \in 0..N : g[n] \in Byte
  BY <1>1, <1>3, Rounds
<1>6. \A n \in 1..N : /\ message[n] \in Byte /\ other[n] \in Byte
                      /\ Alike(message[n], other[n])
  BY <1>1, ElementOfSequence DEF Alike
<1>7. other[j] # 0
  BY <1>0, <1>1
<1>. HIDE DEF N
<1>. DEFINE S == {n \in 0..N : Alike(f[n], g[n]) /\ (j <= n => g[n] # 0)}
<1>9. 0 \in S
  BY <1>0, <1>4, <1>5 DEF Alike
<1>10. ASSUME NEW n \in 1..N, n - 1 \in S
       PROVE  n \in S
  <2>1. n \in 0..N /\ n - 1 \in 0..N /\ (j <= n => j <= n - 1 \/ j = n)
    BY <1>0
  <2>2. /\ f[n] = plus(f[n - 1], message[n]) /\ g[n] = plus(g[n - 1], other[n])
        /\ f[n - 1] \in Byte /\ g[n - 1] \in Byte
        /\ Alike(f[n - 1], g[n - 1]) /\ (j <= n - 1 => g[n - 1] # 0)
    BY <1>4, <1>5, <1>10, <2>1
  <2>3. /\ Alike(f[n], g[n])
        /\ g[n - 1] # 0 \/ other[n] # 0 => g[n] # 0
    BY <1>6, <2>2, SumsStayAlike
  <2>4. j <= n => g[n] # 0
    BY <1>7, <2>1, <2>2, <2>3
  <2>. QED  BY <2>1, <2>3, <2>4
<1>. HIDE DEF S
<1>11. 0..N \subseteq S
  BY <1>0, <1>9, <1>10, Induction
<1>12. Alike(f[N], g[N]) /\ g[N] # 0
  BY <1>0, <1>11 DEF S
<1>13. g[N] = 255
  BY <1>2, <1>8, <1>12 DEF Alike
<1>. QED  BY <1>3, <1>13 DEF Verifies, other

(***************************************************************************)
(* The copies of datagrams of some kind in a bag.                          *)
(***************************************************************************)
Copies(bag, kind) ==
    {p \in kind \X Nat : p[1] \in DOMAIN bag /\ 0 < p[2] /\ p[2] <= bag[p[1]]}

Number(bag, kind) == Cardinality(Copies(bag, kind))

InBag(bag, m) == IF m \in DOMAIN bag THEN bag[m] ELSE 0

LEMMA CopiesAre ==
    ASSUME NEW bag, IsABag(bag), NEW kind, NEW m, NEW i
    PROVE  /\ <<m, i>> \in Copies(bag, kind) <=>
                  m \in kind /\ i \in Nat /\ 0 < i /\ i <= InBag(bag, m)
           /\ InBag(bag, m) \in Nat
<1>1. InBag(bag, m) \in Nat
  BY DEF IsABag, InBag
<1>2. ASSUME i \in Nat
      PROVE  0 < i /\ i <= InBag(bag, m) <=> m \in DOMAIN bag /\ 0 < i /\ i <= bag[m]
  BY <1>2 DEF InBag
<1>3. <<m, i>> \in Copies(bag, kind) <=>
          m \in kind /\ i \in Nat /\ m \in DOMAIN bag /\ 0 < i /\ i <= bag[m]
  BY DEF Copies
<1>. QED  BY <1>1, <1>2, <1>3

LEMMA PutCounts ==
    ASSUME NEW bag, IsABag(bag), NEW m, NEW d
    PROVE  InBag(Put(bag, m), d) = IF d = m THEN InBag(bag, d) + 1 ELSE InBag(bag, d)
<1>1. Put(bag, m) = [e \in DOMAIN bag \cup {m} |->
                        (IF e \in DOMAIN bag THEN bag[e] ELSE 0) + (IF e \in {m} THEN 1 ELSE 0)]
  BY DEF Put, (+), SetToBag
<1>2. \A e \in DOMAIN bag : bag[e] \in Nat
  BY DEF IsABag
<1>. QED  BY <1>1, <1>2 DEF InBag

LEMMA TakeCounts ==
    ASSUME NEW bag, IsABag(bag), NEW m \in DOMAIN bag, NEW d
    PROVE  InBag(Take(bag, m), d) = IF d = m THEN InBag(bag, d) - 1 ELSE InBag(bag, d)
<1>. DEFINE rest == [e \in DOMAIN bag |-> IF e \in {m} THEN bag[e] - 1 ELSE bag[e]]
<1>1. \A e \in DOMAIN bag : bag[e] \in Nat /\ bag[e] > 0
  BY DEF IsABag
<1>2. Take(bag, m) = [e \in {x \in DOMAIN rest : rest[x] > 0} |-> rest[e]]
  BY DEF Take, (-), SetToBag
<1>3. /\ DOMAIN rest = DOMAIN bag
      /\ \A e \in DOMAIN bag : rest[e] = IF e = m THEN bag[e] - 1 ELSE bag[e]
  OBVIOUS
<1>. HIDE DEF rest
<1>4. \A e \in DOMAIN bag : rest[e] \in Nat
  BY <1>1, <1>3
<1>5. InBag(Take(bag, m), d) = IF d \in DOMAIN bag THEN rest[d] ELSE 0
  BY <1>2, <1>3, <1>4 DEF InBag
<1>. QED  BY <1>1, <1>3, <1>5 DEF InBag

\* How many there are after a datagram comes, and after one leaves.
LEMMA OneCopyMore ==
    ASSUME NEW bag, IsABag(bag), NEW m, NEW kind, IsFiniteSet(Copies(bag, kind))
    PROVE  /\ IsFiniteSet(Copies(Put(bag, m), kind))
           /\ Number(Put(bag, m), kind) =
                  IF m \in kind THEN Number(bag, kind) + 1 ELSE Number(bag, kind)
<1>. DEFINE C == Copies(bag, kind)
            D == Copies(Put(bag, m), kind)
            k == InBag(bag, m) + 1
<1>1. IsABag(Put(bag, m))
  BY PutIsBag
<1>2. /\ C \subseteq kind \X Nat /\ D \subseteq kind \X Nat
      /\ k \in Nat /\ k > 0 /\ ~(k <= InBag(bag, m))
  <2>1. InBag(bag, m) \in Nat
    BY CopiesAre
  <2>. QED  BY <2>1 DEF Copies
<1>3. ASSUME NEW e, NEW i
      PROVE  <<e, i>> \in D <=> <<e, i>> \in C \/ (m \in kind /\ e = m /\ i = k)
  <2>1. /\ <<e, i>> \in C <=> e \in kind /\ i \in Nat /\ 0 < i /\ i <= InBag(bag, e)
        /\ <<e, i>> \in D <=> e \in kind /\ i \in Nat /\ 0 < i /\ i <= InBag(Put(bag, m), e)
        /\ InBag(bag, e) \in Nat
    BY <1>1, CopiesAre
  <2>2. InBag(Put(bag, m), e) = IF e = m THEN InBag(bag, e) + 1 ELSE InBag(bag, e)
    BY PutCounts
  <2>. HIDE DEF C, D
  <2>. QED  BY <1>2, <2>1, <2>2
<1>4. <<m, k>> \notin C
  BY <1>2, CopiesAre
<1>. HIDE DEF C, D
<1>5. CASE m \in kind
  <2>1. D = C \cup {<<m, k>>}
    BY <1>2, <1>3, <1>5
  <2>2. IsFiniteSet(D) /\ Cardinality(D) = Cardinality(C) + 1
    <3>1. IsFiniteSet(C)
      BY DEF C
    <3>. QED  BY <1>4, <2>1, <3>1, FS_AddElement
  <2>. QED  BY <1>5, <2>2 DEF Number, C, D
<1>6. CASE m \notin kind
  <2>1. D = C
    BY <1>2, <1>3, <1>6
  <2>. QED  BY <1>6, <2>1 DEF Number, C, D
<1>. QED  BY <1>5, <1>6

LEMMA OneCopyLess ==
    ASSUME NEW bag, IsABag(bag), NEW m \in DOMAIN bag, NEW kind,
           IsFiniteSet(Copies(bag, kind))
    PROVE  /\ IsFiniteSet(Copies(Take(bag, m), kind))
           /\ Number(Take(bag, m), kind) =
                  IF m \in kind THEN Number(bag, kind) - 1 ELSE Number(bag, kind)
<1>. DEFINE C == Copies(bag, kind)
            D == Copies(Take(bag, m), kind)
            k == InBag(bag, m)
<1>1. IsABag(Take(bag, m))
  BY TakeIsBag
<1>2. /\ C \subseteq kind \X Nat /\ D \subseteq kind \X Nat
      /\ k \in Nat /\ k > 0
  BY DEF Copies, InBag, IsABag
<1>3. ASSUME NEW e, NEW i
      PROVE  <<e, i>> \in D <=> <<e, i>> \in C /\ ~(e = m /\ i = k)
  <2>1. /\ <<e, i>> \in C <=> e \in kind /\ i \in Nat /\ 0 < i /\ i <= InBag(bag, e)
        /\ <<e, i>> \in D <=> e \in kind /\ i \in Nat /\ 0 < i /\ i <= InBag(Take(bag, m), e)
        /\ InBag(bag, e) \in Nat
    BY <1>1, CopiesAre
  <2>2. InBag(Take(bag, m), e) = IF e = m THEN InBag(bag, e) - 1 ELSE InBag(bag, e)
    BY TakeCounts
  <2>. HIDE DEF C, D
  <2>. QED  BY <1>2, <2>1, <2>2
<1>4. m \in kind => <<m, k>> \in C
  BY <1>2, CopiesAre
<1>. HIDE DEF C, D
<1>5. CASE m \in kind
  <2>1. D = C \ {<<m, k>>}
    BY <1>2, <1>3
  <2>2. IsFiniteSet(D) /\ Cardinality(D) = Cardinality(C) - 1
    <3>1. IsFiniteSet(C)
      BY DEF C
    <3>. QED  BY <1>4, <1>5, <2>1, <3>1, FS_RemoveElement
  <2>. QED  BY <1>5, <2>2 DEF Number, C, D
<1>6. CASE m \notin kind
  <2>1. \A p \in C : p[1] # m
    BY <1>6 DEF C, Copies
  <2>2. D = C
    BY <1>2, <1>3, <2>1
  <2>. QED  BY <1>6, <2>2 DEF Number, C, D
<1>. QED  BY <1>5, <1>6

(***************************************************************************)
(* What a fault makes of a request and of a reply.                         *)
(***************************************************************************)
\* The bytes of names and delimiters.
Text == 1..127

LEMMA TextByte ==
    /\ \A b \in Text : b \in Byte /\ b \notin {0, 255}
    /\ 1..127 \ {delim} \subseteq Text /\ delim \in Text
BY DEF Text, Byte, delim

\* From the delimiter on, no byte of a request is 0 or 255.
LEMMA RequestIsText ==
    ASSUME NEW c \in Clients
    PROVE  \A j \in 6..Len(Request(c)) : Request(c)[j] \in Text
<1>. DEFINE names == [e \in 1..Len(Hosts[c]) |-> <<delim>> \o Hosts[c][e]]
            body == Tail(FlattenSeq(names))
            length == 6 + Len(body)
            head == <<(length \div 256) % 256, length % 256, 0, gid, reqID[c], delim>>
            message == head \o body
<1>1. Hosts[c] \in Seq(Names) /\ Len(Hosts[c]) \in Nat /\ Len(Hosts[c]) > 0
  BY RequestAssumption
<1>2. delim \in Text /\ delim \in Byte /\ Text \subseteq Byte
  BY TextByte
<1>3. names \in Seq(Seq(Text)) /\ Len(names) > 0 /\ Len(names[1]) > 0
  <2>1. \A e \in 1..Len(Hosts[c]) : Hosts[c][e] \in Seq(1..127 \ {delim})
    BY <1>1 DEF Names
  <2>2. \A e \in 1..Len(Hosts[c]) : Hosts[c][e] \in Seq(Text)
    BY <2>1, TextByte
  <2>6. <<delim>> \in Seq(Text) /\ Len(<<delim>>) = 1
    BY <1>2
  <2>3. \A e \in 1..Len(Hosts[c]) :
            names[e] \in Seq(Text) /\ Len(names[e]) = 1 + Len(Hosts[c][e])
    BY <2>2, <2>6, Concatenation
  <2>4. names \in Seq(Seq(Text)) /\ Len(names) = Len(Hosts[c])
    <3>1. names \in [1..Len(Hosts[c]) -> Seq(Text)]
      BY <2>3
    <3>. QED  BY <1>1, <3>1, FunctionIsSequence
  <2>5. Len(Hosts[c][1]) \in Nat
    BY <1>1, <2>2
  <2>. QED  BY <1>1, <2>3, <2>4, <2>5
<1>. HIDE DEF names
<1>4. body \in Seq(Text) /\ Len(body) \in Nat
  <2>1. PICK P : Layout(P, names, FlattenSeq(names), Text)
    BY <1>3, Flattened
  <2>2. FlattenSeq(names) \in Seq(Text) /\ Len(FlattenSeq(names)) > 0
    <3>1. 1 \in 1..Len(names) /\ 1 \in 1..Len(names[1])
      BY <1>3
    <3>2. P[1 - 1] + 1 \in 1..Len(FlattenSeq(names))
      BY <2>1, <3>1 DEF Layout
    <3>. QED  BY <2>1, <3>2 DEF Layout
  <2>. QED  BY <2>2, TailOfSequence
<1>. HIDE DEF body
<1>5. length \in Nat /\ (length \div 256) % 256 \in Byte /\ length % 256 \in Byte
  <2>1. length \in Nat
    BY <1>4
  <2>. QED  BY <2>1, TwoBytes
<1>6. gid \in Byte /\ reqID[c] \in Byte /\ 0 \in Byte
  BY RequestAssumption DEF Byte
<1>7. head \in Seq(Byte) /\ Len(head) = 6 /\ head[6] = delim
  BY <1>2, <1>5, <1>6
<1>b. body \in Seq(Byte)
  BY <1>2, <1>4
<1>10. Request(c) = Sealed(message)
  BY DEF Request, names, body
<1>. HIDE DEF head
<1>8. /\ message \in Seq(Byte) /\ Len(message) = 6 + Len(body)
      /\ \A i \in 1..6 : message[i] = head[i]
      /\ \A j \in 1..Len(body) : message[6 + j] = body[j]
  <2>1. /\ message \in Seq(Byte) /\ Len(message) = Len(head) + Len(body)
        /\ \A i \in 1..Len(head) : message[i] = head[i]
        /\ \A j \in 1..Len(body) : message[Len(head) + j] = body[j]
    <3>1. head \in Seq(Byte) /\ body \in Seq(Byte)
      BY <1>7, <1>b
    <3>. QED  BY <3>1, Concatenation
  <2>. QED  BY <1>7, <2>1
<1>. HIDE DEF message
<1>9. \A j \in 6..Len(message) : message[j] \in Text
  <2>. TAKE j \in 6..Len(message)
  <2>1. CASE j = 6
    BY <1>2, <1>7, <1>8, <2>1
  <2>2. CASE j # 6
    <3>1. PICK k \in 1..Len(body) : j = 6 + k
      BY <1>4, <1>8, <2>2
    <3>. QED  BY <1>4, <1>8, <3>1
  <2>. QED  BY <2>1, <2>2
<1>11. checkSum(message) \in Byte /\ 3 \in 1..Len(message)
  BY <1>4, <1>8, ComplementIsByte
<1>12. /\ Len(Request(c)) = Len(message)
       /\ \A j \in 1..Len(message) : j # 3 => Request(c)[j] = message[j]
  BY <1>8, <1>10, <1>11, ChangedMessage DEF Sealed
<1>. QED  BY <1>9, <1>12

\* A request that was not sent like this has one byte changed.
RequestOrChanged(c, m) ==
    \/ m.clean /\ m.bytes = Request(c)
    \/ /\ ~m.clean
       /\ \E i \in 1..Len(Request(c)), b \in Byte :
             b # Request(c)[i] /\ m.bytes = [Request(c) EXCEPT ![i] = b]

LEMMA FittingRequest ==
    ASSUME NEW c \in Clients, Fits(c)
    PROVE  /\ Request(c) \in Seq(Byte) /\ Len(Request(c)) \in Nat
           /\ 6 <= Len(Request(c)) /\ Len(Request(c)) <= BUFSIZE
           /\ Verifies(Request(c))
           /\ lengthOfPacket(Request(c)) = Len(Request(c))
           /\ listOfHosts(Request(c)) = Hosts[c]
<1>1. Len(Request(c)) <= BUFSIZE /\ Len(Request(c)) \in Nat
  BY RequestIsRight DEF Fits
<1>2. Short(Len(Request(c)))
  BY <1>1, Sizes
<1>. QED  BY <1>1, <1>2, RequestIsRight

\* Behind its fifth byte, a request that the server answers is as it was
\* sent: a byte that changed between 0 and 255 is the group, the request ID
\* or the checksum, as a change of the length ends the server.
LEMMA AnsweredRequest ==
    ASSUME NEW c \in Clients, Fits(c), NEW m, RequestOrChanged(c, m),
           Verifies(m.bytes), ~Mismatch(m.bytes)
    PROVE  /\ listOfHosts(m.bytes) = Hosts[c]
           /\ m.bytes[4] \in Byte /\ m.bytes[5] \in Byte
<1>. DEFINE r == Request(c)
            N == Len(r)
<1>1. /\ r \in Seq(Byte) /\ N \in Nat /\ 6 <= N
      /\ Verifies(r) /\ lengthOfPacket(r) = N /\ listOfHosts(r) = Hosts[c]
      /\ \A j \in 6..N : r[j] \in Text
      /\ \A j \in 1..N : r[j] \in Byte
  BY FittingRequest, RequestIsText, ElementOfSequence
<1>2. CASE m.bytes = r
  <2>1. 4 \in 1..N /\ 5 \in 1..N
    BY <1>1
  <2>. QED  BY <1>1, <1>2, <2>1
<1>3. ASSUME NEW i \in 1..N, NEW b \in Byte, b # r[i], m.bytes = [r EXCEPT ![i] = b]
      PROVE  /\ listOfHosts(m.bytes) = Hosts[c]
             /\ m.bytes[4] \in Byte /\ m.bytes[5] \in Byte
  <2>. DEFINE data == m.bytes
  <2>1. /\ data \in Seq(Byte) /\ Len(data) = N /\ data[i] = b
        /\ \A n \in 1..N : n # i => data[n] = r[n]
    BY <1>1, <1>3, ChangedMessage
  <2>2. Alike(r[i], b)
    <3>1. ~Apart(r[i], b)
      <4>1. Verifies([r EXCEPT ![i] = b])
        BY <1>3
      <4>2. r \in Seq(Byte) /\ Verifies(r) /\ i \in 1..Len(r)
        BY <1>1, <1>3
      <4>. HIDE DEF r
      <4>. QED  BY <4>1, <4>2, <1>3, OneChangedByteIsNoticed
    <3>. QED  BY <3>1, AlikeOrApart
  <2>3. i < 6
    <3>1. r[i] \in {0, 255}
      BY <1>3, <2>2 DEF Alike
    <3>2. i \notin 6..N
      BY <1>1, <3>1, TextByte
    <3>. QED  BY <1>1, <3>2
  <2>4. lengthOfPacket(data) = N
    BY <2>1 DEF Mismatch
  <2>. HIDE DEF data, r, N
  <2>5. i # 1 /\ i # 2
    <3>1. data[1] * 256 + data[2] = r[1] * 256 + r[2]
      BY <1>1, <2>4 DEF lengthOfPacket
    <3>2. /\ 1 \in 1..N /\ 2 \in 1..N
          /\ r[1] \in Byte /\ r[2] \in Byte
      BY <1>1
    <3>3. r[1] \in Int /\ r[2] \in Int
      BY <3>2, ByteRange
    <3>4. CASE i = 1
      <4>1. data[2] = r[2] /\ data[1] = b
        BY <2>1, <3>2, <3>4
      <4>. QED  BY <1>3, <2>2, <3>1, <3>3, <3>4, <4>1 DEF Alike
    <3>5. CASE i = 2
      <4>1. data[1] = r[1] /\ data[2] = b
        BY <2>1, <3>2, <3>5
      <4>. QED  BY <1>3, <2>2, <3>1, <3>3, <3>5, <4>1 DEF Alike
    <3>. QED  BY <3>4, <3>5
  <2>6. /\ data[6] = r[6]
        /\ data[4] \in Byte /\ data[5] \in Byte
        /\ \A n \in 7..N : data[n] = r[n]
    <3>1. 4 \in 1..N /\ 5 \in 1..N /\ 6 \in 1..N /\ \A n \in 7..N : n \in 1..N /\ n # i
      BY <1>1, <2>3
    <3>. QED  BY <2>1, <2>3, <3>1, ElementOfSequence
  <2>7. SubSeq(data, 7, N) = SubSeq(r, 7, N)
    <3>1. PICK k \in Nat : N = 7 + k - 1
      BY <1>1
    <3>2. 7 \in Nat \ {0} /\ 7 + k - 1 <= N /\ 7 - 1 = 6
      BY <3>1
    <3>3. /\ SubSeq(r, 7, N) \in Seq(Byte) /\ Len(SubSeq(r, 7, N)) = k
          /\ \A j \in 1..k : SubSeq(r, 7, N)[j] = r[7 - 1 + j]
      BY <1>1, <3>1, <3>2, PartOfSequence DEF N
    <3>4. /\ SubSeq(data, 7, N) \in Seq(Byte) /\ Len(SubSeq(data, 7, N)) = k
          /\ \A j \in 1..k : SubSeq(data, 7, N)[j] = data[7 - 1 + j]
      BY <2>1, <3>1, <3>2, PartOfSequence
    <3>5. \A j \in 1..k : 7 - 1 + j \in 7..N
      BY <3>1
    <3>6. \A j \in 1..k : SubSeq(data, 7, N)[j] = SubSeq(r, 7, N)[j]
      BY <2>6, <3>3, <3>4, <3>5
    <3>. QED  BY <3>3, <3>4, <3>6, SameSequence
  <2>8. listOfHosts(data) = listOfHosts(r)
    BY <1>1, <2>4, <2>6, <2>7 DEF listOfHosts
  <2>. QED  BY <1>1, <2>6, <2>8 DEF data
<1>. QED  BY <1>2, <1>3 DEF RequestOrChanged

\* A request that has met a flip verifies as before.
LEMMA FlippedRequest ==
    ASSUME NEW c \in Clients, Fits(c), NEW m, m.bytes = Request(c),
           NEW y \in Corruptions(m), y[2] = "flip"
    PROVE  Verifies(y[1].bytes)
<1>1. PICK i \in 1..Len(m.bytes), b \in Noise :
        /\ b # m.bytes[i]
        /\ y[1] = Corrupted(m, i, b)
        /\ y[2] = Corruption(m.bytes[i], b)
  BY CorruptionsByCases
<1>2. Alike(m.bytes[i], b) /\ m.bytes[i] \in {0, 255} /\ b \in Byte
  BY <1>1, FlipIsAlike, Sizes
<1>3. /\ m.bytes \in Seq(Byte) /\ Verifies(m.bytes) /\ 6 \in 1..Len(m.bytes)
      /\ m.bytes[6] \in Text
  <2>1. 6 \in 6..Len(Request(c)) /\ 6 \in 1..Len(Request(c))
    BY FittingRequest
  <2>. QED  BY <2>1, FittingRequest, RequestIsText
<1>4. 6 # i /\ m.bytes[6] # 0
  BY <1>2, <1>3, TextByte
<1>5. Verifies([m.bytes EXCEPT ![i] = b])
  BY <1>2, <1>3, <1>4, FlipIsNotNoticed
<1>. QED  BY <1>1, <1>5 DEF Corrupted

\* A reply that the client accepts and prints.
GoodReply(c, m) == Verifies(m.bytes) /\ Len(m.bytes) = 5 + 4 * Len(Hosts[c])

\* Replies have one of two lengths; in the lower byte of the longer one the
\* network finds neither 0 nor 255.
ErrorOrAnswer(c, m) ==
    /\ m.bytes \in Seq(Byte)
    /\ Len(m.bytes) = 7 \/ Len(m.bytes) = 5 + 4 * Len(Hosts[c])
    /\ m.clean /\ GoodReply(c, m) => m.bytes[2] \notin {0, 255}

LEMMA LengthOfAnswer ==
    \A n \in Nat : (5 + 4 * n) % 256 \notin {0, 255}
<1>. TAKE n \in Nat
<1>1. PICK x \in Nat : x = 5 + 4 * n
  OBVIOUS
<1>2. x % 256 \in Int /\ x \div 256 \in Int /\ x = 256 * (x \div 256) + (x % 256)
  OBVIOUS
<1>3. PICK q \in Int, r \in Int : q = x \div 256 /\ r = x % 256
  BY <1>2
<1>4. 5 + 4 * n = 256 * q + r
  BY <1>1, <1>2, <1>3
<1>5. r # 0 /\ r # 255
  BY <1>4
<1>. QED  BY <1>1, <1>3, <1>5

\* The server's answer to a request that verifies is accepted.
LEMMA AnswerIsGood ==
    ASSUME NEW c \in Clients, Fits(c), NEW m, RequestOrChanged(c, m),
           Verifies(m.bytes), ~Mismatch(m.bytes),
           NEW ips \in Resolutions(listOfHosts(m.bytes))
    PROVE  /\ ErrorOrAnswer(c, Datagram(answerMessage(m.bytes, ips)))
           /\ GoodReply(c, Datagram(answerMessage(m.bytes, ips)))
<1>. DEFINE a == answerMessage(m.bytes, ips)
<1>1. PICK n \in Nat : Len(Hosts[c]) = n /\ n > 0 /\ 5 + 8 * n <= BUFSIZE
  BY HostCount
<1>2. Short(5 + 4 * n) /\ 5 + 4 * n <= BUFSIZE
  <2>1. BUFSIZE \in Nat /\ n <= BUFSIZE + 1
    BY <1>1, Sizes
  <2>. QED  BY <1>1, <2>1, Sizes
<1>3. /\ listOfHosts(m.bytes) = Hosts[c]
      /\ m.bytes[4] \in Byte /\ m.bytes[5] \in Byte
  BY AnsweredRequest
<1>4. /\ a \in Seq(Byte) /\ Len(a) = 5 + 4 * n /\ Verifies(a)
      /\ a[2] = (5 + 4 * n) % 256
  BY <1>1, <1>2, <1>3, AnswerIsRight
<1>. HIDE DEF a
<1>5. Datagram(a) = [bytes |-> a, clean |-> TRUE]
  BY <1>2, <1>4, WholeDatagram
<1>6. Datagram(a).bytes = a
  BY <1>5
<1>7. a[2] \notin {0, 255}
  BY <1>4, LengthOfAnswer
<1>8. GoodReply(c, Datagram(a))
  BY <1>1, <1>4, <1>6 DEF GoodReply
<1>9. ErrorOrAnswer(c, Datagram(a))
  BY <1>1, <1>4, <1>6, <1>7 DEF ErrorOrAnswer
<1>. QED  BY <1>8, <1>9 DEF a

LEMMA ErrorIsReply ==
    ASSUME NEW c \in Clients, NEW m \in Datagrams, 6 <= Len(m.bytes)
    PROVE  ErrorOrAnswer(c, Datagram(errorMessage(m.bytes)))
<1>. DEFINE data == m.bytes
            e == errorMessage(data)
<1>1. data \in Seq(Byte) /\ Len(data) \in Nat /\ 6 <= Len(data)
  BY DEF Datagrams
<1>. HIDE DEF data
<1>2. data[4] \in Byte /\ data[5] \in Byte
  <2>1. 4 \in 1..Len(data) /\ 5 \in 1..Len(data)
    BY <1>1
  <2>. QED  BY <1>1, <2>1, ElementOfSequence
<1>3. checkTheCheckSum[data] \in Byte
  BY <1>1, ChecksumIsByte, Zenon
<1>4. e \in Seq(Byte) /\ Len(e) = 7
  <2>1. 0 \in Byte /\ 7 \in Byte
    BY ByteRange
  <2>. QED  BY <1>2, <1>3, <2>1 DEF errorMessage
<1>. HIDE DEF e
<1>5. Datagram(e) = [bytes |-> e, clean |-> TRUE]
  <2>1. Len(e) <= BUFSIZE
    BY <1>4, ClientSizes
  <2>. QED  BY <1>4, <2>1, WholeDatagram
<1>6. Datagram(e).bytes = e
  BY <1>5
<1>7. ~GoodReply(c, Datagram(e))
  <2>1. 7 # 5 + 4 * Len(Hosts[c])
    BY ClientSizes
  <2>. QED  BY <1>4, <1>6, <2>1 DEF GoodReply
<1>8. ErrorOrAnswer(c, Datagram(e))
  BY <1>4, <1>6, <1>7 DEF ErrorOrAnswer
<1>. QED  BY <1>8 DEF e, data

\* What corruption makes of a reply; a flip leaves a good one good.
LEMMA CorruptedReply ==
    ASSUME NEW c \in Clients, NEW m, ErrorOrAnswer(c, m), m.clean,
           NEW y \in Corruptions(m)
    PROVE  /\ ErrorOrAnswer(c, y[1])
           /\ GoodReply(c, m) /\ y[2] = "flip" => GoodReply(c, y[1])
<1>1. PICK i \in 1..Len(m.bytes), b \in Noise :
        /\ b # m.bytes[i]
        /\ y[1] = Corrupted(m, i, b)
        /\ y[2] = Corruption(m.bytes[i], b)
  BY CorruptionsByCases
<1>. DEFINE a == m.bytes
            d == [a EXCEPT ![i] = b]
<1>2. y[1].bytes = d /\ ~y[1].clean
  BY <1>1 DEF Corrupted
<1>3. a \in Seq(Byte) /\ b \in Byte
  BY Sizes DEF ErrorOrAnswer
<1>4. d \in Seq(Byte) /\ Len(d) = Len(a)
  BY <1>3, ChangedMessage
<1>5. ErrorOrAnswer(c, y[1])
  <2>. HIDE DEF d
  <2>. QED  BY <1>2, <1>4 DEF ErrorOrAnswer
<1>6. ASSUME GoodReply(c, m), y[2] = "flip"
      PROVE  GoodReply(c, y[1])
  <2>1. Alike(a[i], b) /\ a[i] \in {0, 255}
    BY <1>1, <1>6, FlipIsAlike, ZenonT(30)
  <2>2. a[2] \notin {0, 255}
    BY <1>6 DEF ErrorOrAnswer
  <2>3. 2 \in 1..Len(a)
    BY <1>6, ClientSizes DEF GoodReply
  <2>4. Verifies(a) /\ i \in 1..Len(a)
    BY <1>6 DEF GoodReply
  <2>5. 2 # i /\ a[2] # 0
    BY <2>1, <2>2
  <2>. HIDE DEF a
  <2>6. Verifies(d)
    BY <1>3, <2>1, <2>3, <2>4, <2>5, FlipIsNotNoticed
  <2>. HIDE DEF d
  <2>7. Len(d) = 5 + 4 * Len(Hosts[c])
    BY <1>4, <1>6 DEF GoodReply, a
  <2>. QED  BY <1>2, <2>6, <2>7 DEF GoodReply
<1>. QED  BY <1>5, <1>6

(***************************************************************************)
(* Tries and faults add up.                                                *)
(***************************************************************************)
BadRequests == {m \in Datagrams : ~Verifies(m.bytes)}

BadReplies(c) == {m \in Datagrams : ~GoodReply(c, m)}

\* The faults that a client may have to pay for.
Damage(f) == f["corrupt"] + f["duplicate"]

Costs(k) == IF k \in {"corrupt", "duplicate"} THEN 1 ELSE 0

\* The tries so far, and those that what is on its way may cost.
Paid(c, requests, replies, t, f) ==
    /\ IsFiniteSet(Copies(requests, BadRequests))
    /\ IsFiniteSet(Copies(replies, BadReplies(c)))
    /\ t + Number(requests, BadRequests) + Number(replies, BadReplies(c)) <= Damage(f)

ClientTries(c) ==
    /\ \A m \in DOMAIN request[c] : RequestOrChanged(c, m)
    /\ \A m \in DOMAIN reply[c] : ErrorOrAnswer(c, m)
    /\ Unwritten(c, buf[c])
    /\ Paid(c, request[c], reply[c], trys[c], faults)
    /\ pc[c] = "failed" => trys[c] >= Tries

TriesInv == TypeInv /\ \A c \in Clients : Fits(c) => ClientTries(c)

LEMMA CountsAreNumbers ==
    ASSUME NEW bag, NEW kind, IsFiniteSet(Copies(bag, kind))
    PROVE  Number(bag, kind) \in Nat
BY FS_CardinalityType DEF Number

\* One fault makes at most one bad copy more, and none if it is a loss or a
\* flip that what was good survives.
LEMMA DisturbedCount ==
    ASSUME NEW bag, IsABag(bag), NEW kind, IsFiniteSet(Copies(bag, kind)),
           NEW x \in Disturbances(bag),
           \A m \in DOMAIN bag : \A y \in Corruptions(m) :
               m.clean /\ y[2] = "flip" /\ m \notin kind => y[1] \notin kind
    PROVE  /\ IsFiniteSet(Copies(x[1], kind))
           /\ Number(x[1], kind) <= Number(bag, kind) + Costs(x[2])
<1>0. Number(bag, kind) \in Nat
  BY CountsAreNumbers
<1>1. PICK m \in DOMAIN bag :
        \/ x = <<Take(bag, m), "loss">>
        \/ x = <<Put(bag, m), "duplicate">>
        \/ m.clean /\ \E y \in Corruptions(m) : x = <<Put(Take(bag, m), y[1]), y[2]>>
  BY Zenon DEF Disturbances
<1>2. CASE x = <<Take(bag, m), "loss">>
  <2>1. x[1] = Take(bag, m) /\ Costs(x[2]) = 0
    BY <1>2 DEF Costs
  <2>2. /\ IsFiniteSet(Copies(x[1], kind))
        /\ Number(x[1], kind) = IF m \in kind THEN Number(bag, kind) - 1 ELSE Number(bag, kind)
    BY <2>1, OneCopyLess
  <2>. QED  BY <1>0, <2>1, <2>2
<1>3. CASE x = <<Put(bag, m), "duplicate">>
  <2>1. x[1] = Put(bag, m) /\ Costs(x[2]) = 1
    BY <1>3 DEF Costs
  <2>2. /\ IsFiniteSet(Copies(x[1], kind))
        /\ Number(x[1], kind) = IF m \in kind THEN Number(bag, kind) + 1 ELSE Number(bag, kind)
    BY <2>1, OneCopyMore
  <2>. QED  BY <1>0, <2>1, <2>2
<1>4. ASSUME m.clean, NEW y \in Corruptions(m), x = <<Put(Take(bag, m), y[1]), y[2]>>
      PROVE  /\ IsFiniteSet(Copies(x[1], kind))
             /\ Number(x[1], kind) <= Number(bag, kind) + Costs(x[2])
  <2>. DEFINE rest == Take(bag, m)
  <2>1. x[1] = Put(rest, y[1]) /\ x[2] = y[2]
    BY <1>4
  <2>2. /\ IsABag(rest) /\ IsFiniteSet(Copies(rest, kind))
        /\ Number(rest, kind) = IF m \in kind THEN Number(bag, kind) - 1 ELSE Number(bag, kind)
    BY TakeIsBag, OneCopyLess
  <2>. HIDE DEF rest
  <2>3. /\ IsFiniteSet(Copies(x[1], kind))
        /\ Number(x[1], kind) = IF y[1] \in kind THEN Number(rest, kind) + 1 ELSE Number(rest, kind)
    BY <2>1, <2>2, OneCopyMore
  <2>4. \/ y[2] = "corrupt" /\ Costs(x[2]) = 1
        \/ y[2] = "flip" /\ Costs(x[2]) = 0
    <3>1. PICK i \in 1..Len(m.bytes), b \in Noise : y[2] = Corruption(m.bytes[i], b)
      BY CorruptionsByCases
    <3>2. y[2] \in {"flip", "corrupt"}
      BY <3>1, CorruptionKind
    <3>3. Costs("corrupt") = 1 /\ Costs("flip") = 0
      BY DEF Costs
    <3>. QED  BY <2>1, <3>2, <3>3
  <2>5. y[2] = "flip" => m \in kind \/ y[1] \notin kind
    BY <1>4
  <2>. QED  BY <1>0, <2>2, <2>3, <2>4, <2>5
<1>. QED  BY <1>1, <1>2, <1>3, <1>4

LEMMA DamageGrows ==
    ASSUME faults \in [FaultKinds -> Nat], NEW k \in FaultKinds, Fault(k)
    PROVE  /\ Damage(faults) \in Nat /\ Damage(faults') \in Nat
           /\ Damage(faults') = Damage(faults) + Costs(k)
<1>1. /\ "corrupt" \in FaultKinds /\ "duplicate" \in FaultKinds
      /\ faults' = [faults EXCEPT ![k] = faults[k] + 1]
  BY DEF Fault, FaultKinds
<1>2. /\ faults["corrupt"] \in Nat /\ faults["duplicate"] \in Nat
      /\ faults'["corrupt"] = IF k = "corrupt" THEN faults["corrupt"] + 1 ELSE faults["corrupt"]
      /\ faults'["duplicate"] = IF k = "duplicate" THEN faults["duplicate"] + 1 ELSE faults["duplicate"]
  BY <1>1
<1>3. Costs(k) = IF k = "corrupt" \/ k = "duplicate" THEN 1 ELSE 0
  BY DEF Costs
<1>4. "corrupt" # "duplicate"
  OBVIOUS
<1>. QED  BY <1>2, <1>3, <1>4 DEF Damage

\* More faults cost a client nothing.
LEMMA DamageIsNoCost ==
    ASSUME NEW c, NEW q, NEW r, NEW t \in Nat, NEW f, NEW g, Paid(c, q, r, t, f),
           Damage(f) \in Nat, Damage(g) \in Nat, Damage(f) <= Damage(g)
    PROVE  Paid(c, q, r, t, g)
<1>1. /\ Number(q, BadRequests) \in Nat /\ Number(r, BadReplies(c)) \in Nat
      /\ t + Number(q, BadRequests) + Number(r, BadReplies(c)) <= Damage(f)
  BY CountsAreNumbers DEF Paid
<1>2. t + Number(q, BadRequests) + Number(r, BadReplies(c)) <= Damage(g)
  BY <1>1
<1>. QED  BY <1>2 DEF Paid

LEMMA Bystander ==
    ASSUME NEW d, ClientTries(d), trys[d] \in Nat,
           request'[d] = request[d], reply'[d] = reply[d], buf'[d] = buf[d],
           pc'[d] = pc[d], trys'[d] = trys[d],
           Damage(faults) \in Nat, Damage(faults') \in Nat,
           Damage(faults) <= Damage(faults')
    PROVE  ClientTries(d)'
<1>1. Paid(d, request[d], reply[d], trys[d], faults')
  BY DamageIsNoCost DEF ClientTries
<1>. QED  BY <1>1 DEF ClientTries

LEMMA TriesTypes ==
    ASSUME TypeInv, NEW c \in Clients
    PROVE  /\ DOMAIN request = Clients /\ DOMAIN reply = Clients
           /\ DOMAIN buf = Clients /\ DOMAIN pc = Clients /\ DOMAIN trys = Clients
           /\ IsABag(request[c]) /\ DOMAIN request[c] \subseteq Datagrams
           /\ IsABag(reply[c]) /\ DOMAIN reply[c] \subseteq Datagrams
           /\ \A m \in DOMAIN request[c] : 6 <= Len(m.bytes)
           /\ trys[c] \in Nat
           /\ faults \in [FaultKinds -> Nat] /\ Damage(faults) \in Nat
<1>1. /\ trys \in [Clients -> 0..Tries] /\ Tries \in Nat
      /\ faults \in [FaultKinds -> Nat]
  BY Sizes DEF TypeInv, TypeOK
<1>2. "corrupt" \in FaultKinds /\ "duplicate" \in FaultKinds
  BY DEF FaultKinds
<1>3. trys[c] \in Nat /\ Damage(faults) \in Nat
  BY <1>1, <1>2 DEF Damage
<1>. QED  BY <1>1, <1>3 DEF TypeInv, TypeOK, Whole

\* A step of c or of its datagrams is no step of the others.
LEMMA OthersKeepTries ==
    ASSUME TriesInv, TypeInv', NEW c \in Clients,
           \A d \in Clients : d # c =>
               /\ request'[d] = request[d] /\ reply'[d] = reply[d] /\ buf'[d] = buf[d]
               /\ pc'[d] = pc[d] /\ trys'[d] = trys[d],
           Damage(faults) <= Damage(faults'),
           Fits(c) => ClientTries(c)'
    PROVE  TriesInv'
<1>1. Damage(faults) \in Nat /\ Damage(faults') \in Nat
  <2>1. /\ "corrupt" \in FaultKinds /\ "duplicate" \in FaultKinds
        /\ faults \in [FaultKinds -> Nat] /\ faults' \in [FaultKinds -> Nat]
    BY DEF FaultKinds, TriesInv, TypeInv, TypeOK
  <2>. QED  BY <2>1 DEF Damage
<1>2. ASSUME NEW d \in Clients, d # c, Fits(d)
      PROVE  ClientTries(d)'
  <2>1. ClientTries(d) /\ trys[d] \in Nat
    BY <1>2, TriesTypes DEF TriesInv
  <2>. QED  BY <1>1, <1>2, <2>1, Bystander
<1>3. \A d \in Clients : Fits(d) => ClientTries(d)'
  BY <1>2
<1>. QED  BY <1>3 DEF TriesInv, Fits

LEMMA TriesInit == Init => TriesInv
<1>. SUFFICES ASSUME Init PROVE TriesInv
  OBVIOUS
<1>1. TypeInv
  BY TypeInvInit
<1>2. ASSUME NEW c \in Clients
      PROVE  ClientTries(c)
  <2>1. /\ request[c] = EmptyBag /\ reply[c] = EmptyBag /\ trys[c] = 0
        /\ pc[c] = "send" /\ Damage(faults) = 0
    BY DEF Init, Damage, FaultKinds
  <2>2. DOMAIN EmptyBag = {}
    BY DEF EmptyBag, SetToBag
  <2>3. ASSUME NEW kind
        PROVE  IsFiniteSet(Copies(EmptyBag, kind)) /\ Number(EmptyBag, kind) = 0
    <3>1. Copies(EmptyBag, kind) = {}
      BY <2>2 DEF Copies
    <3>. QED  BY <3>1, FS_EmptySet DEF Number
  <2>4. Paid(c, request[c], reply[c], trys[c], faults)
    BY <2>1, <2>3 DEF Paid
  <2>5. Unwritten(c, buf[c])
    <3>1. buf[c] = [i \in 1..BUFSIZE |-> 0] /\ 0 \in Byte
      BY ByteRange DEF Init
    <3>. QED  BY <3>1 DEF Unwritten
  <2>. QED  BY <2>1, <2>2, <2>4, <2>5 DEF ClientTries
<1>. QED  BY <1>1, <1>2 DEF TriesInv

LEMMA ServeTries ==
    ASSUME TriesInv, NEW c \in Clients, Serve(c)
    PROVE  TriesInv'
<1>1. PICK m \in DOMAIN request[c] :
        Crash(c, m) \/ AnswerRequest(c, m) \/ RejectRequest(c, m)
  BY DEF Serve
<1>2. /\ request' = [request EXCEPT ![c] = Take(request[c], m)]
      /\ UNCHANGED <<pc, trys, faults, buf, printed>>
  BY <1>1 DEF Crash, AnswerRequest, RejectRequest
<1>3. TypeInv'
  BY ServeTypes DEF TriesInv
<1>4. /\ DOMAIN request = Clients /\ DOMAIN reply = Clients
      /\ IsABag(request[c]) /\ DOMAIN request[c] \subseteq Datagrams
      /\ IsABag(reply[c]) /\ m \in Datagrams /\ 6 <= Len(m.bytes)
      /\ trys[c] \in Nat /\ Damage(faults) \in Nat
  BY TriesTypes DEF TriesInv
<1>5. \/ Verifies(m.bytes) /\ reply' = reply
      \/ Verifies(m.bytes) /\ \E r : /\ Fits(c) => ErrorOrAnswer(c, r) /\ GoodReply(c, r)
                                     /\ reply' = [reply EXCEPT ![c] = Put(reply[c], r)]
      \/ ~Verifies(m.bytes) /\ \E r : /\ Fits(c) => ErrorOrAnswer(c, r)
                                      /\ reply' = [reply EXCEPT ![c] = Put(reply[c], r)]
  <2>1. CASE Crash(c, m)
    BY <2>1 DEF Crash, Mismatch
  <2>2. CASE AnswerRequest(c, m)
    <3>1. PICK ips \in Resolutions(listOfHosts(m.bytes)) :
            reply' = [reply EXCEPT ![c] = Put(reply[c], Datagram(answerMessage(m.bytes, ips)))]
      BY <2>2 DEF AnswerRequest
    <3>2. Verifies(m.bytes) /\ ~Mismatch(m.bytes)
      BY <2>2 DEF AnswerRequest
    <3>3. ASSUME Fits(c)
          PROVE  /\ ErrorOrAnswer(c, Datagram(answerMessage(m.bytes, ips)))
                 /\ GoodReply(c, Datagram(answerMessage(m.bytes, ips)))
      <4>1. RequestOrChanged(c, m)
        BY <3>3 DEF TriesInv, ClientTries
      <4>. QED  BY <3>2, <3>3, <4>1, AnswerIsGood
    <3>. QED  BY <3>1, <3>2, <3>3
  <2>3. CASE RejectRequest(c, m)
    <3>1. /\ ~Verifies(m.bytes)
          /\ reply' = [reply EXCEPT ![c] = Put(reply[c], Datagram(errorMessage(m.bytes)))]
      BY <2>3 DEF RejectRequest
    <3>2. ErrorOrAnswer(c, Datagram(errorMessage(m.bytes)))
      BY <1>4, ErrorIsReply
    <3>. QED  BY <3>1, <3>2
  <2>. QED  BY <1>1, <2>1, <2>2, <2>3
<1>6. \A d \in Clients : d # c => request'[d] = request[d] /\ reply'[d] = reply[d]
  <2>1. reply' = reply \/ \E r : reply' = [reply EXCEPT ![c] = r]
    BY <1>5
  <2>2. \A d \in Clients : d # c => reply'[d] = reply[d]
    BY <1>4, <2>1
  <2>. QED  BY <1>2, <1>4, <2>2
<1>7. ASSUME Fits(c)
      PROVE  ClientTries(c)'
  <2>1. /\ \A q \in DOMAIN request[c] : RequestOrChanged(c, q)
        /\ \A q \in DOMAIN reply[c] : ErrorOrAnswer(c, q)
        /\ Unwritten(c, buf[c])
        /\ Paid(c, request[c], reply[c], trys[c], faults)
        /\ pc[c] = "failed" => trys[c] >= Tries
    BY <1>7 DEF TriesInv, ClientTries
  <2>2. request'[c] = Take(request[c], m) /\ DOMAIN request'[c] \subseteq DOMAIN request[c]
    BY <1>2, <1>4, TakeLeaves
  <2>. DEFINE n == Number(request[c], BadRequests)
              k == Number(reply[c], BadReplies(c))
  <2>3. /\ IsFiniteSet(Copies(request[c], BadRequests))
        /\ IsFiniteSet(Copies(reply[c], BadReplies(c)))
        /\ n \in Nat /\ k \in Nat /\ trys[c] + n + k <= Damage(faults)
    BY <2>1, CountsAreNumbers DEF Paid
  <2>4. /\ IsFiniteSet(Copies(request'[c], BadRequests))
        /\ Number(request'[c], BadRequests) = IF Verifies(m.bytes) THEN n ELSE n - 1
    <3>1. m \in BadRequests <=> ~Verifies(m.bytes)
      BY <1>4 DEF BadRequests
    <3>. QED  BY <1>4, <2>2, <2>3, <3>1, OneCopyLess
  <2>5. /\ \A q \in DOMAIN reply'[c] : ErrorOrAnswer(c, q)
        /\ IsFiniteSet(Copies(reply'[c], BadReplies(c)))
        /\ Number(reply'[c], BadReplies(c)) \in Nat
        /\ Number(reply'[c], BadReplies(c)) <= IF Verifies(m.bytes) THEN k ELSE k + 1
    <3>1. CASE Verifies(m.bytes) /\ reply' = reply
      BY <2>1, <2>3, <3>1
    <3>2. ASSUME NEW r, reply' = [reply EXCEPT ![c] = Put(reply[c], r)],
                 ErrorOrAnswer(c, r), Verifies(m.bytes) => GoodReply(c, r)
          PROVE  /\ \A q \in DOMAIN reply'[c] : ErrorOrAnswer(c, q)
                 /\ IsFiniteSet(Copies(reply'[c], BadReplies(c)))
                 /\ Number(reply'[c], BadReplies(c)) \in Nat
                 /\ Number(reply'[c], BadReplies(c)) <= IF Verifies(m.bytes) THEN k ELSE k + 1
      <4>1. reply'[c] = Put(reply[c], r)
        BY <1>4, <3>2
      <4>2. DOMAIN reply'[c] = DOMAIN reply[c] \cup {r}
        BY <4>1, PutAdds
      <4>3. Verifies(m.bytes) => r \notin BadReplies(c)
        BY <3>2 DEF BadReplies
      <4>4. /\ IsFiniteSet(Copies(reply'[c], BadReplies(c)))
            /\ Number(reply'[c], BadReplies(c)) = IF r \in BadReplies(c) THEN k + 1 ELSE k
        BY <1>4, <2>3, <4>1, OneCopyMore
      <4>. HIDE DEF k
      <4>. QED  BY <2>1, <2>3, <3>2, <4>2, <4>3, <4>4
    <3>. QED  BY <1>5, <1>7, <3>1, <3>2
  <2>. HIDE DEF n, k
  <2>6. Paid(c, request'[c], reply'[c], trys[c], faults)
    BY <1>4, <2>3, <2>4, <2>5 DEF Paid
  <2>. QED  BY <1>2, <2>1, <2>2, <2>5, <2>6 DEF ClientTries
<1>8. Damage(faults) <= Damage(faults')
  BY <1>2, <1>4
<1>. QED  BY <1>2, <1>3, <1>6, <1>7, <1>8, OthersKeepTries

LEMMA SendTries ==
    ASSUME TriesInv, NEW c \in Clients, Send(c)
    PROVE  TriesInv'
<1>. DEFINE r == Datagram(Request(c))
<1>1. /\ request' = [request EXCEPT ![c] = Put(request[c], r)]
      /\ pc' = [pc EXCEPT ![c] = "recv"]
      /\ UNCHANGED <<up, reply, trys, buf, printed, faults>>
  BY DEF Send
<1>2. TypeInv'
  BY SendTypes DEF TriesInv
<1>3. /\ DOMAIN request = Clients /\ DOMAIN pc = Clients
      /\ IsABag(request[c]) /\ Damage(faults) \in Nat
  BY TriesTypes DEF TriesInv
<1>4. ASSUME Fits(c)
      PROVE  ClientTries(c)'
  <2>1. r = [bytes |-> Request(c), clean |-> TRUE]
    BY <1>4, FittingRequest, WholeDatagram
  <2>2. RequestOrChanged(c, r) /\ r \notin BadRequests
    BY <1>4, <2>1, FittingRequest DEF RequestOrChanged, BadRequests
  <2>. HIDE DEF r
  <2>3. /\ \A q \in DOMAIN request[c] : RequestOrChanged(c, q)
        /\ \A q \in DOMAIN reply[c] : ErrorOrAnswer(c, q)
        /\ Unwritten(c, buf[c])
        /\ Paid(c, request[c], reply[c], trys[c], faults)
    BY <1>4 DEF TriesInv, ClientTries
  <2>4. request'[c] = Put(request[c], r) /\ pc'[c] = "recv"
    BY <1>1, <1>3
  <2>5. DOMAIN request'[c] = DOMAIN request[c] \cup {r}
    BY <2>4, PutAdds
  <2>6. IsFiniteSet(Copies(request[c], BadRequests))
    BY <2>3 DEF Paid
  <2>7. /\ IsFiniteSet(Copies(request'[c], BadRequests))
        /\ Number(request'[c], BadRequests) = Number(request[c], BadRequests)
    BY <1>3, <2>2, <2>4, <2>6, OneCopyMore
  <2>8. Paid(c, request'[c], reply[c], trys[c], faults)
    BY <2>3, <2>7 DEF Paid
  <2>. QED  BY <1>1, <2>2, <2>3, <2>4, <2>5, <2>8 DEF ClientTries
<1>5. \A d \in Clients : d # c => request'[d] = request[d] /\ pc'[d] = pc[d]
  BY <1>1, <1>3
<1>6. Damage(faults) <= Damage(faults')
  BY <1>1, <1>3
<1>. QED  BY <1>1, <1>2, <1>4, <1>5, <1>6, OthersKeepTries

\* A try that fails was spent on a reply that is not good: a good one
\* verifies in the buffer, as there are but zeros behind it.
LEMMA ReceiveTries ==
    ASSUME TriesInv, NEW c \in Clients, NEW m \in DOMAIN reply[c],
           InvalidResponse(c, m) \/ ServerError(c, m) \/ Answer(c, m)
    PROVE  TriesInv'
<1>1. /\ reply' = [reply EXCEPT ![c] = Take(reply[c], m)]
      /\ buf' = [buf EXCEPT ![c] = Overwrite(buf[c], m.bytes)]
      /\ UNCHANGED <<up, request, faults>>
  BY DEF InvalidResponse, ServerError, Answer, Receive
<1>2. TypeInv'
  BY ReceiveTypes DEF TriesInv
<1>3. /\ DOMAIN reply = Clients /\ DOMAIN buf = Clients
      /\ DOMAIN pc = Clients /\ DOMAIN trys = Clients
      /\ IsABag(reply[c]) /\ m \in Datagrams
      /\ trys[c] \in Nat /\ Damage(faults) \in Nat
  BY TriesTypes DEF TriesInv
<1>4. \/ /\ ~Verifies(buf'[c])
         /\ trys' = [trys EXCEPT ![c] = trys[c] + 1]
         /\ pc' = [pc EXCEPT ![c] = IF trys'[c] < Tries THEN "send" ELSE "failed"]
      \/ trys' = trys /\ \E p \in {"error", "answered"} : pc' = [pc EXCEPT ![c] = p]
  BY DEF InvalidResponse, ServerError, Answer
<1>5. /\ reply'[c] = Take(reply[c], m) /\ buf'[c] = Overwrite(buf[c], m.bytes)
      /\ \A d \in Clients : d # c =>
            reply'[d] = reply[d] /\ buf'[d] = buf[d] /\ pc'[d] = pc[d] /\ trys'[d] = trys[d]
  BY <1>1, <1>3, <1>4
<1>6. ASSUME Fits(c)
      PROVE  ClientTries(c)'
  <2>1. /\ \A q \in DOMAIN request[c] : RequestOrChanged(c, q)
        /\ \A q \in DOMAIN reply[c] : ErrorOrAnswer(c, q)
        /\ Unwritten(c, buf[c])
        /\ Paid(c, request[c], reply[c], trys[c], faults)
    BY <1>6 DEF TriesInv, ClientTries
  <2>2. m.bytes \in Seq(Byte) /\ (GoodReply(c, m) => Verifies(buf'[c]))
    <3>1. m.bytes \in Seq(Byte)
      BY <2>1 DEF ErrorOrAnswer
    <3>. QED  BY <1>5, <2>1, <3>1, BufferSumsAnswer DEF GoodReply
  <2>3. Unwritten(c, buf'[c])
    <3>. DEFINE a == 5 + 4 * Len(Hosts[c])
    <3>0. a \in Nat /\ 9 <= a
      BY ClientSizes
    <3>1. Len(m.bytes) = 7 \/ Len(m.bytes) = a
      BY <2>1 DEF ErrorOrAnswer
    <3>. HIDE DEF a
    <3>3. Len(m.bytes) <= a
      <4>1. CASE Len(m.bytes) = 7
        BY <3>0, <4>1
      <4>2. CASE Len(m.bytes) = a
        BY <3>0, <4>2
      <4>. QED  BY <3>1, <4>1, <4>2
    <3>2. Len(m.bytes) <= 5 + 4 * Len(Hosts[c])
      BY <3>3 DEF a
    <3>. QED  BY <1>5, <2>1, <2>2, <3>2, OverwriteLeavesZeros
  <2>4. \A q \in DOMAIN reply'[c] : ErrorOrAnswer(c, q)
    BY <1>5, <2>1, TakeLeaves
  <2>. DEFINE n == Number(request[c], BadRequests)
              k == Number(reply[c], BadReplies(c))
  <2>5. /\ IsFiniteSet(Copies(request[c], BadRequests))
        /\ IsFiniteSet(Copies(reply[c], BadReplies(c)))
        /\ n \in Nat /\ k \in Nat /\ trys[c] + n + k <= Damage(faults)
    BY <2>1, CountsAreNumbers DEF Paid
  <2>6. /\ IsFiniteSet(Copies(reply'[c], BadReplies(c)))
        /\ Number(reply'[c], BadReplies(c)) = IF GoodReply(c, m) THEN k ELSE k - 1
    <3>1. m \in BadReplies(c) <=> ~GoodReply(c, m)
      BY <1>3 DEF BadReplies
    <3>. QED  BY <1>3, <1>5, <2>5, <3>1, OneCopyLess
  <2>7. /\ trys'[c] = trys[c] \/ (trys'[c] = trys[c] + 1 /\ ~GoodReply(c, m))
        /\ pc'[c] = "failed" => trys'[c] >= Tries
    <3>1. CASE /\ ~Verifies(buf'[c])
               /\ trys' = [trys EXCEPT ![c] = trys[c] + 1]
               /\ pc' = [pc EXCEPT ![c] = IF trys'[c] < Tries THEN "send" ELSE "failed"]
      <4>1. /\ trys'[c] = trys[c] + 1 /\ ~GoodReply(c, m)
            /\ pc'[c] = IF trys'[c] < Tries THEN "send" ELSE "failed"
        BY <1>3, <2>2, <3>1
      <4>2. trys'[c] \in Int /\ Tries \in Int
        BY <1>3, <4>1, Sizes
      <4>. QED  BY <4>1, <4>2
    <3>2. CASE trys' = trys /\ \E p \in {"error", "answered"} : pc' = [pc EXCEPT ![c] = p]
      BY <1>3, <3>2
    <3>. QED  BY <1>4, <3>1, <3>2
  <2>. HIDE DEF n, k
  <2>8. Paid(c, request'[c], reply'[c], trys'[c], faults)
    <3>1. trys'[c] + n + Number(reply'[c], BadReplies(c)) <= Damage(faults)
      BY <1>3, <2>5, <2>6, <2>7
    <3>. QED  BY <1>1, <2>5, <2>6, <3>1 DEF Paid, n
  <2>. QED  BY <1>1, <2>1, <2>3, <2>4, <2>7, <2>8 DEF ClientTries
<1>7. Damage(faults) <= Damage(faults')
  BY <1>1, <1>3
<1>. QED  BY <1>1, <1>2, <1>5, <1>6, <1>7, OthersKeepTries

LEMMA DisturbTries ==
    ASSUME TriesInv, NEW c \in Clients, DisturbRequest(c) \/ DisturbReply(c)
    PROVE  TriesInv'
<1>1. UNCHANGED <<up, pc, trys, buf, printed>>
  BY DEF DisturbRequest, DisturbReply
<1>2. TypeInv'
  BY DisturbTypes DEF TriesInv
<1>3. /\ DOMAIN request = Clients /\ DOMAIN reply = Clients
      /\ IsABag(request[c]) /\ DOMAIN request[c] \subseteq Datagrams
      /\ IsABag(reply[c]) /\ DOMAIN reply[c] \subseteq Datagrams
      /\ trys[c] \in Nat /\ faults \in [FaultKinds -> Nat]
  BY TriesTypes DEF TriesInv
<1>4. CASE DisturbRequest(c)
  <2>1. PICK x \in Disturbances(request[c]) :
          Fault(x[2]) /\ request' = [request EXCEPT ![c] = x[1]] /\ UNCHANGED reply
    BY <1>4 DEF DisturbRequest
  <2>2. /\ Damage(faults) \in Nat /\ Damage(faults') \in Nat
        /\ Damage(faults') = Damage(faults) + Costs(x[2])
        /\ Costs(x[2]) \in Nat
    BY <1>3, <2>1, DisturbanceKind, DamageGrows DEF Costs
  <2>3. request'[c] = x[1] /\ \A d \in Clients : d # c => request'[d] = request[d]
    BY <1>3, <2>1
  <2>4. ASSUME Fits(c)
        PROVE  ClientTries(c)'
    <3>1. /\ \A q \in DOMAIN request[c] : RequestOrChanged(c, q)
          /\ Paid(c, request[c], reply[c], trys[c], faults)
          /\ ClientTries(c)
      BY <2>4 DEF TriesInv, ClientTries
    <3>2. ASSUME NEW m \in DOMAIN request[c], NEW y \in Corruptions(m), m.clean
          PROVE  /\ RequestOrChanged(c, y[1])
                 /\ y[2] = "flip" => y[1] \notin BadRequests
      <4>1. m.bytes = Request(c)
        BY <3>1, <3>2 DEF RequestOrChanged
      <4>2. PICK i \in 1..Len(m.bytes), b \in Noise :
              b # m.bytes[i] /\ y[1] = Corrupted(m, i, b)
        BY CorruptionsByCases
      <4>3. /\ ~y[1].clean /\ y[1].bytes = [Request(c) EXCEPT ![i] = b]
            /\ i \in 1..Len(Request(c)) /\ b \in Byte /\ b # Request(c)[i]
        BY <4>1, <4>2, Sizes DEF Corrupted
      <4>4. RequestOrChanged(c, y[1])
        BY <4>3 DEF RequestOrChanged
      <4>5. y[2] = "flip" => y[1] \notin BadRequests
        BY <2>4, <4>1, FlippedRequest DEF BadRequests
      <4>. QED  BY <4>4, <4>5
    <3>3. \A q \in DOMAIN x[1] : RequestOrChanged(c, q)
      BY <3>1, <3>2, DisturbancesByCases
    <3>. DEFINE n == Number(request[c], BadRequests)
                k == Number(reply[c], BadReplies(c))
    <3>4. /\ IsFiniteSet(Copies(request[c], BadRequests))
          /\ IsFiniteSet(Copies(reply[c], BadReplies(c)))
          /\ n \in Nat /\ k \in Nat /\ trys[c] + n + k <= Damage(faults)
      BY <3>1, CountsAreNumbers DEF Paid
    <3>5. /\ IsFiniteSet(Copies(x[1], BadRequests))
          /\ Number(x[1], BadRequests) <= n + Costs(x[2])
      BY <1>3, <3>2, <3>4, DisturbedCount
    <3>6. Number(x[1], BadRequests) \in Nat
      BY <3>5, CountsAreNumbers
    <3>. HIDE DEF n, k
    <3>7. Paid(c, x[1], reply[c], trys[c], faults')
      <4>1. trys[c] + Number(x[1], BadRequests) + k <= Damage(faults')
        BY <1>3, <2>2, <3>4, <3>5, <3>6
      <4>. QED  BY <3>4, <3>5, <4>1 DEF Paid, k
    <3>. QED  BY <1>1, <2>1, <2>3, <3>1, <3>3, <3>7 DEF ClientTries
  <2>5. Damage(faults) <= Damage(faults')
    BY <2>2
  <2>. QED  BY <1>1, <1>2, <2>1, <2>3, <2>4, <2>5, OthersKeepTries
<1>5. CASE DisturbReply(c)
  <2>1. PICK x \in Disturbances(reply[c]) :
          Fault(x[2]) /\ reply' = [reply EXCEPT ![c] = x[1]] /\ UNCHANGED request
    BY <1>5 DEF DisturbReply
  <2>2. /\ Damage(faults) \in Nat /\ Damage(faults') \in Nat
        /\ Damage(faults') = Damage(faults) + Costs(x[2])
        /\ Costs(x[2]) \in Nat
    BY <1>3, <2>1, DisturbanceKind, DamageGrows DEF Costs
  <2>3. reply'[c] = x[1] /\ \A d \in Clients : d # c => reply'[d] = reply[d]
    BY <1>3, <2>1
  <2>4. ASSUME Fits(c)
        PROVE  ClientTries(c)'
    <3>1. /\ \A q \in DOMAIN reply[c] : ErrorOrAnswer(c, q)
          /\ Paid(c, request[c], reply[c], trys[c], faults)
          /\ ClientTries(c)
      BY <2>4 DEF TriesInv, ClientTries
    <3>2. ASSUME NEW m \in DOMAIN reply[c], NEW y \in Corruptions(m), m.clean
          PROVE  /\ ErrorOrAnswer(c, y[1])
                 /\ y[2] = "flip" /\ m \notin BadReplies(c) => y[1] \notin BadReplies(c)
      <4>1. ErrorOrAnswer(c, m) /\ m \in Datagrams
        BY <1>3, <3>1
      <4>. QED  BY <3>2, <4>1, CorruptedReply DEF BadReplies
    <3>3. \A q \in DOMAIN x[1] : ErrorOrAnswer(c, q)
      BY <3>1, <3>2, DisturbancesByCases
    <3>. DEFINE n == Number(request[c], BadRequests)
                k == Number(reply[c], BadReplies(c))
    <3>4. /\ IsFiniteSet(Copies(request[c], BadRequests))
          /\ IsFiniteSet(Copies(reply[c], BadReplies(c)))
          /\ n \in Nat /\ k \in Nat /\ trys[c] + n + k <= Damage(faults)
      BY <3>1, CountsAreNumbers DEF Paid
    <3>5. /\ IsFiniteSet(Copies(x[1], BadReplies(c)))
          /\ Number(x[1], BadReplies(c)) <= k + Costs(x[2])
      BY <1>3, <3>2, <3>4, DisturbedCount
    <3>6. Number(x[1], BadReplies(c)) \in Nat
      BY <3>5, CountsAreNumbers
    <3>. HIDE DEF n, k
    <3>7. Paid(c, request[c], x[1], trys[c], faults')
      <4>1. trys[c] + n + Number(x[1], BadReplies(c)) <= Damage(faults')
        BY <1>3, <2>2, <3>4, <3>5, <3>6
      <4>. QED  BY <3>4, <3>5, <4>1 DEF Paid, n
    <3>. QED  BY <1>1, <2>1, <2>3, <3>1, <3>3, <3>7 DEF ClientTries
  <2>5. Damage(faults) <= Damage(faults')
    BY <2>2
  <2>. QED  BY <1>1, <1>2, <2>1, <2>3, <2>4, <2>5, OthersKeepTries
<1>. QED  BY <1>4, <1>5

\* A client gives up only if as many datagrams as it has tries were
\* duplicated or corrupted (UDPClient.c 221): a loss costs nothing, as the
\* client waits for ever, nor does a flip, which the checksum does not see.
THEOREM EveryTryIsPaidFor == Spec => []TriesAreSpentOnFaults
<1>1. TriesInv /\ [Next]_vars => TriesInv'
  <2>. SUFFICES ASSUME TriesInv, [Next]_vars PROVE TriesInv'
    OBVIOUS
  <2>1. ASSUME NEW c \in Clients, ClientStep(c)
        PROVE  TriesInv'
    BY <2>1, SendTries, ReceiveTries DEF ClientStep
  <2>2. CASE UNCHANGED vars
    <3>1. TypeInv'
      BY <2>2 DEF TriesInv, TypeInv, TypeOK, Whole, vars
    <3>. QED  BY <2>2, <3>1 DEF TriesInv, ClientTries, vars
  <2>. QED  BY <2>1, <2>2, ServeTries, DisturbTries DEF Next
<1>2. TriesInv => TriesAreSpentOnFaults
  <2>. SUFFICES ASSUME TriesInv, NEW c \in Clients, pc[c] = "failed", Fits(c)
                PROVE  faults["corrupt"] + faults["duplicate"] >= Tries
    BY DEF TriesAreSpentOnFaults
  <2>1. /\ Paid(c, request[c], reply[c], trys[c], faults) /\ trys[c] >= Tries
        /\ trys[c] \in Nat /\ Damage(faults) \in Nat /\ Tries \in Nat
    BY TriesTypes, Sizes DEF TriesInv, ClientTries
  <2>2. /\ Number(request[c], BadRequests) \in Nat /\ Number(reply[c], BadReplies(c)) \in Nat
        /\ trys[c] + Number(request[c], BadRequests) + Number(reply[c], BadReplies(c))
              <= Damage(faults)
    BY <2>1, CountsAreNumbers DEF Paid
  <2>3. Damage(faults) >= Tries
    BY <2>1, <2>2
  <2>. QED  BY <2>3 DEF Damage
<1>. QED  BY <1>1, <1>2, TriesInit, PTL DEF Spec

=============================================================================
