----------------------------- MODULE CookProofs -----------------------------
(***************************************************************************)
(* The ring of Cook keeps the promise of TtyLines: it is a first-in,       *)
(* first-out queue of lines and a draft that a backspace does not leave.   *)
(***************************************************************************)
EXTENDS Cook, SequenceTheorems, FunctionTheorems, FiniteSetTheorems, TLAPS

----------------------------------------------------------------------------
(* The ring *)

Ring == [buf : [Pos -> Byte], front : Pos, rear : Pos]

(* Positions and numbers of bytes, without %. *)
Place(f, i) == IF f + i < SZ THEN f + i ELSE f + i - SZ
Count(x) == IF x.rear >= x.front THEN x.rear - x.front ELSE x.rear - x.front + SZ
Held(x) == [i \in 1 .. Count(x) |-> x.buf[Place(x.front, i - 1)]]

(* The byte at rear and the one before front are '\0'. *)
Edged(x) == x \in Ring /\ x.buf[x.rear] = Zero /\ x.buf[Place(x.front, SZ - 1)] = Zero

LEMMA ModSmall ==
  ASSUME NEW n \in Nat \ {0}, NEW x \in Nat
  PROVE  /\ x < n => x % n = x
         /\ x >= n /\ x < 2 * n => x % n = x - n
OBVIOUS

LEMMA ModMinus ==
  ASSUME NEW n \in Nat \ {0}, NEW x \in Nat, 0 < x, x <= n
  PROVE  (-x) % n = n - x
OBVIOUS

(* Addition modulo n of a position and at most n. *)
LEMMA ModAdd ==
  ASSUME NEW n \in Nat \ {0}, NEW f \in Nat, f < n, NEW i \in Nat, i <= n
  PROVE  (f + i) % n = IF f + i < n THEN f + i ELSE f + i - n
<1>1. PICK x \in Nat : x = f + i /\ x < 2 * n
  OBVIOUS
<1>2. (x < n => x % n = x) /\ (x >= n => x % n = x - n)
  BY <1>1, ModSmall
<1> QED
  BY <1>1, <1>2

LEMMA ModSubtract ==
  ASSUME NEW n \in Nat \ {0}, NEW f \in Nat, f < n, NEW r \in Nat, r < n
  PROVE  (r - f) % n = IF r >= f THEN r - f ELSE r - f + n
<1>1. CASE r >= f
  <2>1. PICK x \in Nat : x = r - f /\ x < n
    BY <1>1
  <2>2. x % n = x
    BY <2>1, ModSmall
  <2> QED
    BY <1>1, <2>1, <2>2
<1>2. CASE r < f
  <2>1. PICK x \in Nat : x = f - r /\ 0 < x /\ x <= n
    BY <1>2
  <2>2. (-x) % n = n - x
    BY <2>1, ModMinus
  <2>3. r - f = -x
    BY <2>1
  <2> QED
    BY <1>2, <2>1, <2>2, <2>3
<1> QED
  BY <1>1, <1>2

LEMMA Size == SZ \in Nat \ {0} /\ SZ >= 2 /\ \A i : i \in Pos <=> i \in Nat /\ i < SZ
BY CookAssumption DEF Pos

LEMMA PlaceIs ==
  ASSUME NEW f \in Pos, NEW i \in Nat, i <= SZ
  PROVE  (f + i) % SZ = Place(f, i) /\ Place(f, i) \in Pos
<1>1. (f + i) % SZ = IF f + i < SZ THEN f + i ELSE f + i - SZ
  BY Size, ModAdd
<1> QED
  BY <1>1, Size DEF Place

LEMMA AfterIs ==
  ASSUME NEW r \in Pos
  PROVE  After(r) = Place(r, 1) /\ (r - 1) % SZ = Place(r, SZ - 1)
<1>1. After(r) = Place(r, 1)
  BY Size, PlaceIs DEF After
<1>2. (r - 1) % SZ = IF r >= 1 THEN r - 1 ELSE r - 1 + SZ
  BY Size, ModSubtract
<1> QED
  BY <1>1, <1>2, Size DEF Place

LEMMA CountIs ==
  ASSUME NEW x \in Ring
  PROVE  Count(x) = (x.rear - x.front) % SZ
<1>1. x.front \in Pos /\ x.rear \in Pos
  BY DEF Ring
<1> QED
  BY <1>1, Size, ModSubtract DEF Count

(* Rings in terms of the number of their bytes. *)
LEMMA RingFacts ==
  ASSUME NEW x \in Ring
  PROVE  /\ x.front \in Pos /\ x.rear \in Pos /\ x.buf \in [Pos -> Byte]
         /\ Count(x) \in Pos /\ x.rear = Place(x.front, Count(x))
         /\ Held(x) \in Seq(Byte) /\ Len(Held(x)) = Count(x)
         /\ \A i \in Pos : i < Count(x) => Held(x)[i + 1] = x.buf[Place(x.front, i)]
<1>1. x.front \in Pos /\ x.rear \in Pos /\ x.buf \in [Pos -> Byte]
  BY DEF Ring
<1>2. SZ \in Nat /\ SZ >= 2
  BY CookAssumption
<1>3. Count(x) \in Pos /\ x.rear = Place(x.front, Count(x))
  BY <1>1, <1>2 DEF Count, Place, Pos
<1>4. \A i \in 1 .. Count(x) : i - 1 \in Pos /\ Place(x.front, i - 1) \in Pos
  BY SMTT(60), <1>1, <1>2, <1>3 DEF Place, Pos
<1>5. Held(x) \in Seq(Byte) /\ Len(Held(x)) = Count(x)
  <2>1. \A i \in 1 .. Count(x) : x.buf[Place(x.front, i - 1)] \in Byte
    BY <1>1, <1>4
  <2>2. Held(x) \in [1 .. Count(x) -> Byte]
    BY <2>1 DEF Held
  <2>3. Count(x) \in Nat
    BY <1>3 DEF Pos
  <2> QED
    BY <2>2, <2>3
<1>6. \A i \in Pos : i < Count(x) => Held(x)[i + 1] = x.buf[Place(x.front, i)]
  BY <1>2, <1>3 DEF Held, Pos
<1> QED
  BY <1>1, <1>3, <1>5, <1>6

(* Places of different bytes are different. *)
LEMMA PlaceOnce ==
  ASSUME NEW f \in Pos, NEW i \in Pos, NEW j \in Pos, i # j
  PROVE  Place(f, i) # Place(f, j)
BY CookAssumption DEF Place, Pos

LEMMA PlaceStep ==
  ASSUME NEW f \in Pos, NEW i \in Pos
  PROVE  /\ i + 1 < SZ => Place(Place(f, i), 1) = Place(f, i + 1)
         /\ i + 1 = SZ => Place(Place(f, i), 1) = f
         /\ i > 0 => Place(Place(f, i), SZ - 1) = Place(f, i - 1)
         /\ Place(f, 0) = f
BY Size DEF Place

(* Two sequences with the same entries. *)
LEMMA SameSeq ==
  ASSUME NEW S, NEW s \in Seq(S), NEW t \in Seq(S), Len(s) = Len(t),
         \A i \in 1 .. Len(s) : s[i] = t[i]
  PROVE  s = t
BY SeqEqual

LEMMA EnqueueRecord ==
  ASSUME NEW x \in Ring, NEW ch, NEW b, NEW f, NEW r, NEW a, NEW b1, NEW b2,
         b = x.buf, f = x.front, r = x.rear, a = After(r),
         b1 = [b EXCEPT ![r] = ch], b2 = [b1 EXCEPT ![a] = Zero]
  PROVE  tty_enqueue(x, ch) = [buf |-> b2, front |-> f, rear |-> a]
<1>1. x = [buf |-> b, front |-> f, rear |-> r] /\ b \in [Pos -> Byte]
  BY DEF Ring
<1>4. [x EXCEPT !.buf[r] = ch] = [buf |-> b1, front |-> f, rear |-> r]
  BY <1>1
<1>5. [[buf |-> b1, front |-> f, rear |-> r] EXCEPT !.buf[a] = Zero]
        = [buf |-> b2, front |-> f, rear |-> r]
  OBVIOUS
<1>6. [[buf |-> b2, front |-> f, rear |-> r] EXCEPT !.rear = After(@)]
        = [buf |-> b2, front |-> f, rear |-> a]
  OBVIOUS
<1>7. tty_enqueue(x, ch) =
        [[[x EXCEPT !.buf[r] = ch] EXCEPT !.buf[a] = Zero] EXCEPT !.rear = After(@)]
  BY DEF tty_enqueue
<1> QED
  BY <1>4, <1>5, <1>6, <1>7

LEMMA PopBackRecord ==
  ASSUME NEW x \in Ring, NEW b, NEW f, NEW a, NEW b1,
         b = x.buf, f = x.front, a = BeforeRear(x), b1 = [b EXCEPT ![a] = Zero]
  PROVE  tty_pop_back(x) = [buf |-> b1, front |-> f, rear |-> a]
<1>1. PICK r : x = [buf |-> b, front |-> f, rear |-> r] /\ b \in [Pos -> Byte]
  BY DEF Ring
<1>3. [x EXCEPT !.buf[a] = Zero] = [buf |-> b1, front |-> f, rear |-> r]
  BY <1>1
<1>4. tty_pop_back(x) = [[x EXCEPT !.buf[a] = Zero] EXCEPT !.rear = a]
  BY DEF tty_pop_back
<1>5. [[buf |-> b1, front |-> f, rear |-> r] EXCEPT !.rear = a] = [buf |-> b1, front |-> f, rear |-> a]
  OBVIOUS
<1> QED
  BY <1>3, <1>4, <1>5

(* A ring with room takes a byte at its end. *)
LEMMA Enqueue ==
  ASSUME NEW x, Edged(x), ~Full(x), NEW ch \in Byte
  PROVE  /\ Edged(tty_enqueue(x, ch)) /\ tty_enqueue(x, ch).front = x.front
         /\ Count(tty_enqueue(x, ch)) = Count(x) + 1
         /\ Held(tty_enqueue(x, ch)) = Append(Held(x), ch)
<1>1. x \in Ring /\ x.buf[x.rear] = Zero /\ x.buf[Place(x.front, SZ - 1)] = Zero
  BY DEF Edged
<1>2. PICK f \in Pos, c \in Pos, b \in [Pos -> Byte] :
        f = x.front /\ c = Count(x) /\ b = x.buf /\ x.rear = Place(f, c)
  BY <1>1, RingFacts
<1>3. PICK r \in Pos, a \in Pos : r = x.rear /\ a = After(r) /\ a = Place(r, 1)
  <2>1. PICK r \in Pos : r = x.rear
    BY <1>1, RingFacts
  <2>2. Place(r, 1) \in Pos /\ After(r) = Place(r, 1)
    <3>1. 1 \in Nat /\ 1 <= SZ
      BY Size
    <3> QED
      BY <3>1, AfterIs, PlaceIs
  <2> QED
    BY <2>1, <2>2
<1>4. c + 1 < SZ /\ a = Place(f, c + 1) /\ r = Place(f, c) /\ c + 1 \in Pos
  <2>1. a # f
    BY <1>2, <1>3 DEF Full
  <2> QED
    BY <2>1, <1>2, <1>3, PlaceStep, Size
<1>5. r # a
  <2>1. c # c + 1
    BY <1>4, Size
  <2> QED
    BY <2>1, <1>4, PlaceOnce
<1>6. PICK d \in [Pos -> Byte] :
        /\ tty_enqueue(x, ch) = [buf |-> d, front |-> f, rear |-> a]
        /\ d[r] = ch /\ d[a] = Zero
        /\ \A p \in Pos : p # r /\ p # a => d[p] = b[p]
  <2>0. PICK e1, e : e1 = [b EXCEPT ![r] = ch] /\ e = [e1 EXCEPT ![a] = Zero]
    OBVIOUS
  <2>1. tty_enqueue(x, ch) = [buf |-> e, front |-> f, rear |-> a]
    <3>1. b = x.buf /\ f = x.front /\ r = x.rear /\ a = After(r) /\ x \in Ring
      BY <1>1, <1>2, <1>3
    <3>2. e1 = [b EXCEPT ![r] = ch] /\ e = [e1 EXCEPT ![a] = Zero]
      BY <2>0
    <3> QED
      BY ONLY <3>1, <3>2, EnqueueRecord
  <2>2. ch \in Byte /\ Zero \in Byte
    BY DEF Byte
  <2>3. e \in [Pos -> Byte] /\ e[r] = ch /\ e[a] = Zero /\ \A p \in Pos : p # r /\ p # a => e[p] = b[p]
    BY <2>0, <2>2, <1>5
  <2> QED
    BY <2>1, <2>3
<1>7. PICK y \in Ring : y = tty_enqueue(x, ch) /\ y.buf = d /\ y.front = f /\ y.rear = a
  BY <1>6 DEF Ring
<1>8. Count(y) = c + 1
  BY <1>4, <1>7, Size DEF Count, Place
<1>9. ASSUME NEW i \in Pos, i # c, i # c + 1 PROVE d[Place(f, i)] = b[Place(f, i)]
  <2>1. Place(f, i) # r /\ Place(f, i) # a
    BY <1>4, <1>9, PlaceOnce
  <2>2. Place(f, i) \in Pos
    BY PlaceIs, Size
  <2> QED
    BY <2>1, <2>2, <1>6
<1>10. Edged(y)
  <2>1. d[Place(f, SZ - 1)] = Zero
    <3>1. CASE c + 1 = SZ - 1
      BY <3>1, <1>4, <1>6
    <3>2. CASE c + 1 # SZ - 1
      <4>1. SZ - 1 \in Pos /\ SZ - 1 # c /\ SZ - 1 # c + 1
        BY <3>2, <1>4, Size
      <4> QED
        BY <4>1, <1>1, <1>2, <1>9
    <3> QED
      BY <3>1, <3>2
  <2> QED
    BY <2>1, <1>6, <1>7 DEF Edged
<1>11. Held(y) = Append(Held(x), ch)
  <2>1. PICK h \in Seq(Byte), g \in Seq(Byte) :
          h = Held(x) /\ g = Held(y) /\ Len(h) = c /\ Len(g) = c + 1
    BY <1>1, <1>2, <1>8, RingFacts
  <2>2. \A i \in Pos : i < c => h[i + 1] = b[Place(f, i)]
    BY <1>1, <1>2, <2>1, RingFacts
  <2>3. \A i \in Pos : i < c + 1 => g[i + 1] = d[Place(f, i)]
    BY <1>7, <1>8, <2>1, RingFacts
  <2>4. g[c + 1] = ch
    BY SMTT(60), <2>3, <1>4, <1>6
  <2>5. ASSUME NEW i \in 1 .. c PROVE g[i] = h[i]
    <3>1. i \in Nat /\ 1 <= i /\ i <= c /\ c \in Nat /\ c < SZ
      BY Size, <1>4
    <3>2. PICK j \in Nat : i = j + 1 /\ j < c /\ j < SZ
      BY <3>1, Size
    <3>3. j \in Pos /\ i = j + 1 /\ j < c
      BY <3>2, Size
    <3>4. j + 1 <= c + 1 /\ j # c /\ j # c + 1
      BY <3>3, Size
    <3>5. g[j + 1] = d[Place(f, j)] /\ h[j + 1] = b[Place(f, j)] /\ d[Place(f, j)] = b[Place(f, j)]
      BY <3>1, <3>3, <3>4, <2>2, <2>3, <1>9, Size
    <3> QED
      BY <3>3, <3>5
  <2>6. PICK k \in Seq(Byte) :
          k = Append(h, ch) /\ Len(k) = c + 1 /\ k[c + 1] = ch /\ \A i \in 1 .. c : k[i] = h[i]
    <3>1. Append(h, ch) \in Seq(Byte) /\ Len(Append(h, ch)) = Len(h) + 1
      BY AppendProperties
    <3>2. Append(h, ch)[Len(h) + 1] = ch /\ \A i \in 1 .. Len(h) : Append(h, ch)[i] = h[i]
      BY AppendProperties
    <3> QED
      BY <2>1, <3>1, <3>2
  <2>7. \A i \in 1 .. c + 1 : g[i] = k[i]
    BY <2>4, <2>5, <2>6, <1>4, Size
  <2> QED
    BY <2>1, <2>6, <2>7, SameSeq
<1> QED
  BY <1>2, <1>7, <1>8, <1>10, <1>11

(* A backspace takes a byte that is not '\0' off the end. *)
LEMMA PopBack ==
  ASSUME NEW x, Edged(x), CanErase(x)
  PROVE  /\ Edged(tty_pop_back(x)) /\ Count(x) > 0
         /\ Held(x)[Count(x)] # Zero
         /\ Held(tty_pop_back(x)) = SubSeq(Held(x), 1, Count(x) - 1)
<1>1. x \in Ring /\ x.buf[x.rear] = Zero /\ x.buf[Place(x.front, SZ - 1)] = Zero
  BY DEF Edged
<1>2. PICK f \in Pos, c \in Pos, b \in [Pos -> Byte], r \in Pos :
        f = x.front /\ c = Count(x) /\ b = x.buf /\ r = x.rear /\ r = Place(f, c)
  BY <1>1, RingFacts
<1>3. PICK a \in Pos : a = BeforeRear(x) /\ a = Place(r, SZ - 1)
  BY <1>1, <1>2, AfterIs, PlaceIs, Size DEF BeforeRear
<1>4. c > 0 /\ c - 1 \in Pos /\ a = Place(f, c - 1)
  <2>1. c # 0
    BY <1>1, <1>2, <1>3, PlaceStep DEF CanErase
  <2> QED
    BY <2>1, <1>2, <1>3, PlaceStep, Size
<1>5. PICK d \in [Pos -> Byte] :
        /\ tty_pop_back(x) = [buf |-> d, front |-> f, rear |-> a]
        /\ d[a] = Zero /\ \A p \in Pos : p # a => d[p] = b[p]
  <2>1. PICK e : e = [b EXCEPT ![a] = Zero]
    OBVIOUS
  <2>2. tty_pop_back(x) = [buf |-> e, front |-> f, rear |-> a]
    BY <2>1, <1>1, <1>2, <1>3, PopBackRecord
  <2>3. Zero \in Byte
    BY DEF Byte
  <2>4. e \in [Pos -> Byte] /\ e[a] = Zero /\ \A p \in Pos : p # a => e[p] = b[p]
    BY <2>1, <2>3
  <2> QED
    BY <2>2, <2>4
<1>6. PICK y \in Ring : y = tty_pop_back(x) /\ y.buf = d /\ y.front = f /\ y.rear = a
  BY <1>5 DEF Ring
<1>7. Count(y) = c - 1
  BY <1>4, <1>6, Size DEF Count, Place
<1>8. ASSUME NEW i \in Pos, i # c - 1 PROVE d[Place(f, i)] = b[Place(f, i)]
  <2>1. Place(f, i) # a
    BY <1>4, <1>8, PlaceOnce
  <2>2. Place(f, i) \in Pos
    BY PlaceIs, Size
  <2> QED
    BY <2>1, <2>2, <1>5
<1>9. Edged(y)
  <2>1. d[Place(f, SZ - 1)] = Zero
    <3>1. SZ - 1 \in Pos /\ SZ - 1 # c - 1
      BY <1>4, Size
    <3> QED
      BY <3>1, <1>1, <1>2, <1>8
  <2> QED
    BY <2>1, <1>5, <1>6 DEF Edged
<1>10. PICK h \in Seq(Byte), g \in Seq(Byte) :
         h = Held(x) /\ g = Held(y) /\ Len(h) = c /\ Len(g) = c - 1
  BY <1>1, <1>2, <1>7, RingFacts
<1>11. \A i \in Pos : i < c => h[i + 1] = b[Place(f, i)]
  BY <1>1, <1>2, <1>10, RingFacts
<1>12. h[c] # Zero
  <2>1. b[a] # Zero
    BY <1>2, <1>3 DEF CanErase
  <2> QED
    BY SMTT(60), <2>1, <1>11, <1>4
<1>13. Held(y) = SubSeq(Held(x), 1, Count(x) - 1)
  <2>1. \A i \in Pos : i < c - 1 => g[i + 1] = d[Place(f, i)]
    BY <1>6, <1>7, <1>10, RingFacts
  <2>2. ASSUME NEW i \in 1 .. c - 1 PROVE g[i] = h[i]
    <3>1. i \in Nat /\ 1 <= i /\ i <= c - 1 /\ c \in Nat /\ c < SZ
      BY Size, <1>4
    <3>2. PICK j \in Nat : i = j + 1 /\ j < c - 1 /\ j < SZ
      BY <3>1, Size
    <3>3. j \in Pos /\ i = j + 1 /\ j < c - 1
      BY <3>2, Size
    <3>4. j < c /\ j # c - 1
      BY <3>1, <3>3, Size
    <3>5. g[j + 1] = d[Place(f, j)] /\ h[j + 1] = b[Place(f, j)] /\ d[Place(f, j)] = b[Place(f, j)]
      BY <3>3, <3>4, <2>1, <1>11, <1>8
    <3> QED
      BY <3>3, <3>5
  <2>3. PICK k \in Seq(Byte) :
          k = SubSeq(h, 1, c - 1) /\ Len(k) = c - 1 /\ \A i \in 1 .. c - 1 : k[i] = h[i]
    <3>1. \A i \in 1 .. c - 1 : h[i] \in Byte
      BY <1>10, <1>4
    <3>2. c - 1 \in Int /\ 1 \in Int
      BY <1>4, Size
    <3>3. \A i \in 1 .. c - 1 : h[i] \in Byte
      BY <3>1, <1>4, Size
    <3>4. /\ SubSeq(h, 1, c - 1) \in Seq(Byte)
          /\ Len(SubSeq(h, 1, c - 1)) = IF 1 <= c - 1 THEN (c - 1) - 1 + 1 ELSE 0
          /\ \A i \in 1 .. (c - 1) - 1 + 1 : SubSeq(h, 1, c - 1)[i] = h[1 + i - 1]
      BY <3>2, <3>3, SubSeqProperties
    <3>5. c \in Nat /\ c >= 1
      BY <1>4, Size
    <3>6. \A i \in 1 .. c - 1 : 1 + i - 1 = i /\ i \in 1 .. (c - 1) - 1 + 1
      BY <3>5
    <3>7. \A i \in 1 .. c - 1 : SubSeq(h, 1, c - 1)[i] = h[i]
      BY <3>4, <3>6
    <3>8. Len(SubSeq(h, 1, c - 1)) = c - 1
      BY <3>4, <3>5
    <3> QED
      BY <3>4, <3>7, <3>8
  <2> QED
    BY <1>10, <1>2, <2>2, <2>3, SameSeq
<1> QED
  BY <1>2, <1>4, <1>6, <1>9, <1>10, <1>12, <1>13

LEMMA PlaceSum ==
  ASSUME NEW f \in Pos, NEW k \in Pos, NEW i \in Pos, k + i < SZ
  PROVE  Place(Place(f, k), i) = Place(f, k + i) /\ k + i \in Pos
BY Size DEF Place

(* Reading moves front past a '\0' that is one of the bytes. *)
LEMMA Advance ==
  ASSUME NEW x, Edged(x), NEW k \in 1 .. Count(x), Held(x)[k] = Zero
  PROVE  /\ Edged([x EXCEPT !.front = Place(x.front, k)])
         /\ Count([x EXCEPT !.front = Place(x.front, k)]) = Count(x) - k
         /\ Held([x EXCEPT !.front = Place(x.front, k)]) = SubSeq(Held(x), k + 1, Count(x))
<1>1. x \in Ring /\ x.buf[x.rear] = Zero
  BY DEF Edged
<1>2. PICK f \in Pos, c \in Pos, b \in [Pos -> Byte], r \in Pos :
        f = x.front /\ c = Count(x) /\ b = x.buf /\ r = x.rear /\ r = Place(f, c)
  BY <1>1, RingFacts
<1>3. PICK n \in Nat : n = c - k /\ c = n + k /\ k >= 1 /\ k \in Pos /\ n \in Pos /\ k - 1 \in Pos /\ k - 1 < c
  BY <1>2, Size
<1>4. PICK a \in Pos : a = Place(f, k)
  BY <1>3, PlaceIs, Size
<1>5. PICK y \in Ring :
        y = [x EXCEPT !.front = Place(x.front, k)] /\ y.buf = b /\ y.front = a /\ y.rear = r
  <2>1. x = [buf |-> b, front |-> f, rear |-> r]
    BY <1>1, <1>2 DEF Ring
  <2>2. [x EXCEPT !.front = Place(x.front, k)] = [buf |-> b, front |-> a, rear |-> r]
    BY <2>1, <1>4
  <2> QED
    BY <2>2 DEF Ring
<1>6. Count(y) = n
  <2>1. c = IF r >= f THEN r - f ELSE r - f + SZ
    BY <1>2 DEF Count
  <2>2. Count(y) = IF r >= a THEN r - a ELSE r - a + SZ
    BY <1>5 DEF Count
  <2>3. a = IF f + k < SZ THEN f + k ELSE f + k - SZ
    BY <1>4 DEF Place
  <2> QED
    BY <2>1, <2>2, <2>3, <1>3, Size
<1>7. PICK h \in Seq(Byte), g \in Seq(Byte) :
        h = Held(x) /\ g = Held(y) /\ Len(h) = c /\ Len(g) = n
  BY <1>1, <1>2, <1>5, <1>6, RingFacts
<1>8. \A i \in Pos : i < c => h[i + 1] = b[Place(f, i)]
  BY <1>1, <1>2, <1>7, RingFacts
<1>9. \A i \in Pos : i < n => g[i + 1] = b[Place(a, i)]
  BY <1>5, <1>6, <1>7, RingFacts
<1>10. Edged(y)
  <2>1. Place(a, SZ - 1) = Place(f, k - 1)
    BY <1>3, <1>4, PlaceStep
  <2>2. b[Place(f, k - 1)] = Zero
    <3>1. h[(k - 1) + 1] = b[Place(f, k - 1)] /\ (k - 1) + 1 = k
      BY <1>3, <1>8
    <3> QED
      BY <3>1, <1>7
  <2> QED
    BY <2>1, <2>2, <1>1, <1>2, <1>5 DEF Edged
<1>11. ASSUME NEW i \in 1 .. n PROVE g[i] = h[k + i]
  <2>1. PICK j \in Pos : i = j + 1 /\ j < n /\ k + j < c /\ k + i = (k + j) + 1
    <3>1. PICK j \in Nat : i = j + 1 /\ j < n
      OBVIOUS
    <3>2. j < SZ /\ k + j < c /\ k + i = (k + j) + 1
      BY <3>1, <1>3, Size
    <3> QED
      BY <3>1, <3>2, Size
  <2>2. k + j < SZ
    BY <2>1, <1>3, Size
  <2>3. Place(a, j) = Place(f, k + j) /\ k + j \in Pos
    BY <2>2, <1>3, <1>4, PlaceSum
  <2>4. h[(k + j) + 1] = b[Place(f, k + j)] /\ g[j + 1] = b[Place(a, j)]
    BY <2>1, <2>3, <1>8, <1>9
  <2> QED
    BY <2>1, <2>3, <2>4
<1>12. g = SubSeq(h, k + 1, c)
  <2>1. \A i \in k + 1 .. c : h[i] \in Byte
    BY SMTT(60), <1>3, <1>7, Size
  <2>2. k + 1 \in Int /\ c \in Int
    BY <1>3, Size
  <2>3. PICK t : t = SubSeq(h, k + 1, c)
    OBVIOUS
  <2>4. /\ t \in Seq(Byte)
        /\ Len(t) = IF k + 1 <= c THEN c - (k + 1) + 1 ELSE 0
        /\ \A i \in 1 .. c - (k + 1) + 1 : t[i] = h[k + 1 + i - 1]
    BY <2>1, <2>2, <2>3, SubSeqProperties
  <2>5. Len(t) = n
    BY <2>4, <1>3, Size
  <2>6. \A i \in 1 .. n : t[i] = h[k + i]
    <3>1. ASSUME NEW i \in 1 .. n PROVE i \in 1 .. c - (k + 1) + 1 /\ k + 1 + i - 1 = k + i
      BY <1>3, Size
    <3> QED
      BY <3>1, <2>4
  <2> QED
    BY <2>3, <2>4, <2>5, <2>6, <1>7, <1>11, SameSeq
<1> QED
  BY <1>2, <1>3, <1>5, <1>6, <1>7, <1>10, <1>12

----------------------------------------------------------------------------
(* Lines.  The ends of the lines among the bytes h are a sequence e of the  *)
(* positions of '\0', ascending: what lies before the k-th and after the    *)
(* one before it is line k, what comes after the last is the draft.         *)

Marks(h, e) ==
  /\ h \in Seq(Byte) /\ e \in Seq(Nat)
  /\ \A k \in 1 .. Len(e) : e[k] \in 1 .. Len(h) /\ h[e[k]] = Zero
  /\ \A j, k \in 1 .. Len(e) : j < k => e[j] < e[k]
  /\ \A i \in 1 .. Len(h) : h[i] = Zero => \E k \in 1 .. Len(e) : e[k] = i

Cut(e, k)   == IF k = 0 THEN 0 ELSE e[k]
Line(h, e, k) == SubSeq(h, Cut(e, k - 1) + 1, Cut(e, k) - 1)
Lines(h, e) == [k \in 1 .. Len(e) |-> Line(h, e, k)]
Rest(h, e)  == SubSeq(h, Cut(e, Len(e)) + 1, Len(h))

(* The bytes m + 1 to n. *)
LEMMA SliceIs ==
  ASSUME NEW S, NEW h \in Seq(S), NEW m \in Nat, NEW n \in Nat, m <= n, n <= Len(h)
  PROVE  /\ SubSeq(h, m + 1, n) \in Seq(S) /\ Len(SubSeq(h, m + 1, n)) = n - m
         /\ \A i \in 1 .. n - m : SubSeq(h, m + 1, n)[i] = h[m + i]
<1>1. \A i \in m + 1 .. n : h[i] \in S
  OBVIOUS
<1>2. PICK t : t = SubSeq(h, m + 1, n)
  OBVIOUS
<1>3. /\ t \in Seq(S)
      /\ Len(t) = IF m + 1 <= n THEN n - (m + 1) + 1 ELSE 0
      /\ \A i \in 1 .. n - (m + 1) + 1 : t[i] = h[m + 1 + i - 1]
  BY <1>1, <1>2, m + 1 \in Int, n \in Int, SubSeqProperties
<1>4. Len(t) = n - m
  BY <1>3
<1>5. ASSUME NEW i \in 1 .. n - m PROVE t[i] = h[m + i]
  <2>1. i \in 1 .. n - (m + 1) + 1 /\ m + 1 + i - 1 = m + i
    OBVIOUS
  <2> QED
    BY <2>1, <1>3
<1> QED
  BY <1>2, <1>3, <1>4, <1>5

(* Slices of two sequences with the same entries there. *)
LEMMA SameSlice ==
  ASSUME NEW S, NEW g \in Seq(S), NEW h \in Seq(S), NEW m \in Nat, NEW n \in Nat, NEW z \in Nat,
         m <= n, n <= Len(g), z + n <= Len(h), \A i \in 1 .. n : i > m => g[i] = h[z + i]
  PROVE  SubSeq(g, m + 1, n) = SubSeq(h, z + m + 1, z + n)
<1>1. PICK t : t = SubSeq(g, m + 1, n)
  OBVIOUS
<1>2. PICK u : u = SubSeq(h, (z + m) + 1, z + n)
  OBVIOUS
<1>3. t \in Seq(S) /\ Len(t) = n - m /\ \A i \in 1 .. n - m : t[i] = g[m + i]
  BY <1>1, SliceIs
<1>4. u \in Seq(S) /\ Len(u) = (z + n) - (z + m) /\ \A i \in 1 .. (z + n) - (z + m) : u[i] = h[(z + m) + i]
  BY <1>2, z + m \in Nat, z + n \in Nat, z + m <= z + n, SliceIs
<1>5. ASSUME NEW i \in 1 .. n - m PROVE t[i] = u[i]
  <2>1. m + i \in 1 .. n /\ m + i > m /\ i \in 1 .. (z + n) - (z + m)
    OBVIOUS
  <2>2. t[i] = g[m + i] /\ u[i] = h[(z + m) + i] /\ g[m + i] = h[z + (m + i)]
    BY <2>1, <1>3, <1>4
  <2>3. (z + m) + i = z + (m + i)
    OBVIOUS
  <2> QED
    BY <2>2, <2>3
<1>6. Len(t) = Len(u)
  BY <1>3, <1>4
<1>7. t = u
  BY <1>3, <1>4, <1>5, <1>6, SameSeq
<1> QED
  BY <1>1, <1>2, <1>7

(* Where lines begin and end. *)
LEMMA CutIs ==
  ASSUME NEW h, NEW e, Marks(h, e)
  PROVE  /\ \A k \in 0 .. Len(e) : Cut(e, k) \in Nat /\ Cut(e, k) <= Len(h)
         /\ \A k \in 1 .. Len(e) : /\ Cut(e, k) - 1 \in Nat /\ Cut(e, k - 1) <= Cut(e, k) - 1
                                   /\ Cut(e, k) <= Cut(e, Len(e))
<1>1. /\ h \in Seq(Byte) /\ e \in Seq(Nat)
      /\ \A k \in 1 .. Len(e) : e[k] \in 1 .. Len(h)
      /\ \A j, k \in 1 .. Len(e) : j < k => e[j] < e[k]
  BY DEF Marks
<1>2. ASSUME NEW k \in 0 .. Len(e) PROVE Cut(e, k) \in Nat /\ Cut(e, k) <= Len(h)
  BY <1>1 DEF Cut
<1>3. ASSUME NEW k \in 1 .. Len(e)
      PROVE  /\ Cut(e, k) - 1 \in Nat /\ Cut(e, k - 1) <= Cut(e, k) - 1
             /\ Cut(e, k) <= Cut(e, Len(e))
  <2>1. e[k] \in Nat /\ e[k] >= 1 /\ Cut(e, k) = e[k]
    BY <1>1 DEF Cut
  <2>2. Cut(e, k - 1) < e[k]
    <3>1. CASE k = 1
      BY <3>1, <2>1 DEF Cut
    <3>2. CASE k # 1
      <4>1. k - 1 \in 1 .. Len(e) /\ k - 1 < k /\ Cut(e, k - 1) = e[k - 1]
        BY <3>2, <1>1 DEF Cut
      <4> QED
        BY <4>1, <1>1
    <3> QED
      BY <3>1, <3>2
  <2>3. e[k] <= Cut(e, Len(e))
    <3>1. Len(e) \in Nat /\ Len(e) \in 1 .. Len(e) /\ Cut(e, Len(e)) = e[Len(e)]
      BY <1>1 DEF Cut
    <3>2. k < Len(e) \/ k = Len(e)
      BY <1>1
    <3>3. e[k] \in Nat /\ e[Len(e)] \in Nat
      BY <1>1, <3>1
    <3> QED
      BY <3>1, <3>2, <3>3, <1>1
  <2>4. Cut(e, k - 1) \in Nat
    <3>1. k - 1 \in 0 .. Len(e)
      BY <1>1
    <3> QED
      BY <3>1, <1>2
  <2> QED
    BY <2>1, <2>2, <2>3, <2>4
<1> QED
  BY <1>2, <1>3

LEMMA LinesAre ==
  ASSUME NEW h, NEW e, Marks(h, e)
  PROVE  /\ Lines(h, e) \in Seq(Seq(Byte)) /\ Len(Lines(h, e)) = Len(e)
         /\ \A k \in 1 .. Len(e) :
              /\ Lines(h, e)[k] = SubSeq(h, Cut(e, k - 1) + 1, Cut(e, k) - 1)
              /\ Len(Lines(h, e)[k]) = Cut(e, k) - 1 - Cut(e, k - 1)
              /\ \A i \in 1 .. Cut(e, k) - 1 - Cut(e, k - 1) :
                   Lines(h, e)[k][i] = h[Cut(e, k - 1) + i]
         /\ Rest(h, e) \in Seq(Byte) /\ Len(Rest(h, e)) = Len(h) - Cut(e, Len(e))
         /\ \A i \in 1 .. Len(h) - Cut(e, Len(e)) : Rest(h, e)[i] = h[Cut(e, Len(e)) + i]
<1>1. h \in Seq(Byte) /\ e \in Seq(Nat) /\ Len(e) \in Nat /\ Len(h) \in Nat
  BY DEF Marks
<1>2. ASSUME NEW k \in 1 .. Len(e)
      PROVE  /\ SubSeq(h, Cut(e, k - 1) + 1, Cut(e, k) - 1) \in Seq(Byte)
             /\ Lines(h, e)[k] = SubSeq(h, Cut(e, k - 1) + 1, Cut(e, k) - 1)
             /\ Len(Lines(h, e)[k]) = Cut(e, k) - 1 - Cut(e, k - 1)
             /\ \A i \in 1 .. Cut(e, k) - 1 - Cut(e, k - 1) :
                  Lines(h, e)[k][i] = h[Cut(e, k - 1) + i]
  <2>1. k - 1 \in 0 .. Len(e) /\ k \in 0 .. Len(e)
    BY <1>1
  <2>2. PICK m \in Nat, n \in Nat :
          m = Cut(e, k - 1) /\ n = Cut(e, k) - 1 /\ m <= n /\ n <= Len(h)
    <3>1. Cut(e, k - 1) \in Nat /\ Cut(e, k) \in Nat /\ Cut(e, k) <= Len(h)
      BY <2>1, CutIs
    <3>2. Cut(e, k) - 1 \in Nat /\ Cut(e, k - 1) <= Cut(e, k) - 1
      BY CutIs
    <3> QED
      BY <3>1, <3>2, <1>1
  <2>3. Lines(h, e)[k] = SubSeq(h, m + 1, n)
    BY <2>2 DEF Lines, Line
  <2>4. /\ SubSeq(h, m + 1, n) \in Seq(Byte) /\ Len(SubSeq(h, m + 1, n)) = n - m
        /\ \A i \in 1 .. n - m : SubSeq(h, m + 1, n)[i] = h[m + i]
    BY SMTT(60), <1>1, <2>2, SliceIs
  <2> QED
    BY <2>2, <2>3, <2>4
<1>3. Lines(h, e) \in Seq(Seq(Byte)) /\ Len(Lines(h, e)) = Len(e)
  <2>1. Lines(h, e) \in [1 .. Len(e) -> Seq(Byte)]
    BY <1>2 DEF Lines, Line
  <2> QED
    BY SMTT(60), <2>1, <1>1
<1>4. /\ Rest(h, e) \in Seq(Byte) /\ Len(Rest(h, e)) = Len(h) - Cut(e, Len(e))
      /\ \A i \in 1 .. Len(h) - Cut(e, Len(e)) : Rest(h, e)[i] = h[Cut(e, Len(e)) + i]
  <2>1. PICK m \in Nat, n \in Nat : m = Cut(e, Len(e)) /\ n = Len(h) /\ m <= n
    <3>1. Len(e) \in 0 .. Len(e)
      BY <1>1
    <3>2. Cut(e, Len(e)) \in Nat /\ Cut(e, Len(e)) <= Len(h)
      BY <3>1, CutIs
    <3> QED
      BY <1>1, <3>2
  <2>2. Rest(h, e) = SubSeq(h, m + 1, n)
    BY <2>1 DEF Rest
  <2>3. /\ SubSeq(h, m + 1, n) \in Seq(Byte) /\ Len(SubSeq(h, m + 1, n)) = n - m
        /\ \A i \in 1 .. n - m : SubSeq(h, m + 1, n)[i] = h[m + i]
    <3>1. n <= Len(h) /\ m <= n
      BY <2>1
    <3>2. h \in Seq(Byte) /\ m \in Nat /\ n \in Nat
      BY <1>1
    <3> QED
      BY ONLY <3>1, <3>2, SliceIs
  <2> QED
    BY <2>1, <2>2, <2>3
<1> QED
  BY <1>2, <1>3, <1>4

LEMMA SameStart ==
  ASSUME NEW S, NEW g \in Seq(S), NEW h \in Seq(S), NEW m \in Nat, NEW n \in Nat,
         m <= n, n <= Len(g), n <= Len(h), \A i \in 1 .. n : g[i] = h[i]
  PROVE  SubSeq(g, m + 1, n) = SubSeq(h, m + 1, n)
<1>1. 0 \in Nat /\ 0 + n <= Len(h) /\ 0 + m + 1 = m + 1 /\ 0 + n = n
  OBVIOUS
<1>2. \A i \in 1 .. n : i > m => g[i] = h[0 + i]
  OBVIOUS
<1>3. SubSeq(g, m + 1, n) = SubSeq(h, 0 + m + 1, 0 + n)
  BY <1>1, <1>2, SameSlice
<1> QED
  BY <1>1, <1>3

(* Lines do not change with what comes after them. *)
LEMMA SameLine ==
  ASSUME NEW h, NEW g, NEW e, Marks(h, e), g \in Seq(Byte), Cut(e, Len(e)) <= Len(g),
         \A i \in 1 .. Cut(e, Len(e)) : g[i] = h[i], NEW k \in 1 .. Len(e)
  PROVE  Line(g, e, k) = Line(h, e, k)
<1>1. PICK m \in Nat, n \in Nat, c \in Nat :
        m = Cut(e, k - 1) /\ n = Cut(e, k) - 1 /\ c = Cut(e, Len(e)) /\ m <= n /\ n < c /\ c <= Len(h)
  <2>1. Len(e) \in Nat /\ k - 1 \in 0 .. Len(e) /\ k \in 0 .. Len(e) /\ Len(e) \in 0 .. Len(e)
    BY DEF Marks
  <2>2. Cut(e, k - 1) \in Nat /\ Cut(e, k) \in Nat /\ Cut(e, Len(e)) \in Nat /\ Cut(e, Len(e)) <= Len(h)
    BY <2>1, CutIs
  <2>3. Cut(e, k) - 1 \in Nat /\ Cut(e, k - 1) <= Cut(e, k) - 1 /\ Cut(e, k) <= Cut(e, Len(e))
    BY CutIs
  <2> QED
    BY <2>2, <2>3
<1>2. g \in Seq(Byte) /\ h \in Seq(Byte) /\ Len(g) \in Nat /\ Len(h) \in Nat
  BY DEF Marks
<1>3. m <= n /\ n <= Len(g) /\ n <= Len(h) /\ \A i \in 1 .. n : g[i] = h[i]
  BY <1>1, <1>2
<1>4. SubSeq(g, m + 1, n) = SubSeq(h, m + 1, n)
  BY ONLY <1>2, <1>3, m \in Nat, n \in Nat, SameStart
<1> QED
  BY <1>1, <1>4 DEF Line

LEMMA SameLines ==
  ASSUME NEW h, NEW g, NEW e, Marks(h, e), g \in Seq(Byte), Cut(e, Len(e)) <= Len(g),
         \A i \in 1 .. Cut(e, Len(e)) : g[i] = h[i]
  PROVE  Lines(g, e) = Lines(h, e)
<1>1. ASSUME NEW k \in 1 .. Len(e) PROVE Line(g, e, k) = Line(h, e, k)
  BY SameLine
<1> QED
  BY <1>1 DEF Lines, Line

LEMMA AppendIs ==
  ASSUME NEW S, NEW h \in Seq(S), NEW ch \in S
  PROVE  /\ Append(h, ch) \in Seq(S) /\ Len(Append(h, ch)) = Len(h) + 1
         /\ Append(h, ch)[Len(h) + 1] = ch
         /\ \A i \in 1 .. Len(h) : Append(h, ch)[i] = h[i]
BY AppendProperties

LEMMA TypeLines ==
  ASSUME NEW h, NEW e, Marks(h, e), NEW ch \in Byte, ch # Zero
  PROVE  /\ Marks(Append(h, ch), e) /\ Lines(Append(h, ch), e) = Lines(h, e)
         /\ Rest(Append(h, ch), e) = Append(Rest(h, e), ch)
<1>1. PICK n \in Nat, c \in Nat : n = Len(h) /\ c = Cut(e, Len(e)) /\ c <= n
  <2>1. Len(e) \in 0 .. Len(e) /\ Len(h) \in Nat
    BY DEF Marks
  <2> QED
    BY <2>1, CutIs
<1>2. h \in Seq(Byte)
  BY DEF Marks
<1>3. PICK g : g = Append(h, ch)
  OBVIOUS
<1>4. g \in Seq(Byte) /\ Len(g) = n + 1 /\ g[n + 1] = ch /\ \A i \in 1 .. n : g[i] = h[i]
  BY <1>1, <1>2, <1>3, AppendIs
<1>5. Marks(g, e)
  <2>1. /\ e \in Seq(Nat)
        /\ \A k \in 1 .. Len(e) : e[k] \in 1 .. n /\ h[e[k]] = Zero
        /\ \A j, k \in 1 .. Len(e) : j < k => e[j] < e[k]
        /\ \A i \in 1 .. n : h[i] = Zero => \E k \in 1 .. Len(e) : e[k] = i
    BY <1>1 DEF Marks
  <2>2. \A k \in 1 .. Len(e) : e[k] \in 1 .. n + 1 /\ g[e[k]] = Zero
    BY <2>1, <1>4
  <2>3. ASSUME NEW i \in 1 .. n + 1, g[i] = Zero PROVE \E k \in 1 .. Len(e) : e[k] = i
    <3>1. i # n + 1
      BY <2>3, <1>4
    <3>2. i \in 1 .. n /\ h[i] = Zero
      BY <3>1, <2>3, <1>4
    <3> QED
      BY <3>2, <2>1
  <2> QED
    BY <1>4, <2>1, <2>2, <2>3 DEF Marks
<1>6. Lines(g, e) = Lines(h, e)
  <2>1. Cut(e, Len(e)) <= Len(g) /\ \A i \in 1 .. Cut(e, Len(e)) : g[i] = h[i]
    BY <1>1, <1>4
  <2> QED
    BY <2>1, <1>4, SameLines
<1>7. Rest(g, e) = Append(Rest(h, e), ch)
  <2>1. PICK d \in Seq(Byte) : d = Rest(h, e) /\ Len(d) = n - c /\ \A i \in 1 .. n - c : d[i] = h[c + i]
    BY SMTT(60), <1>1, LinesAre
  <2>2. PICK f \in Seq(Byte) :
          f = Rest(g, e) /\ Len(f) = n + 1 - c /\ \A i \in 1 .. n + 1 - c : f[i] = g[c + i]
    <3>1. PICK m : m = n + 1 - c /\ m = Len(g) - Cut(e, Len(e))
      BY <1>1, <1>4
    <3>2. /\ Rest(g, e) \in Seq(Byte) /\ Len(Rest(g, e)) = Len(g) - Cut(e, Len(e))
          /\ \A i \in 1 .. Len(g) - Cut(e, Len(e)) : Rest(g, e)[i] = g[Cut(e, Len(e)) + i]
      BY ONLY <1>5, LinesAre
    <3>3. PICK f : f = Rest(g, e)
      OBVIOUS
    <3>4. f \in Seq(Byte) /\ Len(f) = m
      BY <3>1, <3>2, <3>3
    <3>5. \A i \in 1 .. m : f[i] = g[c + i]
      BY <3>1, <3>2, <3>3, <1>1
    <3> QED
      BY <3>1, <3>3, <3>4, <3>5
  <2>3. PICK k \in Seq(Byte) :
          k = Append(d, ch) /\ Len(k) = n - c + 1 /\ k[n - c + 1] = ch /\ \A i \in 1 .. n - c : k[i] = d[i]
    <3>1. PICK k : k = Append(d, ch)
      OBVIOUS
    <3>2. k \in Seq(Byte) /\ Len(k) = Len(d) + 1 /\ k[Len(d) + 1] = ch /\ \A i \in 1 .. Len(d) : k[i] = d[i]
      BY <3>1, AppendIs
    <3>3. Len(d) = n - c
      BY <2>1
    <3> QED
      BY <3>1, <3>2, <3>3
  <2>4. ASSUME NEW i \in 1 .. n + 1 - c PROVE f[i] = k[i]
    <3>1. CASE i = n - c + 1
      <4>1. c + i = n + 1
        BY SMTT(60), <3>1, <1>1
      <4> QED
        BY <3>1, <4>1, <2>2, <2>3, <1>4
    <3>2. CASE i # n - c + 1
      <4>1. i \in 1 .. n - c /\ c + i \in 1 .. n
        BY SMTT(60), <3>2, <1>1
      <4> QED
        BY SMTT(60), <4>1, <2>1, <2>2, <2>3, <1>4
    <3> QED
      BY <3>1, <3>2
  <2>5. Len(f) = Len(k)
    BY <2>2, <2>3, <1>1
  <2> QED
    BY <2>1, <2>2, <2>3, <2>4, <2>5, SameSeq
<1> QED
  BY <1>3, <1>5, <1>6, <1>7

LEMMA EraseLines ==
  ASSUME NEW h, NEW e, Marks(h, e), Len(h) > 0, h[Len(h)] # Zero
  PROVE  /\ Marks(SubSeq(h, 1, Len(h) - 1), e)
         /\ Lines(SubSeq(h, 1, Len(h) - 1), e) = Lines(h, e)
         /\ Rest(h, e) # <<>> /\ Rest(SubSeq(h, 1, Len(h) - 1), e) = Front(Rest(h, e))
<1>1. PICK n \in Nat, c \in Nat : n + 1 = Len(h) /\ c = Cut(e, Len(e)) /\ c <= n
  <2>1. Len(e) \in 0 .. Len(e) /\ Len(e) \in Nat /\ Len(h) \in Nat
    BY DEF Marks
  <2>2. Cut(e, Len(e)) \in Nat /\ Cut(e, Len(e)) <= Len(h)
    BY <2>1, CutIs
  <2>3. Cut(e, Len(e)) # Len(h)
    <3>1. CASE Len(e) = 0
      BY <3>1 DEF Cut
    <3>2. CASE Len(e) # 0
      <4>1. Len(e) \in 1 .. Len(e) /\ Cut(e, Len(e)) = e[Len(e)]
        BY <3>2, <2>1 DEF Cut
      <4>2. h[e[Len(e)]] = Zero
        BY <4>1 DEF Marks
      <4> QED
        BY <4>1, <4>2
    <3> QED
      BY <3>1, <3>2
  <2>4. Len(h) - 1 \in Nat
    BY <2>1
  <2> QED
    BY <2>1, <2>2, <2>3, <2>4
<1>2. h \in Seq(Byte) /\ Len(h) - 1 = n
  BY <1>1 DEF Marks
<1>3. PICK g : g = SubSeq(h, 1, n)
  OBVIOUS
<1>4. g \in Seq(Byte) /\ Len(g) = n /\ \A i \in 1 .. n : g[i] = h[i]
  <2>1. 0 + 1 = 1 /\ 0 \in Nat /\ 0 <= n /\ n <= Len(h) /\ n - 0 = n /\ \A i \in 1 .. n : 0 + i = i
    BY <1>1
  <2>2. /\ SubSeq(h, 0 + 1, n) \in Seq(Byte) /\ Len(SubSeq(h, 0 + 1, n)) = n - 0
        /\ \A i \in 1 .. n - 0 : SubSeq(h, 0 + 1, n)[i] = h[0 + i]
    BY ONLY <2>1, <1>2, n \in Nat, SliceIs
  <2> QED
    BY <2>1, <2>2, <1>3
<1>5. Marks(g, e)
  <2>1. /\ e \in Seq(Nat)
        /\ \A k \in 1 .. Len(e) : e[k] \in 1 .. n + 1 /\ h[e[k]] = Zero
        /\ \A j, k \in 1 .. Len(e) : j < k => e[j] < e[k]
        /\ \A i \in 1 .. n + 1 : h[i] = Zero => \E k \in 1 .. Len(e) : e[k] = i
    BY <1>1 DEF Marks
  <2>2. ASSUME NEW k \in 1 .. Len(e) PROVE e[k] \in 1 .. n /\ g[e[k]] = Zero
    <3>1. e[k] \in 1 .. n + 1 /\ h[e[k]] = Zero /\ h[n + 1] # Zero
      BY <2>1, <1>1
    <3>2. e[k] # n + 1
      BY <3>1
    <3>3. e[k] \in 1 .. n
      BY <3>1, <3>2
    <3> QED
      BY <3>1, <3>3, <1>4
  <2>3. ASSUME NEW i \in 1 .. n, g[i] = Zero PROVE \E k \in 1 .. Len(e) : e[k] = i
    <3>1. i \in 1 .. n + 1 /\ h[i] = Zero
      BY <2>3, <1>4
    <3> QED
      BY <3>1, <2>1
  <2> QED
    BY <1>4, <2>1, <2>2, <2>3 DEF Marks
<1>6. Lines(g, e) = Lines(h, e)
  <2>1. Cut(e, Len(e)) <= Len(g) /\ \A i \in 1 .. Cut(e, Len(e)) : g[i] = h[i]
    BY <1>1, <1>4
  <2> QED
    BY <2>1, <1>4, SameLines
<1>7. Rest(h, e) # <<>> /\ Rest(g, e) = Front(Rest(h, e))
  <2>1. PICK d \in Seq(Byte) :
          d = Rest(h, e) /\ Len(d) = n + 1 - c /\ \A i \in 1 .. n + 1 - c : d[i] = h[c + i]
    BY SMTT(60), <1>1, LinesAre
  <2>2. PICK f \in Seq(Byte) :
          f = Rest(g, e) /\ Len(f) = n - c /\ \A i \in 1 .. n - c : f[i] = g[c + i]
    <3>1. PICK m : m = n - c /\ m = Len(g) - Cut(e, Len(e))
      BY <1>1, <1>4
    <3>2. /\ Rest(g, e) \in Seq(Byte) /\ Len(Rest(g, e)) = Len(g) - Cut(e, Len(e))
          /\ \A i \in 1 .. Len(g) - Cut(e, Len(e)) : Rest(g, e)[i] = g[Cut(e, Len(e)) + i]
      BY ONLY <1>5, LinesAre
    <3> QED
      BY ONLY ZenonT(60), <3>1, <3>2, <1>1
  <2>3. PICK l \in Nat : l = n - c /\ Len(d) = l + 1 /\ Len(f) = l
    BY <1>1, <2>1, <2>2
  <2>4. PICK k : k = SubSeq(d, 0 + 1, l)
    OBVIOUS
  <2>5. k \in Seq(Byte) /\ Len(k) = l - 0 /\ \A i \in 1 .. l - 0 : k[i] = d[0 + i]
    <3>1. 0 \in Nat /\ 0 <= l /\ l <= Len(d) /\ l \in Nat /\ d \in Seq(Byte)
      BY <2>3
    <3> QED
      BY ONLY <3>1, <2>4, SliceIs
  <2>6. ASSUME NEW i \in 1 .. l PROVE f[i] = k[i]
    <3>1. c + i \in 1 .. n /\ i \in 1 .. n - c /\ i \in 1 .. n + 1 - c /\ i \in 1 .. l - 0 /\ 0 + i = i
      BY SMTT(60), <1>1, <2>3
    <3>2. f[i] = g[c + i] /\ g[c + i] = h[c + i] /\ d[i] = h[c + i]
      BY <3>1, <2>1, <2>2, <1>4
    <3>3. k[i] = d[0 + i] /\ d[0 + i] = d[i]
      BY <3>1, <2>5
    <3> QED
      BY <3>2, <3>3
  <2>7. Len(f) = Len(k)
    BY <2>3, <2>5
  <2>8. f = k
    BY <2>2, <2>3, <2>5, <2>6, <2>7, SameSeq
  <2>9. k = Front(d)
    BY <2>3, <2>4 DEF Front
  <2>10. d # <<>>
    BY <2>3
  <2> QED
    BY <2>1, <2>2, <2>8, <2>9, <2>10
<1> QED
  BY <1>2, <1>3, <1>5, <1>6, <1>7

(* A '\0' at the end makes the draft a line. *)
LEMMA EndLine ==
  ASSUME NEW h, NEW e, Marks(h, e)
  PROVE  /\ Marks(Append(h, Zero), Append(e, Len(h) + 1))
         /\ Lines(Append(h, Zero), Append(e, Len(h) + 1)) = Append(Lines(h, e), Rest(h, e))
         /\ Rest(Append(h, Zero), Append(e, Len(h) + 1)) = <<>>
<1>1. PICK n \in Nat, l \in Nat, c \in Nat : n = Len(h) /\ l = Len(e) /\ c = Cut(e, Len(e)) /\ c <= n
  <2>1. Len(e) \in 0 .. Len(e) /\ Len(e) \in Nat /\ Len(h) \in Nat
    BY DEF Marks
  <2> QED
    BY <2>1, CutIs
<1>2. /\ h \in Seq(Byte) /\ e \in Seq(Nat)
      /\ \A k \in 1 .. l : e[k] \in 1 .. n /\ h[e[k]] = Zero
      /\ \A j, k \in 1 .. l : j < k => e[j] < e[k]
      /\ \A i \in 1 .. n : h[i] = Zero => \E k \in 1 .. l : e[k] = i
  BY <1>1 DEF Marks
<1>3. PICK g \in Seq(Byte) :
        g = Append(h, Zero) /\ Len(g) = n + 1 /\ g[n + 1] = Zero /\ \A i \in 1 .. n : g[i] = h[i]
  <2>1. Zero \in Byte
    BY DEF Byte
  <2>2. PICK g : g = Append(h, Zero)
    OBVIOUS
  <2>3. g \in Seq(Byte) /\ Len(g) = Len(h) + 1 /\ g[Len(h) + 1] = Zero /\ \A i \in 1 .. Len(h) : g[i] = h[i]
    BY <2>1, <2>2, <1>2, AppendIs
  <2> QED
    BY <2>2, <2>3, <1>1
<1>4. PICK f \in Seq(Nat) :
        f = Append(e, Len(h) + 1) /\ Len(f) = l + 1 /\ f[l + 1] = n + 1 /\ \A k \in 1 .. l : f[k] = e[k]
  <2>1. PICK z \in Nat : z = Len(h) + 1 /\ z = n + 1
    BY <1>1
  <2>2. PICK f : f = Append(e, z)
    OBVIOUS
  <2>3. f \in Seq(Nat) /\ Len(f) = Len(e) + 1 /\ f[Len(e) + 1] = z /\ \A i \in 1 .. Len(e) : f[i] = e[i]
    BY <2>2, <1>2, AppendIs
  <2> QED
    BY <2>1, <2>2, <2>3, <1>1
<1>5. Marks(g, f)
  <2>1. ASSUME NEW k \in 1 .. l + 1 PROVE f[k] \in 1 .. n + 1 /\ g[f[k]] = Zero
    <3>1. CASE k = l + 1
      BY <3>1, <1>3, <1>4
    <3>2. CASE k # l + 1
      <4>1. k \in 1 .. l
        BY <3>2
      <4>2. f[k] = e[k] /\ e[k] \in 1 .. n /\ h[e[k]] = Zero
        BY <4>1, <1>2, <1>4
      <4> QED
        BY <4>2, <1>3
    <3> QED
      BY <3>1, <3>2
  <2>2. ASSUME NEW j \in 1 .. l + 1, NEW k \in 1 .. l + 1, j < k PROVE f[j] < f[k]
    <3>1. j \in 1 .. l /\ f[j] = e[j] /\ e[j] \in 1 .. n
      BY <2>2, <1>2, <1>4
    <3>2. CASE k = l + 1
      BY <3>1, <3>2, <1>4
    <3>3. CASE k # l + 1
      <4>1. k \in 1 .. l
        BY <3>3
      <4> QED
        BY <4>1, <3>1, <2>2, <1>2, <1>4
    <3> QED
      BY <3>2, <3>3
  <2>3. ASSUME NEW i \in 1 .. n + 1, g[i] = Zero PROVE \E k \in 1 .. l + 1 : f[k] = i
    <3>1. CASE i = n + 1
      <4>1. l + 1 \in 1 .. l + 1 /\ f[l + 1] = i
        BY <3>1, <1>4
      <4> QED
        BY <4>1
    <3>2. CASE i # n + 1
      <4>1. i \in 1 .. n /\ h[i] = Zero
        BY <3>2, <2>3, <1>3
      <4>2. PICK k \in 1 .. l : e[k] = i
        BY <4>1, <1>2
      <4>3. k \in 1 .. l + 1 /\ f[k] = i
        BY <4>2, <1>4
      <4> QED
        BY <4>3
    <3> QED
      BY <3>1, <3>2
  <2> QED
    BY <1>3, <1>4, <2>1, <2>2, <2>3 DEF Marks
<1>6. \A k \in 0 .. l : Cut(f, k) = Cut(e, k)
  BY <1>4 DEF Cut
<1>7. Cut(f, l + 1) = n + 1 /\ Cut(f, Len(f)) = n + 1
  BY <1>4 DEF Cut
<1>8. PICK d \in Seq(Byte) : d = Rest(h, e) /\ d = SubSeq(h, c + 1, n)
  BY <1>1, LinesAre DEF Rest
<1>9. Lines(g, f) = Append(Lines(h, e), d)
  <2>1. PICK x \in Seq(Seq(Byte)) : x = Lines(h, e) /\ Len(x) = l
    BY <1>1, LinesAre
  <2>2. PICK y \in Seq(Seq(Byte)) : y = Lines(g, f) /\ Len(y) = l + 1
    <3>1. Lines(g, f) \in Seq(Seq(Byte)) /\ Len(Lines(g, f)) = Len(f)
      BY ONLY <1>5, LinesAre
    <3> QED
      BY <3>1, <1>4
  <2>3. PICK z \in Seq(Seq(Byte)) :
          z = Append(x, d) /\ Len(z) = l + 1 /\ z[l + 1] = d /\ \A i \in 1 .. l : z[i] = x[i]
    <3>1. PICK z : z = Append(x, d)
      OBVIOUS
    <3>2. z \in Seq(Seq(Byte)) /\ Len(z) = Len(x) + 1 /\ z[Len(x) + 1] = d /\ \A i \in 1 .. Len(x) : z[i] = x[i]
      BY <3>1, AppendIs
    <3> QED
      BY <3>1, <3>2, <2>1
  <2>4. ASSUME NEW k \in 1 .. l PROVE y[k] = z[k]
    <3>1. k - 1 \in 0 .. l /\ k \in 0 .. l /\ k \in 1 .. Len(f) /\ k \in 1 .. Len(e)
      BY <1>1, <1>4
    <3>2. y[k] = Line(g, f, k) /\ Line(g, f, k) = Line(g, e, k)
      BY <3>1, <2>2, <1>6 DEF Lines, Line
    <3>3. x[k] = Line(h, e, k)
      BY <3>1, <2>1 DEF Lines, Line
    <3>4. Cut(e, Len(e)) <= Len(g) /\ \A i \in 1 .. Cut(e, Len(e)) : g[i] = h[i]
      BY <1>1, <1>3
    <3>5. Line(g, e, k) = Line(h, e, k)
      <4>1. Lines(g, e) = Lines(h, e)
        BY <3>4, SameLines
      <4>2. Lines(g, e)[k] = Line(g, e, k) /\ Lines(h, e)[k] = Line(h, e, k)
        BY <3>1 DEF Lines
      <4> QED
        BY <4>1, <4>2
    <3> QED
      BY <3>2, <3>3, <3>5, <2>3
  <2>5. y[l + 1] = d
    <3>1. l + 1 \in 1 .. Len(f) /\ (l + 1) - 1 = l /\ l \in 0 .. l /\ (n + 1) - 1 = n
      BY <1>4
    <3>2. y[l + 1] = SubSeq(g, Cut(f, (l + 1) - 1) + 1, Cut(f, l + 1) - 1)
      BY <3>1, <2>2 DEF Lines, Line
    <3>3. y[l + 1] = SubSeq(g, c + 1, n)
      BY <3>1, <3>2, <1>1, <1>6, <1>7
    <3>4. SubSeq(g, c + 1, n) = SubSeq(h, c + 1, n)
      <4>1. g \in Seq(Byte) /\ h \in Seq(Byte) /\ c <= n /\ n <= Len(g) /\ n <= Len(h)
            /\ \A i \in 1 .. n : g[i] = h[i]
        BY <1>1, <1>2, <1>3
      <4> QED
        BY ONLY <4>1, c \in Nat, n \in Nat, SameStart
    <3> QED
      BY <3>3, <3>4, <1>8
  <2>6. \A k \in 1 .. l + 1 : y[k] = z[k]
    BY <2>3, <2>4, <2>5
  <2>7. y = z
    BY <2>2, <2>3, <2>6, SameSeq
  <2> QED
    BY <2>1, <2>2, <2>3, <2>7
<1>10. Rest(g, f) = <<>>
  <2>1. Rest(g, f) \in Seq(Byte) /\ Len(Rest(g, f)) = Len(g) - Cut(f, Len(f))
    BY ONLY <1>5, LinesAre
  <2>2. Len(Rest(g, f)) = 0
    BY <2>1, <1>3, <1>7
  <2> QED
    BY <2>1, <2>2
<1> QED
  BY <1>3, <1>4, <1>5, <1>8, <1>9, <1>10

(* Without its first line, the ends of the others are as many bytes nearer. *)
Later(e) == [k \in 1 .. Len(e) - 1 |-> e[k + 1] - e[1]]

LEMMA DropLine ==
  ASSUME NEW h, NEW e, Marks(h, e), Len(e) > 0
  PROVE  /\ Marks(SubSeq(h, e[1] + 1, Len(h)), Later(e)) /\ Len(Later(e)) = Len(e) - 1
         /\ Lines(SubSeq(h, e[1] + 1, Len(h)), Later(e)) = Tail(Lines(h, e))
         /\ Rest(SubSeq(h, e[1] + 1, Len(h)), Later(e)) = Rest(h, e)
<1>1. PICK n \in Nat, l \in Nat : n = Len(h) /\ Len(e) = l + 1
  <2>1. Len(h) \in Nat /\ Len(e) \in Nat
    BY DEF Marks
  <2>2. Len(e) - 1 \in Nat /\ Len(e) = (Len(e) - 1) + 1
    BY <2>1
  <2> QED
    BY <2>1, <2>2
<1>2. /\ h \in Seq(Byte) /\ e \in Seq(Nat)
      /\ \A k \in 1 .. l + 1 : e[k] \in 1 .. n /\ h[e[k]] = Zero
      /\ \A j, k \in 1 .. l + 1 : j < k => e[j] < e[k]
      /\ \A i \in 1 .. n : h[i] = Zero => \E k \in 1 .. l + 1 : e[k] = i
  BY <1>1 DEF Marks
<1>3. PICK z \in Nat : z = e[1] /\ z >= 1 /\ z <= n
  <2>1. 1 \in 1 .. l + 1
    OBVIOUS
  <2> QED
    BY <2>1, <1>2
<1>4. PICK g \in Seq(Byte) :
        g = SubSeq(h, e[1] + 1, Len(h)) /\ Len(g) = n - z /\ \A i \in 1 .. n - z : g[i] = h[z + i]
  <2>1. h \in Seq(Byte) /\ z <= n /\ n <= Len(h) /\ z \in Nat /\ n \in Nat
    BY <1>1, <1>2, <1>3
  <2>2. /\ SubSeq(h, z + 1, n) \in Seq(Byte) /\ Len(SubSeq(h, z + 1, n)) = n - z
        /\ \A i \in 1 .. n - z : SubSeq(h, z + 1, n)[i] = h[z + i]
    BY ONLY <2>1, SliceIs
  <2> QED
    BY <2>2, <1>1, <1>3
<1>5. \A k \in 1 .. l : k + 1 \in 1 .. l + 1 /\ e[k + 1] \in 1 .. n /\ e[k + 1] > z /\ e[k + 1] - z \in Nat
  <2>1. ASSUME NEW k \in 1 .. l PROVE k + 1 \in 1 .. l + 1 /\ e[k + 1] \in 1 .. n /\ e[k + 1] > z
    <3>1. k + 1 \in 1 .. l + 1 /\ 1 \in 1 .. l + 1 /\ 1 < k + 1
      OBVIOUS
    <3> QED
      BY <3>1, <1>2, <1>3
  <2>2. ASSUME NEW k \in 1 .. l PROVE e[k + 1] - z \in Nat
    BY <2>1
  <2> QED
    BY <2>1, <2>2
<1>6. PICK f \in Seq(Nat) :
        f = Later(e) /\ Len(f) = l /\ \A k \in 1 .. l : f[k] = e[k + 1] - z
  <2>1. Later(e) = [k \in 1 .. l |-> e[k + 1] - z]
    BY <1>1, <1>3 DEF Later
  <2>2. PICK f : f = [k \in 1 .. l |-> e[k + 1] - z]
    OBVIOUS
  <2>3. f \in [1 .. l -> Nat]
    BY <2>2, <1>5
  <2>4. f \in Seq(Nat) /\ Len(f) = l
    BY <2>3
  <2> QED
    BY <2>1, <2>2, <2>4
<1>7. Marks(g, f)
  <2>1. ASSUME NEW k \in 1 .. l PROVE f[k] \in 1 .. n - z /\ g[f[k]] = Zero
    <3>1. PICK i \in Nat : i = e[k + 1] - z /\ i \in 1 .. n - z /\ z + i = e[k + 1] /\ f[k] = i
      <4>1. PICK m \in Nat : m = e[k + 1] /\ m <= n /\ m > z
        BY <1>5
      <4>2. m - z \in Nat /\ m - z \in 1 .. n - z /\ z + (m - z) = m
        BY SMTT(60), <4>1, <1>3
      <4> QED
        BY <4>1, <4>2, <1>6
    <3>2. k + 1 \in 1 .. l + 1
      BY <1>5
    <3>3. h[e[k + 1]] = Zero
      BY <3>2, <1>2
    <3>4. g[i] = h[z + i]
      BY <3>1, <1>4
    <3> QED
      BY <3>1, <3>3, <3>4
  <2>2. ASSUME NEW j \in 1 .. l, NEW k \in 1 .. l, j < k PROVE f[j] < f[k]
    <3>1. j + 1 \in 1 .. l + 1 /\ k + 1 \in 1 .. l + 1 /\ j + 1 < k + 1
      BY <2>2
    <3>2. e[j + 1] < e[k + 1] /\ e[j + 1] \in Nat /\ e[k + 1] \in Nat
      BY SMTT(60), <3>1, <1>2
    <3> QED
      BY SMTT(60), <3>2, <1>6
  <2>3. ASSUME NEW i \in 1 .. n - z, g[i] = Zero PROVE \E k \in 1 .. l : f[k] = i
    <3>1. z + i \in 1 .. n /\ h[z + i] = Zero
      <4>1. i \in Nat /\ i >= 1 /\ i <= n - z
        BY <1>3
      <4>2. g[i] = h[z + i]
        BY <1>4
      <4> QED
        BY <4>1, <4>2, <2>3, <1>3
    <3>2. PICK m \in 1 .. l + 1 : e[m] = z + i
      BY <3>1, <1>2
    <3>3. m # 1
      BY SMTT(60), <3>2, <1>3
    <3>4. PICK k \in 1 .. l : k + 1 = m
      <4>1. m - 1 \in 1 .. l /\ (m - 1) + 1 = m
        BY <3>3
      <4> QED
        BY <4>1
    <3>5. f[k] = i
      BY <3>2, <3>4, <1>6
    <3> QED
      BY <3>5
  <2> QED
    BY <1>4, <1>6, <2>1, <2>2, <2>3 DEF Marks
<1>8. \A k \in 0 .. l : Cut(e, k + 1) \in Nat /\ Cut(e, k + 1) = z + Cut(f, k) /\ Cut(f, k) \in Nat
  <2>1. ASSUME NEW k \in 0 .. l
        PROVE  Cut(e, k + 1) \in Nat /\ Cut(e, k + 1) = z + Cut(f, k) /\ Cut(f, k) \in Nat
    <3>1. CASE k = 0
      BY <3>1, <1>3 DEF Cut
    <3>2. CASE k # 0
      <4>1. k \in 1 .. l /\ k + 1 # 0 /\ Cut(e, k + 1) = e[k + 1] /\ Cut(f, k) = f[k]
        BY <3>2 DEF Cut
      <4> QED
        BY SMTT(60), <4>1, <1>5, <1>6
    <3> QED
      BY <3>1, <3>2
  <2> QED
    BY <2>1
<1>9. \A i \in 1 .. n - z : g[i] = h[z + i]
  BY <1>4
<1>10. Lines(g, f) = Tail(Lines(h, e))
  <2>1. PICK x \in Seq(Seq(Byte)) : x = Lines(h, e) /\ Len(x) = l + 1
    BY <1>1, LinesAre
  <2>2. PICK y \in Seq(Seq(Byte)) : y = Lines(g, f) /\ Len(y) = l
    <3>1. Lines(g, f) \in Seq(Seq(Byte)) /\ Len(Lines(g, f)) = Len(f)
      BY ONLY <1>7, LinesAre
    <3> QED
      BY <3>1, <1>6
  <2>3. PICK t \in Seq(Seq(Byte)) : t = Tail(x) /\ Len(t) = l /\ \A i \in 1 .. l : t[i] = x[i + 1]
    <3>1. x # <<>>
      BY <2>1
    <3>2. PICK t : t = Tail(x)
      OBVIOUS
    <3>3. t \in Seq(Seq(Byte)) /\ Len(t) = Len(x) - 1 /\ \A i \in 1 .. Len(t) : t[i] = x[i + 1]
      BY <3>1, <3>2, HeadTailProperties
    <3>4. Len(t) = l
      BY <3>3, <2>1
    <3> QED
      BY <3>2, <3>3, <3>4
  <2>4. ASSUME NEW k \in 1 .. l PROVE y[k] = t[k]
    <3>1. k - 1 \in 0 .. l /\ k \in 0 .. l /\ k \in 1 .. Len(f) /\ k + 1 \in 1 .. Len(e) /\ (k - 1) + 1 = k
          /\ (k + 1) - 1 = k
      BY <1>1, <1>6
    <3>2. PICK a \in Nat, b \in Nat : a = Cut(f, k - 1) /\ b = Cut(f, k) - 1 /\ a <= b /\ b <= Len(g)
      <4>1. Cut(f, k) - 1 \in Nat /\ Cut(f, k - 1) <= Cut(f, k) - 1
        BY ONLY <1>7, <3>1, CutIs
      <4>2. Cut(f, k) \in Nat /\ Cut(f, k - 1) \in Nat /\ Cut(f, k) <= Len(g)
        <5>1. k - 1 \in 0 .. Len(f) /\ k \in 0 .. Len(f)
          BY <3>1, <1>6
        <5> QED
          BY ONLY <1>7, <5>1, CutIs
      <4>3. Len(g) \in Nat
        BY SMTT(60), <1>4
      <4> QED
        BY <4>1, <4>2, <4>3
    <3>3. Cut(e, k) = z + a /\ Cut(e, k + 1) - 1 = z + b
      <4>1. Cut(e, k) = z + Cut(f, k - 1) /\ Cut(e, k + 1) = z + Cut(f, k) /\ Cut(f, k) \in Nat
        BY <3>1, <1>8
      <4> QED
        BY SMTT(60), <4>1, <3>2
    <3>4. y[k] = SubSeq(g, a + 1, b)
      BY <3>1, <3>2, <2>2 DEF Lines, Line
    <3>5. x[k + 1] = SubSeq(h, z + a + 1, z + b)
      <4>1. x[k + 1] = SubSeq(h, Cut(e, (k + 1) - 1) + 1, Cut(e, k + 1) - 1)
        BY <3>1, <2>1 DEF Lines, Line
      <4> QED
        BY <4>1, <3>1, <3>3
    <3>6. SubSeq(g, a + 1, b) = SubSeq(h, z + a + 1, z + b)
      <4>3. PICK w \in Nat : w = n - z /\ b <= w
        <5>1. z <= n
          BY <1>3
        <5>2. n - z \in Nat
          BY ONLY <5>1, z \in Nat, n \in Nat
        <5>3. Len(g) = n - z
          BY <1>4
        <5> QED
          BY <5>2, <5>3, <3>2
      <4>0. b <= n - z /\ \A i \in 1 .. b : i \in 1 .. n - z
        BY <4>3
      <4>1. z + b <= Len(h) /\ \A i \in 1 .. b : i > a => g[i] = h[z + i]
        BY SMTT(60), <4>0, <1>1, <1>3, <1>9
      <4>2. g \in Seq(Byte) /\ h \in Seq(Byte) /\ a <= b /\ b <= Len(g)
        BY <1>2, <3>2
      <4> QED
        BY ONLY <4>1, <4>2, a \in Nat, b \in Nat, z \in Nat, SameSlice
    <3> QED
      BY <3>4, <3>5, <3>6, <2>3
  <2>5. y = t
    BY <2>2, <2>3, <2>4, SameSeq
  <2> QED
    BY <2>1, <2>2, <2>3, <2>5
<1>11. Rest(g, f) = Rest(h, e)
  <2>1. PICK a \in Nat, b \in Nat : a = Cut(f, Len(f)) /\ b = Len(g) /\ a <= b
    <3>1. Len(f) \in 0 .. Len(f)
      BY <1>6
    <3>2. Cut(f, Len(f)) \in Nat /\ Cut(f, Len(f)) <= Len(g)
      BY ONLY <1>7, <3>1, CutIs
    <3> QED
      BY <3>2, <1>4
  <2>2. Cut(e, Len(e)) = z + a /\ Len(h) = z + b
    <3>1. l \in 0 .. l /\ Len(f) = l
      BY <1>6
    <3>2. Cut(e, l + 1) = z + Cut(f, l)
      BY <3>1, <1>8
    <3> QED
      BY SMTT(60), <3>1, <3>2, <2>1, <1>1, <1>3, <1>4
  <2>3. SubSeq(g, a + 1, b) = SubSeq(h, z + a + 1, z + b)
    <3>0. b = n - z
      BY <2>1, <1>4
    <3>1. z + b <= Len(h) /\ \A i \in 1 .. b : i > a => g[i] = h[z + i]
      BY <3>0, <1>1, <1>3, <1>9
    <3>2. g \in Seq(Byte) /\ h \in Seq(Byte) /\ a <= b /\ b <= Len(g)
      BY <1>2, <2>1
    <3> QED
      BY ONLY <3>1, <3>2, a \in Nat, b \in Nat, z \in Nat, SameSlice
  <2> QED
    BY <2>1, <2>2, <2>3 DEF Rest
<1> QED
  BY SMTT(60), <1>1, <1>4, <1>6, <1>7, <1>10, <1>11

----------------------------------------------------------------------------
(* What the ring means *)

ZerosIn(h) == {i \in 1 .. Len(h) : h[i] = Zero}
UpTo(h, k) == {j \in ZerosIn(h) : j <= k}

LEMMA FirstEnds ==
  ASSUME NEW h, NEW e, Marks(h, e), NEW m \in 0 .. Len(e), NEW T,
         \A j : j \in T <=> j \in ZerosIn(h) /\ \E k \in 1 .. m : e[k] = j
  PROVE  Cardinality(T) = m
<1>1. /\ \A k \in 1 .. m : k \in 1 .. Len(e)
      /\ \A k \in 1 .. Len(e) : e[k] \in ZerosIn(h) /\ e[k] \in Nat
      /\ \A j, k \in 1 .. Len(e) : j < k => e[j] < e[k]
  BY DEF Marks, ZerosIn
<1>2. PICK f : f = [k \in 1 .. m |-> e[k]]
  OBVIOUS
<1>3. f \in [1 .. m -> T]
  <2>1. \A k \in 1 .. m : e[k] \in T
    BY <1>1
  <2> QED
    BY <2>1, <1>2
<1>4. ASSUME NEW a \in 1 .. m, NEW b \in 1 .. m, f[a] = f[b] PROVE a = b
  <2>1. a \in 1 .. Len(e) /\ b \in 1 .. Len(e) /\ e[a] = e[b] /\ e[a] \in Nat
    BY <1>1, <1>2, <1>4
  <2>2. ~(a < b) /\ ~(b < a)
    BY <2>1, <1>1
  <2> QED
    BY <2>2
<1>5. ASSUME NEW t \in T PROVE \E k \in 1 .. m : f[k] = t
  BY <1>2
<1>6. f \in Bijection(1 .. m, T)
  BY <1>3, <1>4, <1>5, Fun_IsBij
<1>7. ExistsBijection(1 .. m, T) /\ m \in Nat
  BY <1>6, Fun_ExistsBij
<1> QED
  BY <1>7, FS_CountingElements

LEMMA EndsCounted ==
  ASSUME NEW h, NEW e, Marks(h, e)
  PROVE  /\ Cardinality(ZerosIn(h)) = Len(e)
         /\ \A k \in 1 .. Len(e) : e[k] \in ZerosIn(h) /\ Cardinality(UpTo(h, e[k])) = k
         /\ \A i \in ZerosIn(h) : \E k \in 1 .. Len(e) : e[k] = i
<1>1. /\ Len(e) \in Nat
      /\ \A k \in 1 .. Len(e) : e[k] \in ZerosIn(h) /\ e[k] \in Nat
      /\ \A j, k \in 1 .. Len(e) : j < k => e[j] < e[k]
      /\ \A i \in ZerosIn(h) : \E k \in 1 .. Len(e) : e[k] = i
  BY DEF Marks, ZerosIn
<1>2. Cardinality(ZerosIn(h)) = Len(e)
  <2>1. PICK m \in 0 .. Len(e) : m = Len(e)
    BY <1>1
  <2>2. \A j : j \in ZerosIn(h) <=> j \in ZerosIn(h) /\ \E k \in 1 .. m : e[k] = j
    BY <1>1, <2>1
  <2>3. Cardinality(ZerosIn(h)) = m
    BY <2>2, FirstEnds
  <2> QED
    BY <2>1, <2>3
<1>3. ASSUME NEW m \in 1 .. Len(e) PROVE Cardinality(UpTo(h, e[m])) = m
  <2>1. ASSUME NEW k \in 1 .. Len(e) PROVE e[k] <= e[m] <=> k <= m
    <3>1. e[k] \in Nat /\ e[m] \in Nat
      BY <1>1
    <3>2. k < m => e[k] < e[m]
      BY <1>1
    <3>3. m < k => e[m] < e[k]
      BY <1>1
    <3> QED
      BY <3>1, <3>2, <3>3
  <2>2. ASSUME NEW j PROVE j \in UpTo(h, e[m]) <=> j \in ZerosIn(h) /\ \E k \in 1 .. m : e[k] = j
    <3>1. ASSUME j \in UpTo(h, e[m]) PROVE j \in ZerosIn(h) /\ \E k \in 1 .. m : e[k] = j
      <4>1. j \in ZerosIn(h) /\ j <= e[m]
        BY <3>1 DEF UpTo
      <4>2. PICK k \in 1 .. Len(e) : e[k] = j
        BY <4>1, <1>1
      <4>3. k \in 1 .. m
        BY <4>1, <4>2, <2>1
      <4> QED
        BY <4>1, <4>2, <4>3
    <3>2. ASSUME j \in ZerosIn(h), NEW k \in 1 .. m, e[k] = j PROVE j \in UpTo(h, e[m])
      <4>1. k \in 1 .. Len(e) /\ k <= m
        BY <1>1
      <4> QED
        BY <4>1, <3>2, <2>1 DEF UpTo
    <3> QED
      BY <3>1, <3>2
  <2>3. m \in 0 .. Len(e)
    BY <1>1
  <2> QED
    BY <2>2, <2>3, FirstEnds
<1> QED
  BY <1>1, <1>2, <1>3

(* What lies in the ring now, read as lines. *)
MappedNow ==
  q \in Ring =>
    /\ \A i \in Pos : At(i) = q.buf[Place(q.front, i)]
    /\ \A e : Marks(Held(q), e) => Finished = Lines(Held(q), e) /\ Draft = Rest(Held(q), e)

LEMMA BytesHeld ==
  ASSUME q \in Ring
  PROVE  /\ \A i \in Pos : At(i) = q.buf[Place(q.front, i)]
         /\ Bytes = Held(q) /\ Ends = ZerosIn(Held(q))
<1>1. q.front \in Pos /\ Count(q) \in Pos /\ Count(q) = (q.rear - q.front) % SZ
  BY RingFacts, CountIs
<1>2. ASSUME NEW i \in Pos PROVE At(i) = q.buf[Place(q.front, i)]
  <2>1. i \in Nat /\ i <= SZ
    BY Size
  <2>2. (q.front + i) % SZ = Place(q.front, i)
    BY <1>1, <2>1, PlaceIs
  <2> QED
    BY <2>2 DEF At
<1>3. Bytes = Held(q)
  <2>1. ASSUME NEW i \in 1 .. Count(q) PROVE At(i - 1) = q.buf[Place(q.front, i - 1)]
    <3>1. PICK c \in Nat : c = Count(q) /\ c < SZ
      BY <1>1, Size
    <3>2. i - 1 \in Nat /\ i - 1 < SZ
      BY <3>1, Size
    <3>3. i - 1 \in Pos
      BY <3>2, Size
    <3> QED
      BY <3>3, <1>2
  <2>2. Bytes = [i \in 1 .. Count(q) |-> At(i - 1)]
    BY <1>1 DEF Bytes
  <2> QED
    BY <2>1, <2>2 DEF Held
<1>4. Ends = ZerosIn(Held(q))
  <2>1. Held(q) \in Seq(Byte)
    BY RingFacts
  <2>2. DOMAIN Held(q) = 1 .. Len(Held(q))
    BY <2>1
  <2> QED
    BY <2>2, <1>3 DEF Ends, ZerosIn
<1> QED
  BY <1>2, <1>3, <1>4

LEMMA Mapped == MappedNow
<1> SUFFICES ASSUME q \in Ring
    PROVE  /\ \A i \in Pos : At(i) = q.buf[Place(q.front, i)]
           /\ \A e : Marks(Held(q), e) => Finished = Lines(Held(q), e) /\ Draft = Rest(Held(q), e)
  BY DEF MappedNow
<1>1. \A i \in Pos : At(i) = q.buf[Place(q.front, i)]
  BY BytesHeld
<1>2. ASSUME NEW e, Marks(Held(q), e)
      PROVE  Finished = Lines(Held(q), e) /\ Draft = Rest(Held(q), e)
  <2>1. PICK h : h = Held(q)
    OBVIOUS
  <2>2. Marks(h, e) /\ Bytes = h /\ Ends = ZerosIn(h) /\ Len(e) \in Nat
    BY <1>2, <2>1, BytesHeld DEF Marks
  <2>3. /\ Cardinality(Ends) = Len(e)
        /\ \A k \in 1 .. Len(e) : e[k] \in Ends /\ Cardinality(UpTo(h, e[k])) = k
        /\ \A i \in Ends : \E k \in 1 .. Len(e) : e[k] = i
    BY <2>2, EndsCounted
  <2>4. ASSUME NEW k \in 0 .. Len(e) PROVE End(k) = Cut(e, k)
    <3>1. CASE k = 0
      BY <3>1 DEF End, Cut
    <3>2. CASE k # 0
      <4>1. k \in 1 .. Len(e) /\ Cut(e, k) = e[k]
        BY <3>2 DEF Cut
      <4>2. End(k) = CHOOSE i \in Ends : Cardinality(UpTo(h, i)) = k
        BY <3>2, <2>2 DEF End, UpTo
      <4>3. e[k] \in Ends /\ Cardinality(UpTo(h, e[k])) = k
        BY <4>1, <2>3
      <4>4. ASSUME NEW i \in Ends, Cardinality(UpTo(h, i)) = k PROVE i = e[k]
        <5>1. PICK m \in 1 .. Len(e) : e[m] = i
          BY <2>3
        <5>2. m = k
          BY <5>1, <4>4, <2>3
        <5> QED
          BY <5>1, <5>2
      <4>5. (CHOOSE i \in Ends : Cardinality(UpTo(h, i)) = k) = e[k]
        BY <4>3, <4>4
      <4> QED
        BY <4>1, <4>2, <4>5
    <3> QED
      BY <3>1, <3>2
  <2>5. Finished = Lines(h, e)
    <3>1. ASSUME NEW k \in 1 .. Len(e)
          PROVE  SubSeq(Bytes, End(k - 1) + 1, End(k) - 1) = Line(h, e, k)
      <4>1. k - 1 \in 0 .. Len(e) /\ k \in 0 .. Len(e)
        BY <2>2
      <4>2. End(k - 1) = Cut(e, k - 1) /\ End(k) = Cut(e, k)
        BY <4>1, <2>4
      <4> QED
        BY <4>2, <2>2 DEF Line
    <3>2. Finished = [k \in 1 .. Len(e) |-> SubSeq(Bytes, End(k - 1) + 1, End(k) - 1)]
      BY <2>3 DEF Finished
    <3> QED
      BY <3>1, <3>2 DEF Lines
  <2>6. Draft = Rest(h, e)
    <3>1. End(Len(e)) = Cut(e, Len(e))
      BY <2>2, <2>4
    <3> QED
      BY <3>1, <2>2, <2>3 DEF Draft, Rest
  <2> QED
    BY <2>1, <2>5, <2>6
<1> QED
  BY <1>1, <1>2

----------------------------------------------------------------------------
(* The invariant: the ring is edged with '\0', and its lines are as many as *)
(* the semaphore counts and the readers past it take.                       *)

Past == {r \in Reader : reader[r] # NULL}

CookInv ==
  /\ Edged(q)
  /\ cooked \in Nat /\ reader \in [Reader -> Counts \cup {NULL}] /\ IsFiniteSet(Past)
  /\ \E e \in Seq(Nat) : Marks(Held(q), e) /\ Len(e) = cooked + Cardinality(Past)

LEMMA CookInit == Init => CookInv /\ Promise!Init
<1> SUFFICES ASSUME Init PROVE CookInv /\ Promise!Init
  OBVIOUS
<1>1. /\ q = [buf |-> [i \in Pos |-> Zero], front |-> 0, rear |-> 0]
      /\ cooked = 0 /\ reader = [r \in Reader |-> NULL] /\ got = [r \in Reader |-> NULL]
  BY DEF Init
<1>2. q \in Ring /\ q.front = 0 /\ q.rear = 0 /\ \A i \in Pos : q.buf[i] = Zero
  <2>1. 0 \in Pos /\ Zero \in Byte
    BY Size DEF Byte
  <2> QED
    BY <2>1, <1>1 DEF Ring
<1>3. Edged(q)
  <2>1. 0 \in Pos /\ SZ - 1 \in Nat /\ SZ - 1 <= SZ
    BY Size
  <2>2. Place(q.front, SZ - 1) \in Pos
    BY <1>2, <2>1, PlaceIs
  <2> QED
    BY <1>2, <2>1, <2>2 DEF Edged
<1>4. Held(q) \in Seq(Byte) /\ Len(Held(q)) = 0
  <2>1. Count(q) = 0
    BY <1>2 DEF Count
  <2> QED
    BY <1>2, <2>1, RingFacts
<1>5. PICK e \in Seq(Nat) : e = <<>> /\ Len(e) = 0
  <2>1. <<>> \in Seq(Nat) /\ Len(<<>>) = 0
    OBVIOUS
  <2> QED
    BY <2>1
<1>6. Marks(Held(q), e)
  BY <1>4, <1>5 DEF Marks
<1>7. Past = {} /\ IsFiniteSet(Past) /\ Cardinality(Past) = 0
  <2>1. Past = {}
    BY <1>1 DEF Past
  <2> QED
    BY <2>1, FS_EmptySet
<1>8. CookInv
  <2>1. reader \in [Reader -> Counts \cup {NULL}]
    BY <1>1
  <2>2. Len(e) = cooked + Cardinality(Past) /\ cooked \in Nat
    BY <1>1, <1>5, <1>7
  <2> QED
    BY <1>3, <1>6, <1>7, <2>1, <2>2 DEF CookInv
<1>9. Finished = <<>> /\ Draft = <<>>
  <2>1. Finished = Lines(Held(q), e) /\ Draft = Rest(Held(q), e)
    BY <1>2, <1>6, Mapped DEF MappedNow
  <2>2. /\ Lines(Held(q), e) \in Seq(Seq(Byte)) /\ Len(Lines(Held(q), e)) = Len(e)
        /\ Rest(Held(q), e) \in Seq(Byte) /\ Len(Rest(Held(q), e)) = Len(Held(q)) - Cut(e, Len(e))
    BY ONLY <1>6, LinesAre
  <2>3. Cut(e, Len(e)) = 0
    BY <1>5 DEF Cut
  <2>4. Len(Lines(Held(q), e)) = 0 /\ Len(Rest(Held(q), e)) = 0
    BY <2>2, <2>3, <1>4, <1>5
  <2> QED
    BY <2>1, <2>2, <2>4
<1> QED
  BY <1>1, <1>8, <1>9 DEF Promise!Init

LEMMA Bytewise ==
  /\ \A ch \in Char : ch \in Byte /\ ch # Zero
  /\ "LF" \in Byte /\ "LF" # Zero /\ Zero \in Byte
BY CookAssumption DEF Byte, Zero

(* A character goes to the draft. *)
LEMMA CharKeeps ==
  ASSUME CookInv, NEW ch \in Char, ~Full(q), q' = tty_enqueue(q, ch), UNCHANGED <<cooked, reader, got>>
  PROVE  CookInv' /\ Promise!Type(ch)
<1>1. MappedNow /\ MappedNow'
  BY Mapped, PTL
<1>2. PICK e \in Seq(Nat) : Marks(Held(q), e) /\ Len(e) = cooked + Cardinality(Past)
  BY DEF CookInv
<1>3. PICK h : h = Held(q)
  OBVIOUS
<1>4. Edged(q) /\ q \in Ring /\ ch \in Byte /\ ch # Zero
  BY Bytewise DEF CookInv, Edged
<1>5. Edged(q') /\ Held(q') = Append(h, ch)
  BY <1>3, <1>4, Enqueue
<1>6. /\ Marks(Append(h, ch), e) /\ Lines(Append(h, ch), e) = Lines(h, e)
      /\ Rest(Append(h, ch), e) = Append(Rest(h, e), ch)
  BY <1>2, <1>3, <1>4, TypeLines
<1>7. Finished = Lines(h, e) /\ Draft = Rest(h, e)
  BY <1>1, <1>2, <1>3, <1>4 DEF MappedNow
<1>8. Finished' = Lines(Append(h, ch), e) /\ Draft' = Rest(Append(h, ch), e)
  <2>1. q' \in Ring
    BY <1>5 DEF Edged
  <2>2. Marks(Held(q'), e)
    BY <1>5, <1>6
  <2>3. Finished' = Lines(Held(q'), e) /\ Draft' = Rest(Held(q'), e)
    BY <1>1, <2>1, <2>2 DEF MappedNow
  <2> QED
    BY <2>3, <1>5
<1>9. CookInv'
  <2>1. Past' = Past
    BY DEF Past
  <2>2. Marks(Held(q'), e) /\ Len(e) = cooked' + Cardinality(Past')
    BY <1>2, <1>5, <1>6, <2>1
  <2>3. /\ cooked' \in Nat /\ reader' \in [Reader -> Counts \cup {NULL}] /\ IsFiniteSet(Past')
    BY <2>1 DEF CookInv
  <2> QED
    BY <1>5, <2>2, <2>3 DEF CookInv
<1> QED
  BY <1>6, <1>7, <1>8, <1>9 DEF Promise!Type

(* A newline ends the draft. *)
LEMMA NewlineKeeps ==
  ASSUME CookInv, ~Full(q), ~Full(tty_enqueue(q, "LF")),
         q' = tty_enqueue(tty_enqueue(q, "LF"), Zero), cooked' = cooked + 1,
         UNCHANGED <<reader, got>>
  PROVE  CookInv' /\ Promise!Enter
<1>1. MappedNow /\ MappedNow'
  BY Mapped, PTL
<1>2. PICK e \in Seq(Nat) : Marks(Held(q), e) /\ Len(e) = cooked + Cardinality(Past)
  BY DEF CookInv
<1>3. PICK h, g, k, x, f : h = Held(q) /\ g = Append(h, "LF") /\ k = Append(g, Zero)
                         /\ x = tty_enqueue(q, "LF") /\ f = Append(e, Len(g) + 1)
  OBVIOUS
<1>4. Edged(q) /\ q \in Ring
  BY DEF CookInv, Edged
<1>5. Edged(x) /\ Held(x) = g
  BY <1>3, <1>4, Bytewise, Enqueue
<1>6. Edged(q') /\ Held(q') = k
  BY <1>3, <1>5, Bytewise, Enqueue
<1>7. Marks(g, e) /\ Lines(g, e) = Lines(h, e) /\ Rest(g, e) = Append(Rest(h, e), "LF")
  BY <1>2, <1>3, Bytewise, TypeLines
<1>8. Marks(k, f) /\ Lines(k, f) = Append(Lines(g, e), Rest(g, e)) /\ Rest(k, f) = <<>>
  BY <1>3, <1>7, EndLine
<1>9. Finished = Lines(h, e) /\ Draft = Rest(h, e)
  BY <1>1, <1>2, <1>3, <1>4 DEF MappedNow
<1>10. Finished' = Lines(k, f) /\ Draft' = Rest(k, f)
  <2>1. q' \in Ring
    BY <1>6 DEF Edged
  <2>2. Marks(Held(q'), f)
    BY <1>6, <1>8
  <2>3. Finished' = Lines(Held(q'), f) /\ Draft' = Rest(Held(q'), f)
    BY <1>1, <2>1, <2>2 DEF MappedNow
  <2> QED
    BY <2>3, <1>6
<1>11. CookInv'
  <2>1. Past' = Past
    BY DEF Past
  <2>2. f \in Seq(Nat) /\ Len(f) = Len(e) + 1
    <3>1. g \in Seq(Byte)
      BY <1>7 DEF Marks
    <3>2. Len(g) + 1 \in Nat
      BY <3>1
    <3> QED
      BY <1>3, <3>2, AppendIs
  <2>3. IsFiniteSet(Past) /\ cooked \in Nat /\ Cardinality(Past) \in Nat
    BY FS_CardinalityType DEF CookInv
  <2>4. Marks(Held(q'), f) /\ Len(f) = cooked' + Cardinality(Past')
    BY <1>2, <1>6, <1>8, <2>1, <2>2, <2>3
  <2>5. cooked' \in Nat /\ reader' \in [Reader -> Counts \cup {NULL}] /\ IsFiniteSet(Past')
    BY <2>1, <2>3 DEF CookInv
  <2> QED
    BY <1>6, <2>2, <2>4, <2>5 DEF CookInv
<1>12. Finished' = Append(Finished, Append(Draft, "LF")) /\ Draft' = <<>>
  BY <1>7, <1>8, <1>9, <1>10
<1> QED
  BY <1>11, <1>12 DEF Promise!Enter

(* A backspace erases from the draft. *)
LEMMA BackspaceKeeps ==
  ASSUME CookInv, CanErase(q), q' = tty_pop_back(q), UNCHANGED <<cooked, reader, got>>
  PROVE  CookInv' /\ Promise!Erase
<1>1. MappedNow /\ MappedNow'
  BY Mapped, PTL
<1>2. PICK e \in Seq(Nat) : Marks(Held(q), e) /\ Len(e) = cooked + Cardinality(Past)
  BY DEF CookInv
<1>3. PICK h, g : h = Held(q) /\ g = SubSeq(h, 1, Len(h) - 1)
  OBVIOUS
<1>4. Edged(q) /\ q \in Ring
  BY DEF CookInv, Edged
<1>5. Edged(q') /\ Held(q') = g /\ Len(h) > 0 /\ h[Len(h)] # Zero
  <2>1. Len(h) = Count(q)
    BY <1>3, <1>4, RingFacts
  <2>2. /\ Edged(q') /\ Count(q) > 0 /\ Held(q)[Count(q)] # Zero
        /\ Held(q') = SubSeq(Held(q), 1, Count(q) - 1)
    BY <1>4, PopBack
  <2> QED
    BY <2>1, <2>2, <1>3
<1>6. Marks(g, e) /\ Lines(g, e) = Lines(h, e) /\ Rest(h, e) # <<>> /\ Rest(g, e) = Front(Rest(h, e))
  BY <1>2, <1>3, <1>5, EraseLines
<1>7. Finished = Lines(h, e) /\ Draft = Rest(h, e)
  BY <1>1, <1>2, <1>3, <1>4 DEF MappedNow
<1>8. Finished' = Lines(g, e) /\ Draft' = Rest(g, e)
  <2>1. q' \in Ring
    BY <1>5 DEF Edged
  <2>2. Marks(Held(q'), e)
    BY <1>5, <1>6
  <2>3. Finished' = Lines(Held(q'), e) /\ Draft' = Rest(Held(q'), e)
    BY <1>1, <2>1, <2>2 DEF MappedNow
  <2> QED
    BY <2>3, <1>5
<1>9. CookInv'
  <2>1. Past' = Past
    BY DEF Past
  <2>2. Marks(Held(q'), e) /\ Len(e) = cooked' + Cardinality(Past')
    BY <1>2, <1>5, <1>6, <2>1
  <2>3. /\ cooked' \in Nat /\ reader' \in [Reader -> Counts \cup {NULL}] /\ IsFiniteSet(Past')
    BY <2>1 DEF CookInv
  <2> QED
    BY <1>5, <2>2, <2>3 DEF CookInv
<1> QED
  BY <1>6, <1>7, <1>8, <1>9 DEF Promise!Erase, Promise!Front, Front

(* Lines and draft do not change with what does not touch the ring. *)
LEMMA RingSame ==
  ASSUME CookInv, UNCHANGED q
  PROVE  Finished' = Finished /\ Draft' = Draft
<1>1. MappedNow /\ MappedNow'
  BY Mapped, PTL
<1>2. PICK e \in Seq(Nat) : Marks(Held(q), e)
  BY DEF CookInv
<1>3. q \in Ring /\ q' = q
  BY DEF CookInv, Edged
<1>4. Finished = Lines(Held(q), e) /\ Draft = Rest(Held(q), e)
  BY <1>1, <1>2, <1>3 DEF MappedNow
<1>5. Finished' = Lines(Held(q'), e) /\ Draft' = Rest(Held(q'), e)
  <2>1. q' \in Ring /\ Marks(Held(q'), e)
    BY <1>2, <1>3
  <2> QED
    BY <1>1, <2>1 DEF MappedNow
<1> QED
  BY <1>3, <1>4, <1>5

(* A reader past the semaphore has a line to take. *)
LEMMA WaitKeeps ==
  ASSUME CookInv, NEW r \in Reader, NEW count \in Counts, tty_read_wait(r, count)
  PROVE  CookInv' /\ UNCHANGED Promise!specVars
<1>1. /\ reader[r] = NULL /\ cooked > 0 /\ cooked' = cooked - 1
      /\ reader' = [reader EXCEPT ![r] = count] /\ q' = q /\ got' = got
  BY DEF tty_read_wait
<1>2. PICK e \in Seq(Nat) : Marks(Held(q), e) /\ Len(e) = cooked + Cardinality(Past)
  BY DEF CookInv
<1>3. Edged(q) /\ cooked \in Nat /\ reader \in [Reader -> Counts \cup {NULL}] /\ IsFiniteSet(Past)
  BY DEF CookInv
<1>4. count # NULL
  BY CookAssumption
<1>5. Past' = Past \cup {r} /\ r \notin Past
  BY <1>1, <1>3, <1>4 DEF Past
<1>6. IsFiniteSet(Past') /\ Cardinality(Past') = Cardinality(Past) + 1 /\ Cardinality(Past) \in Nat
  BY <1>3, <1>5, FS_AddElement, FS_CardinalityType
<1>7. CookInv'
  <2>1. cooked' \in Nat /\ Len(e) = cooked' + Cardinality(Past')
    BY <1>1, <1>2, <1>3, <1>6
  <2>2. reader' \in [Reader -> Counts \cup {NULL}]
    BY <1>1, <1>3
  <2>3. Edged(q') /\ Marks(Held(q'), e)
    BY <1>1, <1>2, <1>3
  <2> QED
    BY <1>6, <2>1, <2>2, <2>3 DEF CookInv
<1>8. Finished' = Finished /\ Draft' = Draft
  BY <1>1, RingSame
<1> QED
  BY <1>1, <1>7, <1>8 DEF Promise!specVars

LEMMA LeastIs ==
  ASSUME NEW S, NEW x \in S, S \subseteq Int, \A y \in S : x <= y
  PROVE  Min(S) = x
<1>1. \A z \in S : (\A y \in S : z <= y) => z = x
  BY x \in Int
<1> QED
  BY <1>1 DEF Min

(* The first line, as tty_read finds it. *)
LEMMA FirstLine ==
  ASSUME q \in Ring, NEW e, Marks(Held(q), e), Len(e) > 0
  PROVE  /\ e[1] \in 1 .. Count(q) /\ Held(q)[e[1]] = Zero /\ LineLen = e[1] - 1
         /\ Len(Line(Held(q), e, 1)) = LineLen
         /\ \A i \in 1 .. LineLen : Line(Held(q), e, 1)[i] = At(i - 1)
<1>0. PICK h : h = Held(q)
  OBVIOUS
<1>1. PICK n \in Nat : h = Held(q) /\ n = Count(q) /\ n = Len(h) /\ n < SZ /\ n \in Pos
  <2>1. Count(q) \in Pos /\ Len(Held(q)) = Count(q)
    BY RingFacts
  <2> QED
    BY <2>1, <1>0, Size
<1>2. /\ Len(e) \in Nat /\ h \in Seq(Byte)
      /\ \A k \in 1 .. Len(e) : e[k] \in 1 .. n /\ h[e[k]] = Zero
      /\ \A j, k \in 1 .. Len(e) : j < k => e[j] < e[k]
      /\ \A i \in 1 .. n : h[i] = Zero => \E k \in 1 .. Len(e) : e[k] = i
  BY <1>1 DEF Marks
<1>3. 1 \in 1 .. Len(e)
  BY <1>2
<1>4. PICK z \in 1 .. n : z = e[1] /\ h[z] = Zero
  BY <1>2, <1>3
<1>5. \A i \in Pos : At(i) = q.buf[Place(q.front, i)]
  BY Mapped DEF MappedNow
<1>6. \A i \in Pos : i < n => h[i + 1] = At(i)
  BY <1>1, <1>5, RingFacts
<1>7. \A k \in 1 .. Len(e) : z <= e[k]
  <2>1. ASSUME NEW k \in 1 .. Len(e) PROVE z <= e[k]
    <3>1. CASE k = 1
      BY <3>1, <1>4
    <3>2. CASE k # 1
      <4>1. 1 < k
        BY <3>2
      <4>2. e[1] < e[k] /\ e[k] \in 1 .. n
        BY <4>1, <1>2, <1>3
      <4> QED
        BY <4>2, <1>4
    <3> QED
      BY <3>1, <3>2
  <2> QED
    BY <2>1
<1>8. LineLen = z - 1
  <2>1. PICK S : S = {i \in Pos : At(i) = Zero}
    OBVIOUS
  <2>2. z - 1 \in Pos /\ z - 1 < n /\ (z - 1) + 1 = z
    BY <1>1, Size
  <2>3. z - 1 \in S
    BY <2>1, <2>2, <1>4, <1>6
  <2>4. ASSUME NEW y \in S PROVE z - 1 <= y
    <3>1. y \in Pos /\ y \in Nat /\ At(y) = Zero
      BY <2>1, Size
    <3>2. CASE y >= n
      BY <3>1, <3>2, <2>2
    <3>3. CASE y < n
      <4>1. y + 1 \in 1 .. n /\ h[y + 1] = Zero
        BY <3>1, <3>3, <1>6
      <4>2. PICK k \in 1 .. Len(e) : e[k] = y + 1
        BY <4>1, <1>2
      <4>3. z <= y + 1
        BY <4>2, <1>7
      <4> QED
        BY <4>3, <3>1
    <3> QED
      BY <3>1, <3>2, <3>3
  <2>5. S \subseteq Int
    BY <2>1, Size
  <2>6. Min(S) = z - 1
    BY <2>3, <2>4, <2>5, LeastIs
  <2> QED
    BY <2>1, <2>6 DEF LineLen
<1>9. /\ Len(Line(h, e, 1)) = z - 1
      /\ \A i \in 1 .. z - 1 : Line(h, e, 1)[i] = h[i]
  <2>1. Cut(e, 1 - 1) = 0 /\ Cut(e, 1) = z
    BY <1>4 DEF Cut
  <2>2. 0 \in Nat /\ z - 1 \in Nat /\ 0 <= z - 1 /\ z - 1 <= Len(h) /\ h \in Seq(Byte)
    BY <1>1, <1>2
  <2>3. /\ Len(SubSeq(h, 0 + 1, z - 1)) = z - 1 - 0
        /\ \A i \in 1 .. z - 1 - 0 : SubSeq(h, 0 + 1, z - 1)[i] = h[0 + i]
    BY ONLY <2>2, SliceIs
  <2>4. Line(h, e, 1) = SubSeq(h, 0 + 1, z - 1)
    BY <2>1 DEF Line
  <2>5. z - 1 - 0 = z - 1 /\ \A i \in 1 .. z - 1 : 0 + i = i
    OBVIOUS
  <2> QED
    BY <2>3, <2>4, <2>5
<1>10. ASSUME NEW i \in 1 .. z - 1 PROVE h[i] = At(i - 1)
  <2>1. i - 1 \in Pos /\ i - 1 < n /\ (i - 1) + 1 = i
    BY <1>1, Size
  <2> QED
    BY <2>1, <1>6
<1> QED
  BY <1>1, <1>4, <1>8, <1>9, <1>10

LEMMA MinIs ==
  ASSUME NEW a \in Nat, NEW b \in Nat
  PROVE  Min({a, b}) \in Nat /\ Min({a, b}) <= a /\ Min({a, b}) <= b
<1>1. PICK S : S = {a, b}
  OBVIOUS
<1>2. CASE a <= b
  BY <1>1, <1>2, LeastIs
<1>3. CASE b < a
  BY <1>1, <1>3, LeastIs
<1> QED
  BY <1>2, <1>3

(* tty_read takes the first line, and as much of it as was asked for. *)
LEMMA ReadKeeps ==
  ASSUME CookInv, NEW r \in Reader, tty_read(r)
  PROVE  CookInv' /\ \E n \in Counts : Promise!Read(r, n)
<1>1. MappedNow /\ MappedNow'
  BY Mapped, PTL
<1>2. /\ reader[r] # NULL /\ cooked' = cooked /\ reader' = [reader EXCEPT ![r] = NULL]
      /\ got' = [got EXCEPT ![r] = [i \in 1 .. Copied(reader[r]) |-> At(i - 1)]]
      /\ q' = [q EXCEPT !.front = (@ + LineLen + 1) % SZ]
  BY DEF tty_read
<1>3. Edged(q) /\ cooked \in Nat /\ reader \in [Reader -> Counts \cup {NULL}] /\ IsFiniteSet(Past)
  BY DEF CookInv
<1>4. PICK e \in Seq(Nat) : Marks(Held(q), e) /\ Len(e) = cooked + Cardinality(Past)
  BY DEF CookInv
<1>5. q \in Ring
  BY <1>3 DEF Edged
<1>6. PICK h, g : h = Held(q) /\ g = SubSeq(h, e[1] + 1, Len(h))
  OBVIOUS
<1>7. Past' = Past \ {r} /\ r \in Past
  BY <1>2, <1>3 DEF Past
<1>8. /\ IsFiniteSet(Past') /\ Cardinality(Past') = Cardinality(Past) - 1
      /\ Cardinality(Past) \in Nat /\ Cardinality(Past) > 0
  <2>1. Cardinality(Past) \in Nat /\ Cardinality(Past) # 0
    BY <1>3, <1>7, FS_CardinalityType, FS_EmptySet
  <2> QED
    BY <2>1, <1>3, <1>7, FS_RemoveElement
<1>9. Len(e) > 0 /\ Len(e) \in Nat
  BY <1>3, <1>4, <1>8
<1>10. /\ e[1] \in 1 .. Count(q) /\ h[e[1]] = Zero /\ LineLen = e[1] - 1
       /\ Len(Line(h, e, 1)) = LineLen
       /\ \A i \in 1 .. LineLen : Line(h, e, 1)[i] = At(i - 1)
  BY <1>4, <1>5, <1>6, <1>9, FirstLine
<1>11. Edged(q') /\ Held(q') = g
  <2>1. PICK z \in Nat, f \in Pos : z = e[1] /\ z = LineLen + 1 /\ z <= SZ /\ f = q.front
    <3>1. Count(q) \in Pos /\ q.front \in Pos
      BY <1>5, RingFacts
    <3> QED
      BY SMTT(60), <3>1, <1>10, Size
  <2>2. (f + LineLen + 1) % SZ = Place(f, z)
    <3>1. f + LineLen + 1 = f + z
      <4>1. LineLen = z - 1 /\ f \in Nat
        BY <2>1, <1>10, Size
      <4> QED
        BY <4>1
    <3>2. (f + z) % SZ = Place(f, z)
      BY <2>1, PlaceIs
    <3> QED
      BY <3>1, <3>2
  <2>3. q' = [q EXCEPT !.front = Place(q.front, e[1])]
    BY <1>2, <2>1, <2>2
  <2>4. Count(q) = Len(h)
    BY <1>5, <1>6, RingFacts
  <2>5. /\ Edged([q EXCEPT !.front = Place(q.front, e[1])])
        /\ Held([q EXCEPT !.front = Place(q.front, e[1])]) = SubSeq(Held(q), e[1] + 1, Count(q))
    BY <1>3, <1>6, <1>10, Advance
  <2> QED
    BY <2>3, <2>4, <2>5, <1>6
<1>12. /\ Marks(g, Later(e)) /\ Len(Later(e)) = Len(e) - 1
       /\ Lines(g, Later(e)) = Tail(Lines(h, e)) /\ Rest(g, Later(e)) = Rest(h, e)
  BY <1>4, <1>6, <1>9, DropLine
<1>13. Finished = Lines(h, e) /\ Draft = Rest(h, e)
  BY <1>1, <1>4, <1>5, <1>6 DEF MappedNow
<1>14. Finished' = Lines(g, Later(e)) /\ Draft' = Rest(g, Later(e))
  <2>1. q' \in Ring
    BY <1>11 DEF Edged
  <2>2. Marks(Held(q'), Later(e))
    BY <1>11, <1>12
  <2>3. Finished' = Lines(Held(q'), Later(e)) /\ Draft' = Rest(Held(q'), Later(e))
    BY <1>1, <2>1, <2>2 DEF MappedNow
  <2> QED
    BY <2>3, <1>11
<1>15. CookInv'
  <2>1. Later(e) \in Seq(Nat)
    BY <1>12 DEF Marks
  <2>2. cooked' \in Nat /\ Len(Later(e)) = cooked' + Cardinality(Past')
    BY <1>2, <1>3, <1>4, <1>8, <1>12
  <2>3. reader' \in [Reader -> Counts \cup {NULL}]
    BY <1>2, <1>3
  <2>4. Marks(Held(q'), Later(e))
    BY <1>11, <1>12
  <2> QED
    BY <1>8, <1>11, <2>1, <2>2, <2>3, <2>4 DEF CookInv
<1>16. PICK n \in Counts : n = reader[r]
  BY <1>2, <1>3
<1>17. PICK l \in Seq(Byte) : l = Head(Finished) /\ l = Line(h, e, 1) /\ Finished # <<>>
  <2>1. /\ Lines(h, e) \in Seq(Seq(Byte)) /\ Len(Lines(h, e)) = Len(e)
    BY <1>4, <1>6, LinesAre
  <2>2. 1 \in 1 .. Len(e)
    BY <1>9
  <2>3. Lines(h, e)[1] = Line(h, e, 1)
    BY <2>2 DEF Lines
  <2>4. Lines(h, e) # <<>> /\ Head(Lines(h, e)) = Lines(h, e)[1] /\ Lines(h, e)[1] \in Seq(Byte)
    BY <2>1, <2>2, <1>9
  <2> QED
    BY <2>3, <2>4, <1>13
<1>18. [i \in 1 .. Copied(n) |-> At(i - 1)] = SubSeq(l, 1, Min({n, Len(l)}))
  <2>1. n \in Nat /\ Len(l) \in Nat /\ Len(l) = LineLen
    BY <1>10, <1>17, CookAssumption
  <2>2. PICK m \in Nat : m = Min({n, Len(l)}) /\ m <= Len(l) /\ m = Copied(n)
    BY <2>1, MinIs DEF Copied
  <2>3. PICK t : t = SubSeq(l, 0 + 1, m)
    OBVIOUS
  <2>4. t \in Seq(Byte) /\ Len(t) = m - 0 /\ \A i \in 1 .. m - 0 : t[i] = l[0 + i]
    <3>1. 0 \in Nat /\ 0 <= m /\ m <= Len(l) /\ l \in Seq(Byte) /\ m \in Nat
      BY <2>2
    <3> QED
      BY ONLY <3>1, <2>3, SliceIs
  <2>5. ASSUME NEW i \in 1 .. m PROVE t[i] = At(i - 1)
    <3>1. i \in 1 .. m - 0 /\ 0 + i = i /\ i \in 1 .. LineLen
      BY <2>1, <2>2
    <3> QED
      BY <3>1, <2>4, <1>10, <1>17
  <2>6. t = [i \in 1 .. m |-> t[i]]
    BY <2>4
  <2>7. t = [i \in 1 .. m |-> At(i - 1)]
    BY <2>5, <2>6
  <2>8. t = SubSeq(l, 1, m)
    BY <2>3
  <2> QED
    BY <2>2, <2>7, <2>8
<1>19. Promise!Read(r, n)
  <2>1. got' = [got EXCEPT ![r] = SubSeq(Head(Finished), 1, Min({n, Len(Head(Finished))}))]
    BY <1>2, <1>16, <1>17, <1>18
  <2>2. Finished' = Tail(Finished) /\ Draft' = Draft
    BY <1>12, <1>13, <1>14
  <2> QED
    BY <2>1, <2>2, <1>17 DEF Promise!Read, Promise!Min, Min
<1> QED
  BY <1>15, <1>19

----------------------------------------------------------------------------
LEMMA CookStep ==
  ASSUME CookInv, [Next]_vars
  PROVE  CookInv' /\ [Promise!Next]_(Promise!specVars)
<1>1. ASSUME UNCHANGED <<q, cooked, reader, got>>
      PROVE  CookInv' /\ UNCHANGED Promise!specVars
  <2>1. Past' = Past
    BY <1>1 DEF Past
  <2>2. CookInv'
    BY <1>1, <2>1 DEF CookInv
  <2>3. Finished' = Finished /\ Draft' = Draft
    BY <1>1, RingSame
  <2> QED
    BY <1>1, <2>2, <2>3 DEF Promise!specVars
<1>2. CASE UNCHANGED vars
  BY <1>1, <1>2 DEF vars
<1>3. ASSUME NEW ch \in Char, cook_char(ch)
      PROVE  CookInv' /\ [Promise!Next]_(Promise!specVars)
  <2>1. CASE Overflow
    BY <1>1, <2>1 DEF Overflow
  <2>2. CASE ~Full(q) /\ q' = tty_enqueue(q, ch) /\ UNCHANGED <<cooked, reader, got>>
    BY <2>2, CharKeeps DEF Promise!Next
  <2> QED
    BY <1>3, <2>1, <2>2 DEF cook_char
<1>4. ASSUME cook_newline
      PROVE  CookInv' /\ [Promise!Next]_(Promise!specVars)
  <2>1. CASE Overflow
    BY <1>1, <2>1 DEF Overflow
  <2>2. CASE /\ ~Full(q) /\ ~Full(tty_enqueue(q, "LF"))
             /\ q' = tty_enqueue(tty_enqueue(q, "LF"), Zero)
             /\ cooked' = cooked + 1 /\ UNCHANGED <<reader, got>>
    BY <2>2, NewlineKeeps DEF Promise!Next
  <2> QED
    BY <1>4, <2>1, <2>2 DEF cook_newline, Signalled
<1>5. ASSUME cook_backspace
      PROVE  CookInv' /\ [Promise!Next]_(Promise!specVars)
  BY <1>5, BackspaceKeeps DEF cook_backspace, Promise!Next
<1>6. ASSUME NEW r \in Reader, NEW count \in Counts, tty_read_wait(r, count)
      PROVE  CookInv' /\ [Promise!Next]_(Promise!specVars)
  BY <1>6, WaitKeeps
<1>7. ASSUME NEW r \in Reader, tty_read(r)
      PROVE  CookInv' /\ [Promise!Next]_(Promise!specVars)
  BY <1>7, ReadKeeps DEF Promise!Next
<1> QED
  BY <1>2, <1>3, <1>4, <1>5, <1>6, <1>7 DEF Next

(***************************************************************************)
(* Whatever the size of the ring, the lines typed, the number of readers   *)
(* and what they ask for, every tty_cook and tty_read is a step of the     *)
(* queue of lines, or changes nothing there.                               *)
(***************************************************************************)
THEOREM RingKeepsPromise == Spec => Refines
<1>1. Init => CookInv /\ Promise!Init
  BY CookInit
<1>2. CookInv /\ [Next]_vars => CookInv' /\ [Promise!Next]_(Promise!specVars)
  BY CookStep
<1> QED
  BY <1>1, <1>2, PTL DEF Spec, Refines, Promise!Spec
=============================================================================
