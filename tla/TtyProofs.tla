----------------------------- MODULE TtyProofs ------------------------------
(***************************************************************************)
(* Proofs about Tty: the cursor stays on the screen, a tty does not change *)
(* while it is rendered, and what is written comes to the display.         *)
(***************************************************************************)
EXTENDS MCTty, TLAPS

Screen == [buf : [Cell -> Glyph], cursor : 0 .. end, dirty : SUBSET Cell]
Holding == {"scroll", "draw", "clear"}

TtyTypes ==
  /\ tty \in [Ttys -> Screen]
  /\ lock \in [Ttys -> Task \cup {NULL}]
  /\ show_cursor \in BOOLEAN
  /\ pc \in [Task -> {"start", "idle", "key", "mark", "marked", "switch", "switched", "render"} \cup Holding]
  /\ dev \in [Task -> Ttys]
  /\ DOMAIN sp_buf = Ttys
  /\ then \in [Task -> {"idle", "key"}]
  /\ mark \in 0 .. end

(* Whoever scrolls, draws or clears has the lock of its tty.               *)
Locked ==
  /\ \A t \in Ttys : lock[t] # NULL => dev[lock[t]] = t /\ pc[lock[t]] \in Holding
  /\ \A w \in Task : pc[w] \in Holding => lock[dev[w]] = w

(* The cursor is behind the last cell only until the text has scrolled.    *)
OnScreen ==
  /\ \A t \in Ttys : tty[t].cursor = end => lock[t] # NULL /\ pc[lock[t]] = "scroll"
  /\ \A w \in Task : pc[w] = "scroll" => tty[dev[w]].cursor = end

TtyInv == TtyTypes /\ Locked /\ OnScreen

(* The lines of the screen.                                                *)
LEMMA Size == /\ lines \in Nat \ {0} /\ columns \in Nat \ {0} /\ end \in Nat /\ end >= 2 /\ columns <= end
              /\ Cell = 0 .. end - 1 /\ 1 \in Ttys
              /\ NULL \notin Task /\ "daemon" \in Task /\ "daemon" \notin Writer
<1>1. /\ lines \in Nat \ {0} /\ columns \in Nat \ {0} /\ lines * columns >= 2
      /\ NULL \notin Task /\ 1 \in Ttys /\ "daemon" \in Task /\ "daemon" \notin Writer
  BY TtyAssumption DEF Task
<1>2. PICK l \in Nat : lines = l + 1
  <2>1. lines - 1 \in Nat /\ lines = (lines - 1) + 1
    BY <1>1
  <2> QED
    BY <2>1
<1>3. lines * columns = l * columns + columns /\ l * columns \in Nat
  BY <1>1, <1>2
<1>4. lines * columns \in Nat /\ columns <= lines * columns
  BY <1>1, <1>3
<1> QED
  BY <1>1, <1>4 DEF end, Cell

LEMMA LineOf ==
  ASSUME NEW c \in Cell
  PROVE  LET b == c - (c % columns)
         IN  /\ b \in Nat /\ b <= c /\ c < b + columns /\ b + columns <= end
             /\ Line(c) = b .. b + columns - 1 /\ Line(b) = b .. b + columns - 1
<1>1. PICK k \in Nat \ {0}, e \in Nat, n \in Nat : k = columns /\ e = end /\ n = lines /\ e = n * k /\ c \in 0 .. e - 1
  BY Size DEF end
<1>2. PICK q \in Nat, m \in 0 .. k - 1 : q = c \div k /\ m = c % k /\ c = k * q + m
  BY <1>1
<1>3. k * q \in Nat /\ q * k = k * q /\ c - (c % k) = k * q
  BY <1>1, <1>2
<1>4. q < n
  <2> SUFFICES ASSUME n <= q PROVE FALSE
    BY <1>1, <1>2
  <2>1. PICK d \in Nat : q = n + d
    OBVIOUS
  <2>2. k * q = n * k + k * d /\ k * d \in Nat
    BY <1>1, <2>1
  <2> QED
    BY <1>1, <1>2, <2>2
<1>5. k * q + k <= e
  <2>1. PICK d \in Nat : n = q + 1 + d
    <3>1. n - q - 1 \in Nat /\ n = q + 1 + (n - q - 1)
      BY <1>4
    <3> QED
      BY <3>1
  <2>2. n * k = k * q + k + d * k /\ d * k \in Nat
    BY <1>1, <2>1
  <2> QED
    BY <1>1, <1>3, <2>2
<1>6. (k * q) \div k = q
  BY <1>1, <1>2
<1>7. Line(c) = k * q .. k * q + k - 1 /\ Line(k * q) = k * q .. k * q + k - 1
  BY <1>1, <1>2, <1>3, <1>6 DEF Line
<1> QED
  BY <1>1, <1>2, <1>3, <1>5, <1>7

LEMMA Mark ==
  ASSUME NEW s \in Screen, NEW cells \in SUBSET Cell
  PROVE  /\ tty_mark(s, cells) \in Screen /\ tty_mark(s, cells).buf = s.buf
         /\ tty_mark(s, cells).cursor = s.cursor /\ tty_mark(s, cells).dirty = s.dirty \cup cells
  BY DEF tty_mark, Screen

(* tty_putc by its cases.                                                  *)
LEMMA PutCases ==
  ASSUME NEW s, NEW ch
  PROVE  /\ ch = "CR" => tty_putc(s, ch) = tty_mark(tty_upd_cr(s), Line(tty_upd_cr(s).cursor))
         /\ ch = "BS" => tty_putc(s, ch) = tty_mark(tty_upd_backsp(s),
                                              {tty_upd_backsp(s).cursor, tty_upd_backsp(s).cursor + 1})
         /\ ch = "LF" => LET u == tty_upd_lf(tty_upd_cr(s))
                         IN  tty_putc(s, ch) = MarkOr(u, Line(u.cursor - columns) \cup Line(u.cursor))
         /\ ch = Nothing => tty_putc(s, ch) = s
         /\ ch \notin {"CR", "BS", "LF", Nothing} =>
              tty_putc(s, ch) = MarkOr(tty_upd_putc(s, ch), EchoMarks(tty_upd_putc(s, ch)))
<1> DEFINE cr == tty_mark(tty_upd_cr(s), Line(tty_upd_cr(s).cursor))
           bs == tty_mark(tty_upd_backsp(s), {tty_upd_backsp(s).cursor, tty_upd_backsp(s).cursor + 1})
           v == tty_upd_lf(tty_upd_cr(s))
           lf == MarkOr(v, Line(v.cursor - columns) \cup Line(v.cursor))
           other == MarkOr(tty_upd_putc(s, ch), EchoMarks(tty_upd_putc(s, ch)))
<1>1. tty_putc(s, ch) = CASE ch = "CR" -> cr [] ch = "BS" -> bs [] ch = "LF" -> lf [] ch = Nothing -> s [] OTHER -> other
  BY DEF tty_putc
<1>2. /\ ch = "CR" => tty_putc(s, ch) = cr
      /\ ch = "BS" => tty_putc(s, ch) = bs
      /\ ch = "LF" => tty_putc(s, ch) = lf
      /\ ch = Nothing => tty_putc(s, ch) = s
      /\ ch \notin {"CR", "BS", "LF", Nothing} => tty_putc(s, ch) = other
  <2> HIDE DEF cr, bs, lf, other
  <2> QED
    BY <1>1 DEF Nothing
<1> QED
  BY <1>2

(* tty_putc with the cursor on the screen: it marks every cell that it     *)
(* changes, and where the cursor was and is, unless the text is to scroll. *)
LEMMA PutStep ==
  ASSUME NEW s \in Screen, s.cursor \in Cell, NEW ch \in Char \cup {"CR", "LF", "BS", Nothing}
  PROVE  LET u == tty_putc(s, ch)
         IN  /\ u \in Screen /\ s.dirty \subseteq u.dirty
             /\ ~Scrolls(u) => \A c \in Cell \ u.dirty :
                                  u.buf[c] = s.buf[c] /\ (c = s.cursor <=> c = u.cursor)
<1>1. PICK x \in Nat, k \in Nat \ {0}, e \in Nat :
        x = s.cursor /\ k = columns /\ e = end /\ x < e /\ k <= e /\ e >= 2 /\ Cell = 0 .. e - 1
  BY Size
<1>2. s.buf \in [Cell -> Glyph] /\ s.dirty \in SUBSET Cell
  BY DEF Screen
<1>3. PICK b \in Nat : /\ b = x - (x % k) /\ b <= x /\ x < b + k /\ b + k <= e
                       /\ Line(x) = b .. b + k - 1 /\ Line(b) = b .. b + k - 1
  BY <1>1, LineOf
<1>9. /\ b \in 0 .. end /\ b .. b + k - 1 \in SUBSET Cell /\ x \in b .. b + k - 1 /\ b \in b .. b + k - 1
  <2>1. x \in Nat /\ k \in Nat \ {0} /\ e \in Nat /\ b \in Nat /\ b <= x /\ x < b + k /\ b + k <= e
    BY <1>1, <1>3
  <2>2. b \in 0 .. e /\ b .. b + k - 1 \in SUBSET (0 .. e - 1) /\ x \in b .. b + k - 1 /\ b \in b .. b + k - 1
    BY ONLY <2>1
  <2> QED
    BY <1>1, <2>2
<1>4. CASE ch = "CR"
  <2>1. PICK v : v = tty_upd_cr(s)
    OBVIOUS
  <2>2. v \in Screen /\ v.buf = s.buf /\ v.cursor = b /\ v.dirty = s.dirty
    BY <1>1, <1>3, <1>9, <2>1 DEF tty_upd_cr, Screen
  <2>3. PICK u : u = tty_mark(v, b .. b + k - 1)
    OBVIOUS
  <2>4. tty_putc(s, ch) = u
    <3>1. Line(v.cursor) = b .. b + k - 1
      BY <1>3, <2>2
    <3>2. tty_putc(s, ch) = tty_mark(v, Line(v.cursor))
      BY <1>4, <2>1, PutCases
    <3> QED
      BY <2>3, <3>1, <3>2
  <2>5. u \in Screen /\ u.buf = s.buf /\ u.cursor = b /\ u.dirty = s.dirty \cup (b .. b + k - 1)
    BY <1>9, <2>2, <2>3, Mark
  <2> QED
    BY <1>1, <1>9, <2>4, <2>5
<1>5. CASE ch = "BS"
  <2>1. PICK v : v = tty_upd_backsp(s)
    OBVIOUS
  <2>2. PICK y : y = IF x = 0 THEN 0 ELSE x - 1
    OBVIOUS
  <2>3. y \in 0 .. e - 1 /\ y + 1 \in 0 .. e - 1 /\ (x = y \/ x = y + 1) /\ (x = y => x = 0) /\ y \in 0 .. end
    BY <1>1, <2>2
  <2>4. v \in Screen /\ v.cursor = y /\ v.dirty = s.dirty /\ \A c \in Cell : c # y => v.buf[c] = s.buf[c]
    <3>1. CASE x = 0
      BY <1>1, <2>1, <2>2, <3>1 DEF tty_upd_backsp
    <3>2. CASE x # 0
      <4>1. v = [s EXCEPT !.cursor = y, !.buf = [s.buf EXCEPT ![y] = Blank]]
        BY <1>1, <2>1, <2>2, <3>2 DEF tty_upd_backsp, Screen
      <4>2. [s.buf EXCEPT ![y] = Blank] \in [Cell -> Glyph] /\ \A c \in Cell : c # y => [s.buf EXCEPT ![y] = Blank][c] = s.buf[c]
        BY <1>2 DEF Glyph
      <4> QED
        BY <1>2, <2>3, <4>1, <4>2 DEF Screen
    <3> QED
      BY <3>1, <3>2
  <2>5. PICK u : u = tty_mark(v, {y, y + 1})
    OBVIOUS
  <2>6. tty_putc(s, ch) = u
    BY <1>5, <2>1, <2>4, <2>5, PutCases
  <2>7. u \in Screen /\ u.buf = v.buf /\ u.cursor = y /\ u.dirty = s.dirty \cup {y, y + 1}
    BY <1>1, <2>3, <2>4, <2>5, Mark
  <2> QED
    BY <1>1, <2>3, <2>4, <2>6, <2>7
<1>6. CASE ch = "LF"
  <2>1. PICK v : v = [s EXCEPT !.cursor = b + k]
    OBVIOUS
  <2>2. tty_upd_lf(tty_upd_cr(s)) = v /\ v \in Screen /\ v.buf = s.buf /\ v.cursor = b + k /\ v.dirty = s.dirty
    <3>1. tty_upd_cr(s) = [s EXCEPT !.cursor = b]
      BY <1>1, <1>3 DEF tty_upd_cr
    <3>2. b + k \in 0 .. end
      BY SMTT(30), <1>1, <1>3
    <3> QED
      BY <1>1, <1>2, <2>1, <3>1, <3>2 DEF tty_upd_lf, Screen
  <2>3. tty_putc(s, ch) = MarkOr(v, Line(v.cursor - columns) \cup Line(v.cursor))
    BY <1>6, <2>2, PutCases
  <2>4. CASE b + k = e
    <3>1. Scrolls(v) /\ tty_putc(s, ch) = v
      BY <1>1, <2>2, <2>3, <2>4 DEF Scrolls, MarkOr
    <3> QED
      BY <2>2, <3>1
  <2>5. CASE b + k # e
    <3>1. b + k \in Cell /\ ~Scrolls(v)
      <4>1. b + k \in 0 .. e - 1
        BY SMTT(30), <1>1, <1>3, <2>5
      <4> QED
        BY <1>1, <2>2, <2>5, <4>1 DEF Scrolls
    <3>2. v.cursor - columns = b
      BY <1>1, <1>3, <2>2
    <3>3. PICK g : g = Line(b + k) /\ g \subseteq Cell /\ b + k \in g
      <4>1. PICK z \in Nat : z <= b + k /\ b + k < z + k /\ z + k <= e /\ Line(b + k) = z .. z + k - 1
        BY <1>1, <3>1, LineOf
      <4>2. k \in Nat \ {0} /\ e \in Nat /\ b \in Nat
        BY <1>1, <1>3
      <4>3. z .. z + k - 1 \in SUBSET (0 .. e - 1) /\ b + k \in z .. z + k - 1
        BY ONLY <4>1, <4>2
      <4> QED
        BY <1>1, <4>1, <4>3
    <3>4. PICK u : u = tty_mark(v, (b .. b + k - 1) \cup g)
      OBVIOUS
    <3>5. tty_putc(s, ch) = u
      BY <1>3, <2>2, <2>3, <3>1, <3>2, <3>3, <3>4 DEF MarkOr
    <3>6. (b .. b + k - 1) \cup g \in SUBSET Cell
      BY <1>9, <3>3
    <3>7. u \in Screen /\ u.buf = s.buf /\ u.cursor = b + k /\ u.dirty = s.dirty \cup ((b .. b + k - 1) \cup g)
      BY <2>2, <3>4, <3>6, Mark
    <3> QED
      BY <1>1, <1>9, <3>3, <3>5, <3>7
  <2> QED
    BY <2>4, <2>5
<1>7. CASE ch = Nothing
  <2>1. tty_putc(s, ch) = s
    BY <1>7, PutCases
  <2> QED
    BY <2>1
<1>8. CASE ch \notin {"CR", "BS", "LF", Nothing}
  <2>1. ch \in Glyph
    BY <1>8 DEF Glyph
  <2>2. PICK v : v = [s EXCEPT !.buf = [s.buf EXCEPT ![x] = ch], !.cursor = x + 1]
    OBVIOUS
  <2>3. /\ tty_upd_putc(s, ch) = v /\ v \in Screen /\ v.cursor = x + 1 /\ v.dirty = s.dirty
        /\ v.buf = [s.buf EXCEPT ![x] = ch]
    <3>1. x + 1 \in 0 .. end /\ [s.buf EXCEPT ![x] = ch] \in [Cell -> Glyph]
      BY <1>1, <1>2, <2>1
    <3> QED
      BY <1>1, <1>2, <2>2, <3>1 DEF tty_upd_putc, Screen
  <2>4. tty_putc(s, ch) = MarkOr(v, EchoMarks(v))
    BY <1>8, <2>3, PutCases
  <2>5. CASE x + 1 = e
    <3>1. Scrolls(v) /\ tty_putc(s, ch) = v
      BY <1>1, <2>3, <2>4, <2>5 DEF Scrolls, MarkOr
    <3> QED
      BY <2>3, <3>1
  <2>6. CASE x + 1 # e
    <3>1. ~Scrolls(v) /\ EchoMarks(v) = {x, x + 1} /\ {x, x + 1} \subseteq Cell
      BY <1>1, <2>3, <2>6 DEF Scrolls, EchoMarks
    <3>2. PICK u : u = tty_mark(v, {x, x + 1})
      OBVIOUS
    <3>3. tty_putc(s, ch) = u
      BY <2>3, <2>4, <3>1, <3>2 DEF MarkOr
    <3>4. u \in Screen /\ u.buf = [s.buf EXCEPT ![x] = ch] /\ u.cursor = x + 1 /\ u.dirty = s.dirty \cup {x, x + 1}
      BY <2>3, <3>1, <3>2, Mark
    <3> QED
      BY <1>1, <1>2, <3>3, <3>4
  <2> QED
    BY <2>5, <2>6
<1> QED
  BY <1>4, <1>5, <1>6, <1>7, <1>8

(* The critical section of tty_write, as far as the invariants see it.     *)
LEMMA WriteEffect ==
  ASSUME TtyInv, NEW w \in Task, NEW t \in Ttys, NEW l,
         NEW ch \in Char \cup {"CR", "LF", "BS", Nothing}, write(w, t, ch, l)
  PROVE  /\ lock[t] = NULL /\ tty[t].cursor \in Cell
         /\ dev' = [dev EXCEPT ![w] = t] /\ then' = [then EXCEPT ![w] = l]
         /\ UNCHANGED <<show_cursor, current, shown, sp_buf, mark>>
         /\ \E s \in Screen :
              /\ tty' = [tty EXCEPT ![t] = s] /\ tty[t].dirty \subseteq s.dirty
              /\ \/ /\ s.cursor = end
                    /\ lock' = [lock EXCEPT ![t] = w] /\ pc' = [pc EXCEPT ![w] = "scroll"]
                 \/ /\ s.cursor # end /\ UNCHANGED lock /\ pc' = [pc EXCEPT ![w] = "render"]
                    /\ \A c \in Cell \ s.dirty :
                         s.buf[c] = tty[t].buf[c] /\ (c = tty[t].cursor <=> c = s.cursor)
<1>1. /\ lock[t] = NULL /\ dev' = [dev EXCEPT ![w] = t] /\ then' = [then EXCEPT ![w] = l]
      /\ UNCHANGED <<show_cursor, current, shown, sp_buf, mark>>
  BY DEF write, MayWrite, fb
<1>2. tty[t] \in Screen /\ tty[t].cursor \in Cell
  <2>1. tty[t] \in Screen /\ tty[t].cursor # end
    BY <1>1 DEF TtyInv, TtyTypes, OnScreen
  <2>2. tty[t].cursor \in 0 .. end
    BY <2>1 DEF Screen
  <2> QED
    BY <2>1, <2>2, Size
<1>3. PICK s : s = tty_putc(tty[t], ch)
  OBVIOUS
<1>4. /\ s \in Screen /\ tty[t].dirty \subseteq s.dirty
      /\ ~Scrolls(s) => \A c \in Cell \ s.dirty :
                           s.buf[c] = tty[t].buf[c] /\ (c = tty[t].cursor <=> c = s.cursor)
  BY <1>2, <1>3, PutStep
<1>5. /\ tty' = [tty EXCEPT ![t] = s]
      /\ \/ Scrolls(s) /\ lock' = [lock EXCEPT ![t] = w] /\ pc' = [pc EXCEPT ![w] = "scroll"]
         \/ ~Scrolls(s) /\ UNCHANGED lock /\ pc' = [pc EXCEPT ![w] = "render"]
  BY <1>3 DEF write, Goto
<1> QED
  BY <1>1, <1>2, <1>4, <1>5 DEF Scrolls

(* A task that holds no lock writes.                                       *)
LEMMA WriteStep ==
  ASSUME TtyInv, NEW w \in Task, NEW t \in Ttys, NEW l \in {"idle", "key"}, pc[w] \notin Holding,
         NEW ch \in Char \cup {"CR", "LF", "BS", Nothing}, write(w, t, ch, l)
  PROVE  TtyInv'
<1>1. TtyTypes /\ Locked /\ OnScreen
  BY DEF TtyInv
<1>2. PICK s \in Screen :
        /\ tty' = [tty EXCEPT ![t] = s]
        /\ \/ /\ s.cursor = end
              /\ lock' = [lock EXCEPT ![t] = w] /\ pc' = [pc EXCEPT ![w] = "scroll"]
           \/ s.cursor # end /\ UNCHANGED lock /\ pc' = [pc EXCEPT ![w] = "render"]
  BY WriteEffect
<1>3. /\ lock[t] = NULL /\ dev' = [dev EXCEPT ![w] = t] /\ then' = [then EXCEPT ![w] = l]
      /\ UNCHANGED <<show_cursor, current, shown, sp_buf, mark>>
  BY WriteEffect
<1>4. NULL \notin Task
  BY Size
<1>5. TtyTypes'
  BY <1>1, <1>2, <1>3 DEF TtyTypes, Holding
<1>6. \A u \in Ttys : lock[u] # w
  BY <1>1, <1>4 DEF Locked, TtyTypes
<1>7. Locked' /\ OnScreen'
  <2>1. /\ tty'[t] = s /\ (\A u \in Ttys : u # t => tty'[u] = tty[u])
        /\ dev'[w] = t /\ (\A v \in Task : v # w => dev'[v] = dev[v])
    BY <1>1, <1>2, <1>3 DEF TtyTypes
  <2>2. CASE lock' = [lock EXCEPT ![t] = w] /\ pc' = [pc EXCEPT ![w] = "scroll"] /\ s.cursor = end
    <3>1. /\ lock'[t] = w /\ (\A u \in Ttys : u # t => lock'[u] = lock[u])
          /\ pc'[w] = "scroll" /\ (\A v \in Task : v # w => pc'[v] = pc[v])
      BY <1>1, <2>2 DEF TtyTypes
    <3> QED
      BY <1>1, <1>3, <1>4, <1>6, <2>1, <2>2, <3>1 DEF Locked, OnScreen, TtyTypes, Holding
  <2>3. CASE UNCHANGED lock /\ pc' = [pc EXCEPT ![w] = "render"] /\ s.cursor # end
    <3>1. pc'[w] = "render" /\ (\A v \in Task : v # w => pc'[v] = pc[v])
      BY <1>1, <2>3 DEF TtyTypes
    <3> QED
      BY <1>1, <1>3, <1>4, <1>6, <2>1, <2>3, <3>1 DEF Locked, OnScreen, TtyTypes, Holding
  <2> QED
    BY <1>2, <2>2, <2>3
<1> QED
  BY <1>5, <1>7 DEF TtyInv

(* The text moves up, and the lock is let go.                              *)
LEMMA ScrollStep ==
  ASSUME TtyInv, NEW w \in Task, write_scroll(w)
  PROVE  /\ TtyInv'
         /\ tty[dev[w]].cursor = end /\ lock[dev[w]] = w
         /\ tty'[dev[w]].dirty = Cell
<1>1. TtyTypes /\ Locked /\ OnScreen
  BY DEF TtyInv
<1>2. PICK t \in Ttys : t = dev[w]
  BY <1>1 DEF TtyTypes
<1>3. /\ pc[w] = "scroll" /\ tty' = [tty EXCEPT ![t] = tty_mark(tty_upd_scrollup(tty[t]), Cell)]
      /\ lock' = [lock EXCEPT ![t] = NULL] /\ pc' = [pc EXCEPT ![w] = "render"]
      /\ UNCHANGED <<show_cursor, current, shown, dev, sp_buf, then, mark>>
  BY <1>2 DEF write_scroll, Goto, fb
<1>4. tty[t] \in Screen /\ tty[t].cursor = end /\ lock[t] = w
  BY <1>1, <1>2, <1>3 DEF TtyTypes, OnScreen, Locked, Holding
<1>5. PICK v : v = tty_upd_scrollup(tty[t])
  OBVIOUS
<1>6. v \in Screen /\ v.cursor = end - columns /\ v.dirty = tty[t].dirty
  <2>1. PICK f : f = [c \in Cell |-> IF c + columns \in Cell THEN tty[t].buf[c + columns] ELSE Blank]
    OBVIOUS
  <2>2. f \in [Cell -> Glyph]
    BY <1>4, <2>1 DEF Screen, Glyph
  <2>3. end - columns \in 0 .. end
    BY Size
  <2>4. v = [tty[t] EXCEPT !.buf = f, !.cursor = end - columns]
    BY <1>4, <1>5, <2>1 DEF tty_upd_scrollup
  <2> QED
    BY <1>4, <2>2, <2>3, <2>4 DEF Screen
<1>7. PICK s : s = tty_mark(v, Cell)
  OBVIOUS
<1>8. s \in Screen /\ s.cursor = end - columns /\ s.dirty = Cell
  BY SMTT(30), <1>4, <1>6, <1>7, Mark DEF Screen
<1>9. s.cursor # end
  BY <1>8, Size
<1>10. tty' = [tty EXCEPT ![t] = s]
  BY <1>3, <1>5, <1>7
<1>11. TtyTypes'
  BY <1>1, <1>3, <1>8, <1>10 DEF TtyTypes
<1>12. /\ tty'[t] = s /\ (\A u \in Ttys : u # t => tty'[u] = tty[u])
       /\ lock'[t] = NULL /\ (\A u \in Ttys : u # t => lock'[u] = lock[u])
       /\ pc'[w] = "render" /\ (\A x \in Task : x # w => pc'[x] = pc[x])
  BY <1>1, <1>3, <1>10 DEF TtyTypes
<1>13. \A x \in Task : x # w /\ pc[x] \in Holding => dev[x] # t
  BY <1>1, <1>4 DEF Locked
<1>14. NULL \notin Task
  BY Size
<1>15. Locked'
  BY <1>1, <1>2, <1>3, <1>12, <1>13, <1>14 DEF Locked, TtyTypes, Holding
<1>16. OnScreen'
  BY <1>1, <1>2, <1>3, <1>9, <1>12, <1>13, <1>14 DEF OnScreen, Locked, TtyTypes, Holding
<1> QED
  BY <1>2, <1>4, <1>8, <1>11, <1>12, <1>15, <1>16 DEF TtyInv

(* A step of a task that holds no lock and takes none, and that may mark   *)
(* cells or turn to another tty.                                           *)
LEMMA QuietStep ==
  ASSUME TtyInv, NEW w \in Task, pc[w] \notin Holding,
         NEW p \in {"idle", "key", "mark", "marked", "switch", "switched", "render"}, pc' = [pc EXCEPT ![w] = p],
         NEW d \in Ttys, dev' = [dev EXCEPT ![w] = d], NEW t \in Ttys, NEW cells \in SUBSET Cell,
         tty' = tty \/ tty' = [tty EXCEPT ![t] = tty_mark(@, cells)],
         UNCHANGED <<lock, sp_buf, then>>, show_cursor' \in BOOLEAN, mark' \in 0 .. end
  PROVE  TtyInv'
<1>1. TtyTypes /\ Locked /\ OnScreen /\ NULL \notin Task
  BY Size DEF TtyInv
<1>2. tty' \in [Ttys -> Screen] /\ \A u \in Ttys : tty'[u].cursor = tty[u].cursor
  <2>1. tty[t] \in Screen
    BY <1>1 DEF TtyTypes
  <2>2. tty_mark(tty[t], cells) \in Screen /\ tty_mark(tty[t], cells).cursor = tty[t].cursor
    BY <2>1, Mark
  <2> QED
    BY <1>1, <2>2 DEF TtyTypes
<1>3. /\ pc'[w] = p /\ dev'[w] = d
      /\ \A x \in Task : x # w => pc'[x] = pc[x] /\ dev'[x] = dev[x]
  BY <1>1 DEF TtyTypes
<1>4. TtyTypes'
  BY <1>1, <1>2 DEF TtyTypes, Holding
<1>5. \A u \in Ttys : lock[u] # w
  BY <1>1 DEF Locked
<1>6. Locked' /\ OnScreen'
  BY <1>1, <1>2, <1>3, <1>5 DEF Locked, OnScreen, TtyTypes, Holding
<1> QED
  BY <1>4, <1>6 DEF TtyInv

(* tty_render: the lock is taken, the sprites are drawn, the marks cleared *)
(* and the lock let go.                                                    *)
LEMMA RenderStep ==
  ASSUME TtyInv, NEW w \in Task, tty_render(w) \/ fb_write(w) \/ render_clear(w)
  PROVE  TtyInv'
<1>1. TtyTypes /\ Locked /\ OnScreen /\ NULL \notin Task
  BY Size DEF TtyInv
<1>2. PICK t \in Ttys : t = dev[w]
  BY <1>1 DEF TtyTypes
<1>3. UNCHANGED <<show_cursor, dev, then, mark>> /\ DOMAIN sp_buf' = Ttys
  BY <1>1 DEF tty_render, fb_write, render_clear, fb, TtyTypes
<1>4. CASE tty_render(w)
  <2>1. /\ pc[w] = "render" /\ lock[t] = NULL /\ lock' = [lock EXCEPT ![t] = w]
        /\ pc' = [pc EXCEPT ![w] = "draw"] /\ tty' = tty
    BY <1>2, <1>4 DEF tty_render, Goto
  <2>2. /\ lock'[t] = w /\ (\A u \in Ttys : u # t => lock'[u] = lock[u])
        /\ pc'[w] = "draw" /\ (\A x \in Task : x # w => pc'[x] = pc[x])
    BY <1>1, <2>1 DEF TtyTypes
  <2>3. TtyTypes'
    BY <1>1, <1>3, <2>1 DEF TtyTypes, Holding
  <2> QED
    BY <1>1, <1>2, <1>3, <2>1, <2>2, <2>3 DEF TtyInv, Locked, OnScreen, TtyTypes, Holding
<1>5. CASE fb_write(w)
  <2>1. pc[w] = "draw" /\ pc' = [pc EXCEPT ![w] = "clear"] /\ tty' = tty /\ lock' = lock
    BY <1>5 DEF fb_write, Goto
  <2>2. pc'[w] = "clear" /\ (\A x \in Task : x # w => pc'[x] = pc[x])
    BY <1>1, <2>1 DEF TtyTypes
  <2>3. TtyTypes'
    BY <1>1, <1>3, <2>1 DEF TtyTypes, Holding
  <2> QED
    BY <1>1, <1>2, <1>3, <2>1, <2>2, <2>3 DEF TtyInv, Locked, OnScreen, TtyTypes, Holding
<1>6. CASE render_clear(w)
  <2>1. /\ pc[w] = "clear" /\ lock' = [lock EXCEPT ![t] = NULL] /\ tty' = [tty EXCEPT ![t].dirty = {}]
        /\ pc' = [pc EXCEPT ![w] = then[w]]
    BY <1>2, <1>6 DEF render_clear, Goto
  <2>2. /\ lock'[t] = NULL /\ (\A u \in Ttys : u # t => lock'[u] = lock[u])
        /\ pc'[w] \in {"idle", "key"} /\ (\A x \in Task : x # w => pc'[x] = pc[x])
    BY <1>1, <2>1 DEF TtyTypes
  <2>3. tty' \in [Ttys -> Screen] /\ \A u \in Ttys : tty'[u].cursor = tty[u].cursor
    <3>1. [tty[t] EXCEPT !.dirty = {}] \in Screen /\ [tty[t] EXCEPT !.dirty = {}].cursor = tty[t].cursor
      <4>1. tty[t] \in Screen /\ {} \in SUBSET Cell
        BY <1>1 DEF TtyTypes
      <4> QED
        BY <4>1 DEF Screen
    <3> QED
      BY <1>1, <2>1, <3>1 DEF TtyTypes
  <2>4. TtyTypes'
    BY <1>1, <1>3, <2>1, <2>3 DEF TtyTypes, Holding
  <2>5. lock[t] = w /\ tty[t].cursor # end
    BY <1>1, <1>2, <2>1 DEF Locked, OnScreen, Holding
  <2>6. Locked'
    BY <1>1, <1>2, <1>3, <2>1, <2>2, <2>5 DEF Locked, TtyTypes, Holding
  <2>7. OnScreen'
    BY <1>1, <1>2, <1>3, <2>1, <2>2, <2>3, <2>5 DEF Locked, OnScreen, TtyTypes, Holding
  <2> QED
    BY <2>4, <2>6, <2>7 DEF TtyInv
<1> QED
  BY <1>4, <1>5, <1>6

LEMMA TtyInitInv == Init => TtyInv
<1> SUFFICES ASSUME Init PROVE TtyInv
  OBVIOUS
<1>1. [buf |-> [c \in Cell |-> Blank], cursor |-> 0, dirty |-> {}] \in Screen
  BY Size DEF Screen, Glyph
<1>2. TtyTypes
  <2>1. tty \in [Ttys -> Screen]
    BY <1>1 DEF Init
  <2>2. /\ lock \in [Ttys -> Task \cup {NULL}] /\ show_cursor \in BOOLEAN /\ DOMAIN sp_buf = Ttys
        /\ then \in [Task -> {"idle", "key"}] /\ mark \in 0 .. end
        /\ dev \in [Task -> Ttys]
    BY Size DEF Init
  <2>3. pc \in [Task -> {"start", "idle"}]
    BY DEF Init
  <2> QED
    BY <2>1, <2>2, <2>3 DEF TtyTypes
<1>3. Locked /\ OnScreen
  BY Size DEF Init, Locked, OnScreen, Holding
<1> QED
  BY <1>2, <1>3 DEF TtyInv

(* The steps of the daemon between its writes.                             *)
Marking == daemon_start \/ key \/ (\E t \in Ttys : switch_mark(t)) \/ switch_display \/ blink \/ blink_mark

LEMMA MarkingStep == ASSUME TtyInv, Marking PROVE TtyInv'
<1>1. TtyTypes /\ "daemon" \in Task /\ Cell \in SUBSET Cell
  BY Size DEF TtyInv
<1>2. PICK d \in Ttys : d = dev["daemon"] /\ dev = [dev EXCEPT !["daemon"] = d]
  BY <1>1 DEF TtyTypes
<1>3. show_cursor \in BOOLEAN /\ mark \in 0 .. end
  BY <1>1 DEF TtyTypes
<1>4. CASE daemon_start
  BY <1>1, <1>2, <1>3, <1>4, QuietStep DEF daemon_start, MarkAll, Goto, Holding
<1>5. CASE key
  BY <1>1, <1>2, <1>3, <1>5, QuietStep DEF key, Goto, Holding
<1>6. ASSUME NEW t \in Ttys, switch_mark(t) PROVE TtyInv'
  BY <1>1, <1>3, <1>6, QuietStep DEF switch_mark, MarkAll, Goto, Holding
<1>7. CASE switch_display
  BY <1>1, <1>2, <1>3, <1>7, QuietStep DEF switch_display, Goto, Holding
<1>8. CASE blink
  <2>1. tty[d].cursor \in 0 .. end
    BY <1>1 DEF TtyTypes, Screen
  <2>2. /\ pc["daemon"] \in {"key", "idle"} /\ show_cursor' \in BOOLEAN /\ mark' = tty[d].cursor
        /\ pc' = [pc EXCEPT !["daemon"] = "mark"] /\ UNCHANGED <<tty, lock, dev, sp_buf, then>>
    BY <1>2, <1>3, <1>8 DEF blink, Goto
  <2> QED
    BY <1>1, <1>2, <2>1, <2>2, QuietStep DEF Holding
<1>9. CASE blink_mark
  <2>1. {mark} \cap Cell \in SUBSET Cell
    OBVIOUS
  <2>2. /\ pc["daemon"] = "mark" /\ tty' = [tty EXCEPT ![d] = tty_mark(@, {mark} \cap Cell)]
        /\ pc' = [pc EXCEPT !["daemon"] = "marked"] /\ UNCHANGED <<lock, show_cursor, dev, sp_buf, then, mark>>
    BY <1>2, <1>9 DEF blink_mark, Blinked, Goto
  <2> QED
    BY <1>1, <1>2, <1>3, <2>1, <2>2, QuietStep DEF Holding
<1> QED
  BY <1>4, <1>5, <1>6, <1>7, <1>8, <1>9 DEF Marking

(* Every other step of Next: a tty_write, or a part of one.                *)
Writes(w) ==
  /\ pc[w] \in {"idle", "switched", "marked"}
  /\ \E t \in Ttys, ch \in Char \cup {"CR", "LF", "BS", Nothing}, l \in {"idle", "key"} :
       write(w, t, ch, l) /\ (w = "daemon" => t = dev[w])

LEMMA Steps ==
  ASSUME TtyTypes, Next
  PROVE  Marking \/ \E w \in Task : Writes(w) \/ write_scroll(w) \/ tty_render(w) \/ fb_write(w) \/ render_clear(w)
<1>1. "daemon" \in Task /\ dev["daemon"] \in Ttys
  BY Size DEF TtyTypes
<1>2. ASSUME NEW ch \in Char \cup {"LF", "BS"}, echo(ch) PROVE Writes("daemon")
  BY <1>1, <1>2 DEF echo, Writes
<1>3. ASSUME switch_render \/ blink_render PROVE Writes("daemon")
  BY <1>1, <1>3 DEF switch_render, blink_render, Writes
<1>4. ASSUME NEW w \in Writer, NEW t \in Ttys, NEW ch \in Char \cup {"CR", "LF", "BS"}, tty_write(w, t, ch)
      PROVE  w \in Task /\ Writes(w)
  BY <1>4, Size DEF tty_write, Writes, Task
<1> QED
  BY <1>1, <1>2, <1>3, <1>4 DEF Next, Daemon, Marking

LEMMA TtyNext == TtyInv /\ [Next]_vars => TtyInv'
<1> SUFFICES ASSUME TtyInv, [Next]_vars PROVE TtyInv'
  OBVIOUS
<1>1. CASE UNCHANGED vars
  BY <1>1 DEF vars, fb, TtyInv, TtyTypes, Locked, OnScreen
<1>2. CASE Next
  <2>1. ASSUME NEW w \in Task, Writes(w) PROVE TtyInv'
    BY <2>1, WriteStep DEF Writes, Holding
  <2>2. Marking \/ \E w \in Task : Writes(w) \/ write_scroll(w) \/ tty_render(w) \/ fb_write(w) \/ render_clear(w)
    BY <1>2, Steps DEF TtyInv
  <2> QED
    BY <2>1, <2>2, MarkingStep, ScrollStep, RenderStep
<1> QED
  BY <1>1, <1>2

(* The code's indices stay in its arrays: the cursor is on the screen      *)
(* whenever tty_putc writes at it or tty_render looks for it, and at the   *)
(* end only between the last character and the scrolling.                  *)
THEOREM CursorOnScreen == Spec => []TtyInv
  BY TtyInitInv, TtyNext, PTL DEF Spec

(* From tty_render's lock to the end of its fb_write the text and cursor   *)
(* of the tty stay as they were, and marks are only added.                 *)
THEOREM RenderedAsIs == Spec => Frozen
<1>1. TtyInv /\ [Next]_vars =>
        [\A t \in Ttys : lock[t] # NULL /\ lock'[t] # NULL =>
          /\ lock'[t] = lock[t]
          /\ tty'[t].buf = tty[t].buf /\ tty'[t].cursor = tty[t].cursor
          /\ tty[t].dirty \subseteq tty'[t].dirty]_vars
  <2> SUFFICES ASSUME TtyInv, Next, NEW t \in Ttys, lock[t] # NULL, lock'[t] # NULL
               PROVE  /\ lock'[t] = lock[t]
                      /\ tty'[t].buf = tty[t].buf /\ tty'[t].cursor = tty[t].cursor
                      /\ tty[t].dirty \subseteq tty'[t].dirty
    OBVIOUS
  <2>1. TtyTypes /\ tty[t] \in Screen
    BY DEF TtyInv, TtyTypes
  <2>2. ASSUME NEW u \in Ttys, NEW cells \in SUBSET Cell, tty' = [tty EXCEPT ![u] = tty_mark(@, cells)]
        PROVE  /\ tty'[t].buf = tty[t].buf /\ tty'[t].cursor = tty[t].cursor
               /\ tty[t].dirty \subseteq tty'[t].dirty
    <3>1. tty'[t] = IF t = u THEN tty_mark(tty[t], cells) ELSE tty[t]
      BY <2>1, <2>2 DEF TtyTypes
    <3> QED
      BY <2>1, <3>1, Mark
  <2>3. CASE Marking
    <3>1. lock' = lock
      BY <2>3 DEF Marking, daemon_start, key, switch_mark, switch_display, blink, blink_mark
    <3>2. /\ dev["daemon"] \in Ttys
          /\ \/ tty' = tty
             \/ \E u \in Ttys, cells \in SUBSET Cell : tty' = [tty EXCEPT ![u] = tty_mark(@, cells)]
      <4>1. dev["daemon"] \in Ttys /\ Cell \in SUBSET Cell /\ {mark} \cap Cell \in SUBSET Cell
        BY <2>1, Size DEF TtyTypes
      <4>2. CASE daemon_start
        BY <4>1, <4>2 DEF daemon_start, MarkAll
      <4>3. CASE \E u \in Ttys : switch_mark(u)
        BY <4>1, <4>3 DEF switch_mark, MarkAll
      <4>4. CASE blink_mark
        BY <4>1, <4>4 DEF blink_mark, Blinked
      <4> QED
        BY <2>3, <4>1, <4>2, <4>3, <4>4 DEF Marking, key, switch_display, blink
    <3> QED
      BY <2>2, <3>1, <3>2
  <2>4. ASSUME NEW w \in Task, Writes(w)
        PROVE  lock'[t] = lock[t] /\ tty'[t] = tty[t]
    <3>1. PICK u \in Ttys, ch \in Char \cup {"CR", "LF", "BS", Nothing},
            l \in {"idle", "key"} : write(w, u, ch, l)
      BY <2>4 DEF Writes
    <3>2. /\ lock[u] = NULL /\ \E s : tty' = [tty EXCEPT ![u] = s]
          /\ lock' = lock \/ lock' = [lock EXCEPT ![u] = w]
      BY SMTT(30), <3>1, WriteEffect
    <3> QED
      BY <2>1, <3>2 DEF TtyTypes
  <2>5. ASSUME NEW w \in Task, write_scroll(w) \/ render_clear(w)
        PROVE  lock'[t] = lock[t] /\ tty'[t] = tty[t]
    <3>1. dev[w] # t
      BY <2>1, <2>5 DEF write_scroll, render_clear, TtyTypes
    <3> QED
      BY <2>1, <2>5, <3>1 DEF write_scroll, render_clear, TtyTypes
  <2>6. ASSUME NEW w \in Task, tty_render(w) \/ fb_write(w)
        PROVE  lock'[t] = lock[t] /\ tty'[t] = tty[t]
    BY <2>1, <2>6 DEF tty_render, fb_write, TtyTypes
  <2> QED
    BY <2>1, <2>3, <2>4, <2>5, <2>6, Steps
<1> QED
  BY CursorOnScreen, <1>1, PTL DEF Spec, Frozen

----------------------------------------------------------------------------
(* What the display shows *)

(* A marking step changes no text and no cursor, only adds marks, and ends *)
(* where the marks it made will be drawn.                                  *)
Pending == {"scroll", "render", "draw", "clear", "marked", "switch", "switched"}

LEMMA MarkingEffect ==
  ASSUME TtyInv, Marking
  PROVE  /\ UNCHANGED <<lock, shown, sp_buf, then>>
         /\ pc["daemon"] \notin Holding
         /\ \E l \in {"idle", "key", "mark", "marked", "switch", "switched", "render"} : pc' = [pc EXCEPT !["daemon"] = l]
         /\ \A t \in Ttys : /\ tty'[t].buf = tty[t].buf /\ tty'[t].cursor = tty[t].cursor
                            /\ tty[t].dirty \subseteq tty'[t].dirty
                            /\ tty'[t] # tty[t] => pc'["daemon"] \in Pending
         /\ pc["daemon"] \in Pending => pc'["daemon"] \in Pending
<1>1. TtyTypes /\ "daemon" \in Task /\ Cell \in SUBSET Cell /\ {mark} \cap Cell \in SUBSET Cell /\ dev["daemon"] \in Ttys
  BY Size DEF TtyInv, TtyTypes
<1>2. ASSUME NEW u \in Ttys, NEW cells \in SUBSET Cell, tty' = [tty EXCEPT ![u] = tty_mark(@, cells)], NEW t \in Ttys
      PROVE  /\ tty'[t].buf = tty[t].buf /\ tty'[t].cursor = tty[t].cursor
             /\ tty[t].dirty \subseteq tty'[t].dirty
  <2>1. tty[t] \in Screen /\ tty'[t] = IF t = u THEN tty_mark(tty[t], cells) ELSE tty[t]
    BY <1>1, <1>2 DEF TtyTypes
  <2> QED
    BY <2>1, Mark
<1>3. CASE daemon_start
  <2>1. /\ tty' = [tty EXCEPT ![dev["daemon"]] = tty_mark(@, Cell)] /\ pc' = [pc EXCEPT !["daemon"] = "render"]
        /\ UNCHANGED <<lock, shown, sp_buf, then>> /\ pc["daemon"] = "start"
    BY <1>3 DEF daemon_start, MarkAll, Goto, fb
  <2>2. pc'["daemon"] = "render"
    BY <1>1, <2>1 DEF TtyTypes
  <2> QED
    BY <1>1, <1>2, <2>1, <2>2 DEF Pending, Holding
<1>4. CASE key
  BY <1>1, <1>4 DEF key, Goto, fb, Pending, Holding
<1>5. ASSUME NEW u \in Ttys, switch_mark(u)
      PROVE  /\ tty' = [tty EXCEPT ![u] = tty_mark(@, Cell)] /\ pc' = [pc EXCEPT !["daemon"] = "switch"]
             /\ UNCHANGED <<lock, shown, sp_buf, then>> /\ pc["daemon"] = "idle" /\ pc'["daemon"] = "switch"
  BY <1>1, <1>5 DEF switch_mark, MarkAll, Goto, fb, TtyTypes
<1>6. CASE switch_display
  <2>1. pc["daemon"] = "switch" /\ pc' = [pc EXCEPT !["daemon"] = "switched"] /\ UNCHANGED <<tty, lock, shown, sp_buf, then>>
    BY <1>6 DEF switch_display, Goto
  <2>2. pc'["daemon"] = "switched"
    BY <1>1, <2>1 DEF TtyTypes
  <2> QED
    BY <2>1, <2>2 DEF Pending, Holding
<1>7. CASE blink
  BY <1>1, <1>7 DEF blink, Goto, fb, Pending, Holding
<1>8. CASE blink_mark
  <2>1. /\ tty' = [tty EXCEPT ![dev["daemon"]] = tty_mark(@, {mark} \cap Cell)] /\ pc' = [pc EXCEPT !["daemon"] = "marked"]
        /\ UNCHANGED <<lock, shown, sp_buf, then>> /\ pc["daemon"] = "mark"
    BY <1>8 DEF blink_mark, Blinked, Goto, fb
  <2>2. pc'["daemon"] = "marked"
    BY <1>1, <2>1 DEF TtyTypes
  <2> QED
    BY <1>1, <1>2, <2>1, <2>2 DEF Pending, Holding
<1>9. CASE \E u \in Ttys : switch_mark(u)
  BY <1>1, <1>2, <1>5, <1>9 DEF Pending, Holding
<1> QED
  BY <1>3, <1>4, <1>6, <1>7, <1>8, <1>9 DEF Marking

(* Any number of tasks on tty 1.  A cell is good if it shows its text, or  *)
(* the cursor where that is, or nothing where nothing was ever written.    *)
Good(c) ==
  LET s == tty[1]
  IN  shown[c] = s.buf[c] \/ (shown[c] = Off /\ s.buf[c] = Blank) \/ (shown[c] = Block /\ c = s.cursor)
Sprite(c) ==
  LET s == tty[1]  x == sp_buf[1][c]
  IN  x = s.buf[c] \/ (x = Block /\ c = s.cursor)

(* Unmarked cells are good while nobody has the lock; between fb_write's   *)
(* sprites and the clearing of the marks all are, those marked in between  *)
(* included; and marks do not stay behind when all are done.               *)
TextInv ==
  /\ TtyInv
  /\ current = 1 /\ \A w \in Task : dev[w] = 1
  /\ lock[1] = NULL => \A c \in Cell \ tty[1].dirty : Good(c)
  /\ \A w \in Task : pc[w] = "draw" => \A c \in Cell : IF c \in DOMAIN sp_buf[1] THEN Sprite(c) ELSE Good(c)
  /\ \A w \in Task : pc[w] = "clear" => \A c \in Cell : Good(c)
  /\ tty[1].dirty # {} => \E w \in Task : pc[w] \in Pending

LEMMA TextInitInv == Init => TextInv
<1> SUFFICES ASSUME Init PROVE TextInv
  OBVIOUS
<1>1. tty[1] = [buf |-> [c \in Cell |-> Blank], cursor |-> 0, dirty |-> {}]
  BY Size DEF Init
<1>2. \A c \in Cell : Good(c)
  BY <1>1 DEF Init, Good
<1>3. \A w \in Task : pc[w] # "draw" /\ pc[w] # "clear"
  BY DEF Init
<1>4. TtyInv /\ current = 1 /\ \A w \in Task : dev[w] = 1
  BY TtyInitInv DEF Init
<1>5. tty[1].dirty = {}
  BY <1>1
<1> QED
  BY <1>2, <1>3, <1>4, <1>5 DEF TextInv

LEMMA TextNext ==
  ASSUME TextInv, Next, \A w \in Task : dev'[w] = 1
  PROVE  TextInv'
<1>1. TtyInv /\ TtyTypes /\ Locked /\ current = 1 /\ tty[1] \in Screen /\ 1 \in Ttys /\ "daemon" \in Task
  BY Size DEF TextInv, TtyInv, TtyTypes
<1>2. TtyInv'
  BY <1>1, TtyNext
<1>3. current' = 1
  <2>1. ASSUME NEW w \in Task, Writes(w) PROVE current' = current
    BY <2>1 DEF Writes, write, fb
  <2>2. CASE Marking
    BY <1>1, <2>2 DEF TextInv, Marking, daemon_start, key, switch_mark, switch_display, blink, blink_mark, fb
  <2> QED
    BY <1>1, <2>1, <2>2, Steps DEF write_scroll, tty_render, fb_write, render_clear, fb
<1>4. ASSUME NEW w \in Task, pc[w] \in Holding PROVE lock[1] = w
  BY <1>4 DEF TextInv, TtyInv, Locked
<1>5. NULL \notin Task
  BY Size
<1>6. CASE Marking
  <2>1. PICK l \in {"idle", "key", "mark", "marked", "switch", "switched", "render"} : pc' = [pc EXCEPT !["daemon"] = l]
    BY <1>1, <1>6, MarkingEffect
  <2>2. \A w \in Task : pc'[w] = IF w = "daemon" THEN l ELSE pc[w]
    BY <1>1, <2>1 DEF TtyTypes
  <2>3. /\ UNCHANGED <<lock, shown, sp_buf>> /\ tty'[1].buf = tty[1].buf /\ tty'[1].cursor = tty[1].cursor
        /\ tty[1].dirty \subseteq tty'[1].dirty
        /\ tty'[1] # tty[1] => pc'["daemon"] \in Pending
        /\ pc["daemon"] \in Pending => pc'["daemon"] \in Pending
    BY <1>1, <1>6, MarkingEffect
  <2>4. \A c \in Cell : (Good(c) => Good(c)') /\ (Sprite(c) => Sprite(c)')
    BY <2>3 DEF Good, Sprite
  <2>5. tty'[1].dirty # {} => \E w \in Task : pc'[w] \in Pending
    BY <1>1, <2>2, <2>3 DEF TextInv
  <2> QED
    BY <1>2, <1>3, <2>2, <2>3, <2>4, <2>5 DEF TextInv
<1>7. ASSUME NEW w \in Task, Writes(w) PROVE TextInv'
  <2>1. PICK t \in Ttys, ch \in Char \cup {"CR", "LF", "BS", Nothing}, l \in {"idle", "key"} : write(w, t, ch, l)
    BY <1>7 DEF Writes
  <2>2. t = 1
    BY <1>1, <2>1 DEF write, TtyTypes
  <2>3. lock[1] = NULL /\ UNCHANGED <<shown, sp_buf>>
    BY <1>1, <2>1, <2>2, WriteEffect
  <2>4. PICK s \in Screen :
          /\ tty' = [tty EXCEPT ![1] = s] /\ tty[1].dirty \subseteq s.dirty
          /\ \/ lock' = [lock EXCEPT ![1] = w] /\ pc' = [pc EXCEPT ![w] = "scroll"]
             \/ /\ UNCHANGED lock /\ pc' = [pc EXCEPT ![w] = "render"]
                /\ \A c \in Cell \ s.dirty : s.buf[c] = tty[1].buf[c] /\ (c = tty[1].cursor <=> c = s.cursor)
    BY <1>1, <2>1, <2>2, WriteEffect
  <2>5. tty'[1] = s
    BY <1>1, <2>4 DEF TtyTypes
  <2>6. \A x \in Task : pc[x] \notin Holding
    BY <1>4, <1>5, <2>3
  <2>7. pc'[w] \in {"scroll", "render"} /\ \A x \in Task : x # w => pc'[x] = pc[x]
    BY <1>1, <2>4 DEF TtyTypes
  <2>8. lock'[1] = NULL => \A c \in Cell \ tty'[1].dirty : Good(c)'
    <3>1. CASE lock' = [lock EXCEPT ![1] = w]
      BY <1>1, <1>5, <3>1 DEF TtyTypes
    <3>2. CASE \A c \in Cell \ s.dirty : s.buf[c] = tty[1].buf[c] /\ (c = tty[1].cursor <=> c = s.cursor)
      BY <2>3, <2>4, <2>5, <3>2 DEF TextInv, Good
    <3> QED
      BY <2>4, <3>1, <3>2
  <2> QED
    BY <1>2, <1>3, <2>6, <2>7, <2>8 DEF TextInv, Pending, Holding
<1>8. ASSUME NEW w \in Task, write_scroll(w) PROVE TextInv'
  <2>1. tty'[1].dirty = Cell /\ lock[1] = w
    BY <1>1, <1>8, ScrollStep DEF TextInv
  <2>2. pc' = [pc EXCEPT ![w] = "render"]
    BY <1>8 DEF write_scroll, Goto
  <2>3. pc'[w] = "render" /\ \A x \in Task : x # w => pc'[x] = pc[x] /\ pc[x] \notin Holding
    BY <1>1, <1>4, <2>1, <2>2 DEF TtyTypes
  <2> QED
    BY <1>2, <1>3, <2>1, <2>3 DEF TextInv, Pending, Holding
<1>9. ASSUME NEW w \in Task, tty_render(w) PROVE TextInv'
  <2>1. /\ lock[1] = NULL /\ lock' = [lock EXCEPT ![1] = w] /\ pc' = [pc EXCEPT ![w] = "draw"]
        /\ sp_buf' = [sp_buf EXCEPT ![1] = [c \in tty[1].dirty |-> Draw(tty[1], c)]] /\ UNCHANGED <<tty, shown>>
    BY <1>9 DEF TextInv, tty_render, Goto, fb
  <2>2. pc'[w] = "draw" /\ \A x \in Task : x # w => pc'[x] = pc[x] /\ pc[x] \notin Holding
    BY <1>1, <1>4, <1>5, <2>1 DEF TtyTypes
  <2>3. lock'[1] # NULL /\ sp_buf'[1] = [c \in tty[1].dirty |-> Draw(tty[1], c)]
    BY <1>1, <1>5, <2>1 DEF TtyTypes
  <2>4. ASSUME NEW c \in Cell PROVE (IF c \in DOMAIN sp_buf[1] THEN Sprite(c) ELSE Good(c))'
    <3>1. CASE c \in tty[1].dirty
      BY <2>1, <2>3, <3>1 DEF Sprite, Draw
    <3>2. CASE c \notin tty[1].dirty
      BY <2>1, <2>3, <3>2 DEF TextInv, Good
    <3> QED
      BY <3>1, <3>2
  <2> QED
    BY <1>2, <1>3, <2>2, <2>3, <2>4 DEF TextInv, Pending, Holding
<1>10. ASSUME NEW w \in Task, fb_write(w) PROVE TextInv'
  <2>1. /\ pc[w] = "draw" /\ pc' = [pc EXCEPT ![w] = "clear"] /\ UNCHANGED <<tty, lock>>
        /\ shown' = [c \in Cell |-> IF c \in DOMAIN sp_buf[1] THEN sp_buf[1][c] ELSE shown[c]]
    BY <1>1, <1>10 DEF TextInv, fb_write, Goto
  <2>2. lock[1] = w
    BY <1>4, <2>1 DEF Holding
  <2>3. pc'[w] = "clear" /\ \A x \in Task : x # w => pc'[x] = pc[x] /\ pc[x] \notin Holding
    BY <1>1, <1>4, <2>1, <2>2 DEF TtyTypes
  <2>4. ASSUME NEW c \in Cell PROVE Good(c)'
    <3>1. IF c \in DOMAIN sp_buf[1] THEN Sprite(c) ELSE Good(c)
      BY <2>1 DEF TextInv
    <3> QED
      BY <2>1, <3>1 DEF Good, Sprite
  <2> QED
    BY <1>2, <1>3, <2>3, <2>4 DEF TextInv, Pending, Holding
<1>11. ASSUME NEW w \in Task, render_clear(w) PROVE TextInv'
  <2>1. /\ pc[w] = "clear" /\ pc' = [pc EXCEPT ![w] = then[w]] /\ UNCHANGED shown
        /\ tty' = [tty EXCEPT ![1].dirty = {}]
    BY <1>11 DEF TextInv, render_clear, Goto, fb
  <2>2. lock[1] = w
    BY <1>4, <2>1 DEF Holding
  <2>3. pc'[w] \in {"idle", "key"} /\ \A x \in Task : x # w => pc'[x] = pc[x] /\ pc[x] \notin Holding
    BY <1>1, <1>4, <2>1, <2>2 DEF TtyTypes
  <2>4. tty'[1].dirty = {} /\ tty'[1].buf = tty[1].buf /\ tty'[1].cursor = tty[1].cursor
    <3>1. tty'[1] = [tty[1] EXCEPT !.dirty = {}]
      BY <1>1, <2>1 DEF TtyTypes
    <3> QED
      BY <1>1, <3>1 DEF Screen
  <2>5. \A c \in Cell : Good(c)'
    BY <2>1, <2>4 DEF TextInv, Good
  <2> QED
    BY <1>2, <1>3, <2>3, <2>4, <2>5 DEF TextInv, Holding
<1> QED
  BY <1>1, <1>6, <1>7, <1>8, <1>9, <1>10, <1>11, Steps

LEMMA TextInvShown == TextInv => TextShown
<1> SUFFICES ASSUME TextInv, AtRest PROVE \A c \in Cell : Good(c)
  BY DEF TextShown, Good, TextInv
<1>1. \A w \in Task : pc[w] = "idle"
  BY DEF AtRest
<1>2. lock[1] = NULL
  BY <1>1, Size DEF TextInv, TtyInv, TtyTypes, Locked, Holding
<1>3. tty[1].dirty = {}
  BY <1>1 DEF TextInv, Pending
<1> QED
  BY <1>2, <1>3 DEF TextInv

(* The daemon alone, on whatever tty.                                      *)
Exact(c) == shown[c] = Draw(tty[dev["daemon"]], c)

(* Cells that do not show the daemon's tty and its cursor are marked,      *)
(* except the one that blink has turned and not marked yet; fb_write's     *)
(* sprites replace them; and where the marks are cleared there are none.   *)
AloneInv ==
  /\ TtyInv
  /\ \A w \in Writer : pc[w] = "idle"
  /\ pc["daemon"] # "switch" => current = dev["daemon"]
  /\ pc["daemon"] \in {"idle", "key", "clear"} => \A c \in Cell : Exact(c)
  /\ pc["daemon"] = "mark" => /\ mark = tty[dev["daemon"]].cursor /\ mark \in Cell
                              /\ \A c \in Cell \ {mark} : Exact(c)
  /\ pc["daemon"] \in {"marked", "render", "switch", "switched"} =>
       \A c \in Cell \ tty[dev["daemon"]].dirty : Exact(c)
  /\ pc["daemon"] = "draw" =>
       LET x == sp_buf[dev["daemon"]]
       IN  \A c \in Cell : IF c \in DOMAIN x THEN x[c] = Draw(tty[dev["daemon"]], c) ELSE Exact(c)

LEMMA AloneInitInv == Init => AloneInv
<1> SUFFICES ASSUME Init PROVE AloneInv
  OBVIOUS
<1>1. pc["daemon"] = "start" /\ (\A w \in Writer : pc[w] = "idle") /\ current = dev["daemon"]
  BY Size DEF Init, Task
<1> QED
  BY <1>1, TtyInitInv DEF AloneInv

LEMMA AloneNext ==
  ASSUME AloneInv, Next, \A w \in Writer : pc'[w] = "idle"
  PROVE  AloneInv'
<1>1. /\ TtyInv /\ TtyTypes /\ Locked /\ OnScreen /\ "daemon" \in Task /\ NULL \notin Task
      /\ \A w \in Writer : pc[w] = "idle"
  BY Size DEF AloneInv, TtyInv
<1>2. TtyInv'
  BY <1>1, TtyNext
<1>3. PICK d \in Ttys : d = dev["daemon"]
  BY <1>1 DEF TtyTypes
<1>4. tty[d] \in Screen
  BY <1>1 DEF TtyTypes
<1>5. Marking \/ Writes("daemon") \/ write_scroll("daemon") \/ tty_render("daemon") \/ fb_write("daemon") \/ render_clear("daemon")
  <2>1. ASSUME NEW w \in Writer
        PROVE  ~(Writes(w) \/ write_scroll(w) \/ tty_render(w) \/ fb_write(w) \/ render_clear(w))
    <3>1. pc[w] = "idle" /\ pc'[w] = "idle" /\ w \in Task
      BY <1>1, <2>1 DEF Task
    <3>2. ASSUME Writes(w) PROVE FALSE
      <4>1. PICK t \in Ttys, ch \in Char \cup {"CR", "LF", "BS", Nothing}, l \in {"idle", "key"} : write(w, t, ch, l)
        BY <3>2 DEF Writes
      <4>2. pc' = [pc EXCEPT ![w] = "scroll"] \/ pc' = [pc EXCEPT ![w] = "render"]
        BY <4>1 DEF write, Goto
      <4> QED
        BY <1>1, <3>1, <4>2 DEF TtyTypes
    <3> QED
      BY <3>1, <3>2 DEF write_scroll, tty_render, fb_write, render_clear
  <2> QED
    BY <1>1, <2>1, Steps DEF Task
<1>6. CASE Marking
  <2>1. ASSUME NEW l, pc' = [pc EXCEPT !["daemon"] = l]
        PROVE  pc'["daemon"] = l /\ \A w \in Writer : pc'[w] = "idle"
    BY <1>1, <2>1, Size DEF TtyTypes, Task
  <2>2. ASSUME NEW t \in Ttys, tty' = MarkAll(t)
        PROVE  tty'[t].dirty = Cell
    <3>1. tty[t] \in Screen /\ tty'[t] = tty_mark(tty[t], Cell)
      BY <1>1, <2>2 DEF TtyTypes, MarkAll
    <3> QED
      BY <3>1, Mark DEF Screen
  <2>3. CASE daemon_start
    <3>1. /\ pc["daemon"] = "start" /\ UNCHANGED <<current, dev>> /\ tty' = MarkAll(d)
          /\ pc' = [pc EXCEPT !["daemon"] = "render"]
      BY <1>3, <2>3 DEF daemon_start, Goto, fb
    <3>2. pc'["daemon"] = "render" /\ tty'[d].dirty = Cell
      BY <2>1, <2>2, <3>1
    <3> QED
      BY <1>1, <1>2, <1>3, <2>1, <3>1, <3>2 DEF AloneInv
  <2>4. CASE key
    <3>1. /\ pc["daemon"] = "idle" /\ UNCHANGED <<tty, show_cursor, current, shown, dev>>
          /\ pc' = [pc EXCEPT !["daemon"] = "key"]
      BY <2>4 DEF key, Goto, fb
    <3>2. pc'["daemon"] = "key" /\ \A c \in Cell : Exact(c)'
      BY <2>1, <3>1 DEF AloneInv, Exact, Draw
    <3> QED
      BY <1>2, <2>1, <3>1, <3>2 DEF AloneInv
  <2>5. ASSUME NEW t \in Ttys, switch_mark(t) PROVE AloneInv'
    <3>1. tty' = MarkAll(t) /\ dev' = [dev EXCEPT !["daemon"] = t] /\ pc' = [pc EXCEPT !["daemon"] = "switch"]
      BY <2>5 DEF switch_mark, Goto
    <3>2. dev'["daemon"] = t /\ pc'["daemon"] = "switch" /\ tty'[t].dirty = Cell
      BY <1>1, <2>1, <2>2, <3>1 DEF TtyTypes
    <3> QED
      BY <1>2, <2>1, <3>1, <3>2 DEF AloneInv
  <2>6. CASE switch_display
    <3>1. /\ pc["daemon"] = "switch" /\ UNCHANGED <<tty, show_cursor, shown, dev>> /\ current' = d
          /\ pc' = [pc EXCEPT !["daemon"] = "switched"]
      BY <1>3, <2>6 DEF switch_display, Goto
    <3>2. pc'["daemon"] = "switched" /\ \A c \in Cell \ tty[d].dirty : Exact(c)'
      BY <1>3, <2>1, <3>1 DEF AloneInv, Exact, Draw
    <3> QED
      BY <1>2, <1>3, <2>1, <3>1, <3>2 DEF AloneInv
  <2>7. CASE blink
    <3>1. /\ pc["daemon"] \in {"idle", "key"} /\ UNCHANGED <<tty, current, shown, dev>> /\ mark' = tty[d].cursor
          /\ pc' = [pc EXCEPT !["daemon"] = "mark"]
      BY <1>3, <2>7 DEF blink, Goto, fb
    <3>2. tty[d].cursor \in Cell
      <4>1. \A w \in Task : pc[w] # "scroll"
        BY <1>1, <3>1 DEF Task
      <4>2. tty[d].cursor # end
        BY <1>1, <4>1 DEF OnScreen, TtyTypes
      <4>3. tty[d].cursor \in 0 .. end
        BY <1>4 DEF Screen
      <4> QED
        BY <4>2, <4>3, Size
    <3>3. pc'["daemon"] = "mark" /\ \A c \in Cell \ {tty[d].cursor} : Exact(c)'
      BY <1>3, <2>1, <3>1 DEF AloneInv, Exact, Draw
    <3> QED
      BY <1>2, <1>3, <2>1, <3>1, <3>2, <3>3 DEF AloneInv
  <2>8. CASE blink_mark
    <3>1. /\ pc["daemon"] = "mark" /\ UNCHANGED <<show_cursor, current, shown, dev>>
          /\ tty' = [tty EXCEPT ![d] = tty_mark(@, {mark} \cap Cell)] /\ pc' = [pc EXCEPT !["daemon"] = "marked"]
      BY <1>3, <2>8 DEF blink_mark, Blinked, Goto, fb
    <3>2. /\ tty'[d].buf = tty[d].buf /\ tty'[d].cursor = tty[d].cursor
          /\ tty'[d].dirty = tty[d].dirty \cup ({mark} \cap Cell)
      <4>1. tty'[d] = tty_mark(tty[d], {mark} \cap Cell) /\ {mark} \cap Cell \in SUBSET Cell
        BY <1>1, <3>1 DEF TtyTypes
      <4> QED
        BY <1>4, <4>1, Mark
    <3>3. \A c \in Cell \ tty'[d].dirty : Exact(c)'
      BY SMTT(30), <1>3, <3>1, <3>2 DEF AloneInv, Exact, Draw
    <3>4. pc'["daemon"] = "marked"
      BY <2>1, <3>1
    <3> QED
      BY <1>2, <1>3, <2>1, <3>1, <3>3, <3>4 DEF AloneInv
  <2> QED
    BY <1>6, <2>3, <2>4, <2>5, <2>6, <2>7, <2>8 DEF Marking
<1>7. CASE Writes("daemon")
  <2>1. PICK ch \in Char \cup {"CR", "LF", "BS", Nothing}, l \in {"idle", "key"} : write("daemon", d, ch, l)
    BY <1>3, <1>7 DEF Writes
  <2>2. /\ dev' = [dev EXCEPT !["daemon"] = d] /\ UNCHANGED <<show_cursor, current, shown, sp_buf, mark>>
        /\ \E s \in Screen :
             /\ tty' = [tty EXCEPT ![d] = s] /\ tty[d].dirty \subseteq s.dirty
             /\ \/ pc' = [pc EXCEPT !["daemon"] = "scroll"]
                \/ /\ pc' = [pc EXCEPT !["daemon"] = "render"]
                   /\ \A c \in Cell \ s.dirty : s.buf[c] = tty[d].buf[c] /\ (c = tty[d].cursor <=> c = s.cursor)
    BY <1>1, <2>1, WriteEffect
  <2>3. PICK s \in Screen :
          /\ tty' = [tty EXCEPT ![d] = s] /\ tty[d].dirty \subseteq s.dirty
          /\ \/ pc' = [pc EXCEPT !["daemon"] = "scroll"]
             \/ /\ pc' = [pc EXCEPT !["daemon"] = "render"]
                /\ \A c \in Cell \ s.dirty : s.buf[c] = tty[d].buf[c] /\ (c = tty[d].cursor <=> c = s.cursor)
    BY <2>2
  <2>4. dev'["daemon"] = d /\ tty'[d] = s /\ pc["daemon"] \in {"idle", "switched", "marked"} /\ current' = d
    BY <1>1, <1>3, <1>7, <2>2, <2>3 DEF TtyTypes, Writes, AloneInv
  <2>5. CASE pc' = [pc EXCEPT !["daemon"] = "scroll"]
    <3>1. pc'["daemon"] = "scroll"
      BY <1>1, <2>5 DEF TtyTypes
    <3> QED
      BY <1>2, <2>4, <3>1 DEF AloneInv
  <2>6. CASE /\ pc' = [pc EXCEPT !["daemon"] = "render"]
             /\ \A c \in Cell \ s.dirty : s.buf[c] = tty[d].buf[c] /\ (c = tty[d].cursor <=> c = s.cursor)
    <3>1. pc'["daemon"] = "render"
      BY <1>1, <2>6 DEF TtyTypes
    <3>2. \A c \in Cell \ tty[d].dirty : Exact(c)
      BY <1>3, <2>4 DEF AloneInv
    <3>3. \A c \in Cell \ s.dirty : Exact(c)'
      BY <1>3, <2>2, <2>3, <2>4, <2>6, <3>2 DEF Exact, Draw
    <3> QED
      BY <1>2, <2>4, <3>1, <3>3 DEF AloneInv
  <2> QED
    BY <2>3, <2>5, <2>6
<1>8. CASE write_scroll("daemon")
  <2>1. /\ tty'[d].dirty = Cell /\ UNCHANGED <<current, dev>> /\ pc["daemon"] = "scroll"
        /\ pc' = [pc EXCEPT !["daemon"] = "render"]
    BY <1>1, <1>3, <1>8, ScrollStep DEF write_scroll, Goto, fb
  <2>2. pc'["daemon"] = "render"
    BY <1>1, <2>1 DEF TtyTypes
  <2> QED
    BY <1>2, <1>3, <2>1, <2>2 DEF AloneInv
<1>9. CASE tty_render("daemon")
  <2>1. /\ pc["daemon"] = "render" /\ pc' = [pc EXCEPT !["daemon"] = "draw"]
        /\ sp_buf' = [sp_buf EXCEPT ![d] = [c \in tty[d].dirty |-> Draw(tty[d], c)]]
        /\ UNCHANGED <<tty, show_cursor, current, shown, dev>>
    BY <1>3, <1>9 DEF tty_render, Goto, fb
  <2>2. pc'["daemon"] = "draw" /\ sp_buf'[d] = [c \in tty[d].dirty |-> Draw(tty[d], c)]
    BY <1>1, <2>1 DEF TtyTypes
  <2>3. \A c \in Cell : IF c \in DOMAIN sp_buf'[d] THEN sp_buf'[d][c] = Draw(tty[d], c) ELSE Exact(c)
    BY <1>3, <2>1, <2>2 DEF AloneInv
  <2>4. \A c \in Cell : (Exact(c)' <=> Exact(c)) /\ (Draw(tty[d], c))' = Draw(tty[d], c)
    BY <2>1 DEF Exact, Draw
  <2> QED
    BY <1>2, <1>3, <2>1, <2>2, <2>3, <2>4 DEF AloneInv
<1>10. CASE fb_write("daemon")
  <2>1. /\ pc["daemon"] = "draw" /\ pc' = [pc EXCEPT !["daemon"] = "clear"]
        /\ UNCHANGED <<tty, show_cursor, current, dev>> /\ current = d
        /\ shown' = [c \in Cell |-> IF c \in DOMAIN sp_buf[d] THEN sp_buf[d][c] ELSE shown[c]]
    BY <1>3, <1>10 DEF fb_write, Goto, AloneInv
  <2>2. pc'["daemon"] = "clear"
    BY <1>1, <2>1 DEF TtyTypes
  <2>3. \A c \in Cell : Exact(c)'
    BY <1>3, <2>1 DEF AloneInv, Exact, Draw
  <2> QED
    BY <1>2, <1>3, <2>1, <2>2, <2>3 DEF AloneInv
<1>11. CASE render_clear("daemon")
  <2>1. /\ pc["daemon"] = "clear" /\ pc' = [pc EXCEPT !["daemon"] = then["daemon"]]
        /\ UNCHANGED <<show_cursor, current, shown, dev>> /\ tty' = [tty EXCEPT ![d].dirty = {}]
    BY <1>3, <1>11 DEF render_clear, Goto, fb
  <2>2. pc'["daemon"] \in {"idle", "key"}
    BY <1>1, <2>1 DEF TtyTypes
  <2>3. tty'[d].buf = tty[d].buf /\ tty'[d].cursor = tty[d].cursor
    <3>1. tty'[d] = [tty[d] EXCEPT !.dirty = {}]
      BY <1>1, <2>1 DEF TtyTypes
    <3> QED
      BY <1>4, <3>1 DEF Screen
  <2>4. \A c \in Cell : Exact(c)'
    BY <1>3, <2>1, <2>3 DEF AloneInv, Exact, Draw
  <2> QED
    BY <1>2, <1>3, <2>1, <2>2, <2>4 DEF AloneInv
<1> QED
  BY <1>5, <1>6, <1>7, <1>8, <1>9, <1>10, <1>11

LEMMA AloneShown == AloneInv => CellsShown /\ TextShown
<1> SUFFICES ASSUME AloneInv, AtRest PROVE \A c \in Cell : shown[c] = Draw(tty[current], c)
  BY DEF CellsShown, TextShown, Draw
<1>1. pc["daemon"] = "idle"
  BY Size DEF AtRest
<1> QED
  BY <1>1 DEF AloneInv, Exact

(* However many tasks write to the first tty: when tty_write has returned  *)
(* to all of them and the daemon waits for a key, all text is displayed,   *)
(* although dev_tty_task marks without the tty's lock.                     *)
THEOREM TextComesThrough == Spec /\ [][\A w \in Task : dev'[w] = 1]_vars => []TextShown
<1>1. TextInv /\ [Next]_vars /\ [\A w \in Task : dev'[w] = 1]_vars => TextInv'
  <2>1. CASE UNCHANGED vars
    BY <2>1 DEF vars, fb, TextInv, TtyInv, TtyTypes, Locked, OnScreen, Good, Sprite
  <2> QED
    BY <2>1, TextNext
<1> QED
  BY <1>1, TextInitInv, TextInvShown, PTL DEF Spec

(* With nobody but dev_tty_task writing, the display shows the tty it      *)
(* switched to, cell by cell and with its cursor, whenever it waits.       *)
THEOREM DaemonShowsAll == Spec /\ [][\A w \in Writer : pc'[w] = "idle"]_vars => []CellsShown
<1>1. AloneInv /\ [Next]_vars /\ [\A w \in Writer : pc'[w] = "idle"]_vars => AloneInv'
  <2>1. CASE UNCHANGED vars
    BY <2>1 DEF vars, fb, AloneInv, TtyInv, TtyTypes, Locked, OnScreen, Exact, Draw
  <2> QED
    BY <2>1, AloneNext
<1> QED
  BY <1>1, AloneInitInv, AloneShown, PTL DEF Spec

(* Both, as the run has them.                                              *)
MCInv ==
  /\ alone = TRUE \/ alone = FALSE
  /\ alone => AloneInv
  /\ ~alone => TextInv

LEMMA MCInvariant == MCSpec => []MCInv
<1>1. MCInit => MCInv
  BY AloneInitInv, TextInitInv DEF MCInit, MCInv
<1>2. MCInv /\ [MCNext]_<<vars, alone>> => MCInv'
  <2> SUFFICES ASSUME MCInv, [MCNext]_<<vars, alone>> PROVE MCInv'
    OBVIOUS
  <2>1. CASE UNCHANGED <<vars, alone>>
    BY <2>1 DEF vars, fb, MCInv, AloneInv, TextInv, TtyInv, TtyTypes, Locked, OnScreen, Exact, Draw, Good, Sprite
  <2>2. CASE MCNext
    <3>1. alone' = alone /\ Next
      BY <2>2 DEF MCNext
    <3>2. CASE alone = TRUE
      BY <2>2, <3>1, <3>2, AloneNext DEF MCNext, MCInv
    <3>3. CASE alone = FALSE
      BY <2>2, <3>1, <3>3, TextNext DEF MCNext, MCInv
    <3> QED
      BY <3>2, <3>3 DEF MCInv
  <2> QED
    BY <2>1, <2>2
<1> QED
  BY <1>1, <1>2, PTL DEF MCSpec

(* Echo, scrolling, blinking and switching by dev_tty_task alone mark and  *)
(* draw every cell they change.                                            *)
THEOREM DisplayComplete == MCSpec => []Displayed
<1>1. MCInv => Displayed
  BY AloneShown DEF MCInv, Displayed
<1> QED
  BY <1>1, MCInvariant, PTL

(* Text that tty_write and dev_tty_task put on a tty gets to its display,  *)
(* whoever's tty_render clears the marks.                                  *)
THEOREM TextComplete == MCSpec => []TextShown
<1>1. MCInv => TextShown
  BY AloneShown, TextInvShown DEF MCInv
<1> QED
  BY <1>1, MCInvariant, PTL
=============================================================================
