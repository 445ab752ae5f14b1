-------------------------------- MODULE Tty ---------------------------------
(***************************************************************************)
(* The screen half of the virtual consoles, src/kernel/src/dev/dev_tty.c,  *)
(* with the frame buffer device they draw on, dev_video.c.                 *)
(*                                                                         *)
(* Each tty has its text, a cursor and dirty marks.  tty_write changes     *)
(* them under the tty's lock, lets go of it, and calls tty_render, which   *)
(* under the lock turns the dirty cells into sprites, hands them to        *)
(* fb_write and clears the marks.  fb_write draws the sprites of the tty   *)
(* on display.  The tty daemon echoes keys, blinks the cursor and switches *)
(* between ttys; it marks cells without the lock.                          *)
(*                                                                         *)
(* The critical section of tty_write is one step, or two if it scrolls,    *)
(* that of tty_render three: where the daemon's unlocked accesses can tell *)
(* the difference.  kmt's semaphores are external.                         *)
(*                                                                         *)
(* tty_upd_scrollup needs a memmove: klib's own panics, the native build   *)
(* has the C library's.  The welcome text is left out: it is one more      *)
(* tty_write.  A write is of at most one character.  The line of keys that *)
(* the daemon builds for tty_read is in Cook.                              *)
(***************************************************************************)
EXTENDS Integers

CONSTANTS
  Ttys,          \* numbers of the ttys; a tty's display has its number
  Writer,        \* the tasks that call tty_write
  lines, columns,
  Char,          \* characters that take a cell
  NULL

ASSUME TtyAssumption ==
  /\ Ttys \subseteq Nat /\ 1 \in Ttys
  /\ lines \in Nat \ {0} /\ columns \in Nat \ {0} /\ lines * columns >= 2
  /\ NULL \notin Writer \cup {"daemon"} /\ "daemon" \notin Writer

Cell   == 0 .. lines * columns - 1
end    == lines * columns
Blank  == "empty"
Block  == "block"       \* 0xdb, the cursor
Off    == "off"         \* a part of the display nothing was drawn on
Glyph  == Char \cup {Blank, Block}
Task   == Writer \cup {"daemon"}
Nothing == "nothing"    \* the empty string

VARIABLES
  tty,           \* per tty: buf, cursor and dirty (as a set of cells)
  lock,          \* per tty, who holds tty->lock
  show_cursor,
  current,       \* fb->info->current
  shown,         \* what the display shows in each cell
  pc,            \* per task, where it is
  dev,           \* per task, the tty it works on; the daemon's ttydev
  sp_buf,        \* per tty, the sprites of its tty_render: [cells -> Glyph]
  then,          \* per task, what follows its tty_render
  mark           \* the cell the daemon is about to mark

fb   == <<current, shown>>
vars == <<tty, lock, show_cursor, fb, pc, dev, sp_buf, then, mark>>

NoSprites == [c \in {} |-> Blank]

Init ==
  /\ tty = [t \in Ttys |-> [buf |-> [c \in Cell |-> Blank], cursor |-> 0, dirty |-> {}]]
  /\ lock = [t \in Ttys |-> NULL]
  /\ show_cursor = TRUE
  /\ current = 1
  /\ shown = [c \in Cell |-> Off]
  /\ pc = [w \in Task |-> IF w = "daemon" THEN "start" ELSE "idle"]
  /\ dev = [w \in Task |-> 1]
  /\ sp_buf = [t \in Ttys |-> NoSprites]
  /\ then = [w \in Task |-> "idle"]
  /\ mark = 0

----------------------------------------------------------------------------
(* tty_putc: s is a tty, the result the tty after it.  Definitions named    *)
(* *_Bug are slips this code invites; each is put in the place of the       *)
(* definition after it to see that a property notices.                      *)

Line(c) == (c \div columns) * columns .. (c \div columns) * columns + columns - 1

tty_upd_cr(s) == [s EXCEPT !.cursor = @ - (@ % columns)]
tty_upd_lf(s) == [s EXCEPT !.cursor = @ + columns]

tty_upd_backsp(s) ==
  IF s.cursor = 0 THEN s
  ELSE [s EXCEPT !.cursor = @ - 1, !.buf[s.cursor - 1] = Blank]

tty_upd_putc(s, ch) == [s EXCEPT !.buf[s.cursor] = ch, !.cursor = @ + 1]

(* A cursor at the end scrolls: the lines move up and the last one, where  *)
(* the cursor now is, is cleared.                                          *)
tty_upd_scrollup(s) ==
  [s EXCEPT !.buf = [c \in Cell |-> IF c + columns \in Cell THEN s.buf[c + columns] ELSE Blank],
            !.cursor = @ - columns]

tty_mark(s, cells) == [s EXCEPT !.dirty = @ \cup cells]

Scrolls(s) == s.cursor = end

EchoMarks_Bug(s) == {s.cursor}
(* The cell just written, and the one the cursor moved to. *)
EchoMarks(s) == {s.cursor - 1, s.cursor}

(* Marks are left to the scrolling when there is one. *)
MarkOr(s, cells) == IF Scrolls(s) THEN s ELSE tty_mark(s, cells)

(* tty_putc, up to the scrolling. *)
tty_putc(s, ch) ==
  CASE ch = "CR" -> LET u == tty_upd_cr(s) IN tty_mark(u, Line(u.cursor))
    [] ch = "BS" -> LET u == tty_upd_backsp(s) IN tty_mark(u, {u.cursor, u.cursor + 1})
    [] ch = "LF" -> LET u == tty_upd_lf(tty_upd_cr(s))
                    IN  MarkOr(u, Line(u.cursor - columns) \cup Line(u.cursor))
    [] ch = Nothing -> s
    [] OTHER -> LET u == tty_upd_putc(s, ch) IN MarkOr(u, EchoMarks(u))

----------------------------------------------------------------------------
(* tty_write *)

Goto(w, l) == pc' = [pc EXCEPT ![w] = l]

MayWrite_Bug(t) == TRUE
MayWrite(t) == lock[t] = NULL

(* The loop under the lock; tty_render comes next, and after it l.  If the *)
(* text scrolls, the cursor is seen at the end before it.                  *)
write(w, t, ch, l) ==
  LET s == tty_putc(tty[t], ch) IN
  /\ MayWrite(t)
  /\ tty' = [tty EXCEPT ![t] = s]
  /\ dev' = [dev EXCEPT ![w] = t]
  /\ then' = [then EXCEPT ![w] = l]
  /\ \/ Scrolls(s) /\ lock' = [lock EXCEPT ![t] = w] /\ Goto(w, "scroll")
     \/ ~Scrolls(s) /\ UNCHANGED lock /\ Goto(w, "render")
  /\ UNCHANGED <<show_cursor, fb, sp_buf, mark>>

write_scroll(w) ==
  /\ pc[w] = "scroll"
  /\ tty' = [tty EXCEPT ![dev[w]] = tty_mark(tty_upd_scrollup(@), Cell)]
  /\ lock' = [lock EXCEPT ![dev[w]] = NULL]
  /\ Goto(w, "render")
  /\ UNCHANGED <<show_cursor, fb, dev, sp_buf, then, mark>>

tty_write(w, t, ch) == pc[w] = "idle" /\ write(w, t, ch, "idle")

Draw(s, c) == IF c = s.cursor /\ show_cursor THEN Block ELSE s.buf[c]

(* tty_render: sprites of the dirty cells, under the lock; *)
tty_render(w) ==
  LET s == tty[dev[w]] IN
  /\ pc[w] = "render"
  /\ lock[dev[w]] = NULL
  /\ lock' = [lock EXCEPT ![dev[w]] = w]
  /\ sp_buf' = [sp_buf EXCEPT ![dev[w]] = [c \in s.dirty |-> Draw(s, c)]]
  /\ Goto(w, "draw")
  /\ UNCHANGED <<tty, show_cursor, fb, dev, then, mark>>

(* fb_write of the sprites, one at a time under fb_sem; *)
fb_write(w) ==
  /\ pc[w] = "draw"
  /\ shown' = IF dev[w] = current
              THEN [c \in Cell |-> IF c \in DOMAIN sp_buf[dev[w]] THEN sp_buf[dev[w]][c]
                                   ELSE shown[c]]
              ELSE shown
  /\ sp_buf' = [sp_buf EXCEPT ![dev[w]] = NoSprites]
  /\ Goto(w, "clear")
  /\ UNCHANGED <<tty, lock, show_cursor, current, dev, then, mark>>

(* and the marks cleared, whoever made them. *)
render_clear(w) ==
  /\ pc[w] = "clear"
  /\ tty' = [tty EXCEPT ![dev[w]].dirty = {}]
  /\ lock' = [lock EXCEPT ![dev[w]] = NULL]
  /\ Goto(w, then[w])
  /\ UNCHANGED <<show_cursor, fb, dev, sp_buf, then, mark>>

----------------------------------------------------------------------------
(* dev_tty_task *)

MarkAll_Bug(t) == tty
MarkAll(t) == [tty EXCEPT ![t] = tty_mark(@, Cell)]

daemon_start ==
  /\ pc["daemon"] = "start"
  /\ tty' = MarkAll(dev["daemon"])
  /\ Goto("daemon", "render")
  /\ UNCHANGED <<lock, show_cursor, fb, dev, sp_buf, then, mark>>

(* A key without ctrl or alt that tty_cook accepts is echoed. *)
echo(ch) ==
  /\ pc["daemon"] = "idle"
  /\ write("daemon", dev["daemon"], ch, "key")

(* Other keys (a backspace with nothing to erase, ctrl) change nothing but *)
(* the cursor.                                                             *)
key ==
  /\ pc["daemon"] = "idle"
  /\ Goto("daemon", "key")
  /\ UNCHANGED <<tty, lock, show_cursor, fb, dev, sp_buf, then, mark>>

(* Alt-1 and alt-2: mark the other tty, make it current, write nothing. *)
switch_mark(t) ==
  /\ pc["daemon"] = "idle"
  /\ t # dev["daemon"]
  /\ dev' = [dev EXCEPT !["daemon"] = t]
  /\ tty' = MarkAll(t)
  /\ Goto("daemon", "switch")
  /\ UNCHANGED <<lock, show_cursor, fb, sp_buf, then, mark>>

switch_display ==
  /\ pc["daemon"] = "switch"
  /\ current' = dev["daemon"]
  /\ Goto("daemon", "switched")
  /\ UNCHANGED <<tty, lock, show_cursor, shown, dev, sp_buf, then, mark>>

switch_render ==
  /\ pc["daemon"] = "switched"
  /\ write("daemon", dev["daemon"], Nothing, "key")

(* The end of a round: after a key the cursor is shown, after a tick it    *)
(* may be turned (the 500 ms are not modelled).  The cursor is read here   *)
(* and marked in the next step, both without the lock.                     *)
blink ==
  /\ pc["daemon"] \in {"key", "idle"}
  /\ show_cursor' = (~show_cursor \/ pc["daemon"] = "key")
  /\ mark' = tty[dev["daemon"]].cursor
  /\ Goto("daemon", "mark")
  /\ UNCHANGED <<tty, lock, fb, dev, sp_buf, then>>

(* A cursor seen at the end, while a writer scrolls, gives a mark one byte *)
(* behind the array.  The block that pmm->alloc rounded up has that byte   *)
(* unless lines * columns is a power of two; nobody reads it.              *)
Blinked == [tty EXCEPT ![dev["daemon"]] = tty_mark(@, {mark} \cap Cell)]

blink_mark ==
  /\ pc["daemon"] = "mark"
  /\ tty' = Blinked
  /\ Goto("daemon", "marked")
  /\ UNCHANGED <<lock, show_cursor, fb, dev, sp_buf, then, mark>>

blink_render ==
  /\ pc["daemon"] = "marked"
  /\ write("daemon", dev["daemon"], Nothing, "idle")

----------------------------------------------------------------------------
Daemon ==
  \/ daemon_start
  \/ \E ch \in Char \cup {"LF", "BS"} : echo(ch)
  \/ key
  \/ \E t \in Ttys : switch_mark(t)
  \/ switch_display \/ switch_render
  \/ blink \/ blink_mark \/ blink_render

Next ==
  \/ Daemon
  \/ \E w \in Writer, t \in Ttys, ch \in Char \cup {"CR", "LF", "BS"} : tty_write(w, t, ch)
  \/ \E w \in Task : write_scroll(w) \/ tty_render(w) \/ fb_write(w) \/ render_clear(w)

Spec == Init /\ [][Next]_vars

----------------------------------------------------------------------------
(* Properties *)

AtRest == \A w \in Task : pc[w] = "idle"

(* When nobody but the daemon writes, the display shows the tty that was   *)
(* switched to, cell by cell and with its cursor, whenever the daemon      *)
(* waits for a key: every change was marked and every mark drawn.          *)
CellsShown == AtRest => \A c \in Cell : shown[c] = Draw(tty[current], c)

(* With other writers too, all text of a tty that stays on the display is  *)
(* there when they are done and no cell has a cursor that was there before *)
(* (a cell never drawn counts as empty).  The cursor itself may be missing *)
(* or left on: its mark is made without the lock and the tty_render of     *)
(* another task may clear it undrawn.                                      *)
TextShown ==
  AtRest => \A c \in Cell :
    LET s == tty[current] IN
      \/ shown[c] = s.buf[c]
      \/ shown[c] = Off /\ s.buf[c] = Blank
      \/ shown[c] = Block /\ c = s.cursor

(* A tty_render under way holds its tty's lock, and nobody else changes    *)
(* that tty's text or cursor until it has cleared the marks: what it drew  *)
(* is what is there.                                                       *)
Frozen ==
  [][\A t \in Ttys : lock[t] # NULL /\ lock'[t] # NULL =>
       /\ lock'[t] = lock[t]
       /\ tty'[t].buf = tty[t].buf /\ tty'[t].cursor = tty[t].cursor
       /\ tty[t].dirty \subseteq tty'[t].dirty]_vars
=============================================================================
