-------------------------------- MODULE Klib --------------------------------
(***************************************************************************)
(* klib's formatted output and what reads it back: vsprintf, the sitoa it  *)
(* prints numbers with (klib/src/stdio.c), and atoi (klib/src/stdlib.c).   *)
(* Each step of vsprintf takes one character of the format.  An int has    *)
(* IntBits bits.                                                           *)
(***************************************************************************)
EXTENDS Integers, Sequences, SequencesExt, Null

CONSTANTS
  IntBits,
  Number,       \* the numbers tried, as unsigned words
  Conversion    \* pairs of conversions tried, see Directive

VARIABLES
  call,           \* the call: its conversions and arguments (NULL: none yet)
  fmt, ap,        \* what is left of the format and of the arguments
  out,            \* the text so far
  spec,           \* between a % and its conversion character
  width, flags    \* the locals of one conversion
klibvars == <<call, fmt, ap, out, spec, width, flags>>

Digits == <<"0", "1", "2", "3", "4", "5", "6", "7", "8", "9", "a", "b", "c", "d", "e", "f">>
Digit(c) == (CHOOSE i \in 1 .. Len(Digits) : Digits[i] = c) - 1
IsDigit(c) == \E i \in 1 .. 10 : Digits[i] = c

Word(x) == x % 2^IntBits
AsInt(x) == IF Word(x) < 2^(IntBits - 1) THEN Word(x) ELSE Word(x) - 2^IntBits

(* The digits of num from the lowest. *)
DigitsOf[base \in 2 .. 16, num \in Nat] ==
  <<Digits[1 + (num % base)]>> \o (IF num < base THEN <<>> ELSE DigitsOf[base, num \div base])

tmpSize_Bug == IntBits - 1

(* char tmp[32] has a character for each bit of an int. *)
tmpSize == IntBits

(* What is written past tmp is not told what it becomes: NULL. *)
tmp(base, num) ==
  [i \in DOMAIN DigitsOf[base, num] |-> IF i <= tmpSize THEN DigitsOf[base, num][i] ELSE NULL]

sitoa(num, w, f, base) ==
  LET t == tmp(base, num)
      fill == [i \in 1 .. w - Len(t) |-> IF "FILL_ZERO" \in f THEN "0" ELSE " "]
      sign == CASE "PUT_MINUS" \in f -> <<"-">>
                [] "PUT_MINUS" \notin f /\ "PUT_PLUS" \in f -> <<"+">>
                [] OTHER -> <<>>
  IN  fill \o sign \o Reverse(t)

(* The blanks are skipped, and the digits up to the next other character   *)
(* read into an int.                                                       *)
atoi(text) ==
  LET from == CHOOSE i \in 1 .. Len(text) + 1 :
                 /\ \A j \in 1 .. i - 1 : text[j] = " "
                 /\ i <= Len(text) => text[i] # " "
      upto == CHOOSE i \in from - 1 .. Len(text) :
                 /\ \A j \in from .. i : IsDigit(text[j])
                 /\ i < Len(text) => ~IsDigit(text[i + 1])
  IN  FoldLeft(LAMBDA x, c : AsInt(x * 10 + Digit(c)), 0, SubSeq(text, from, upto))

----------------------------------------------------------------------------
KlibInit ==
  /\ call = NULL /\ fmt = <<>> /\ ap = <<>> /\ out = <<>>
  /\ spec = FALSE /\ width = 0 /\ flags = {}

(* A conversion, a separator ("|%") and another conversion. *)
Directive(d) ==
  <<"%">> \o (IF d.zero THEN <<"0">> ELSE <<>>) \o (IF d.plus THEN <<"+">> ELSE <<>>)
          \o (IF d.width = 0 THEN <<>> ELSE Reverse(DigitsOf[10, d.width])) \o <<d.conv>>

ArgOf(d) == CASE d.conv = "c" -> {"x"} [] d.conv = "s" -> {NULL, <<>>, <<"x", "y">>} [] OTHER -> Number

sprintf ==
  /\ call = NULL
  /\ \E ds \in Conversion : \E x \in ArgOf(ds[1]), y \in ArgOf(ds[2]) :
       /\ call' = [conv |-> ds, ap |-> <<x, y>>]
       /\ fmt' = Directive(ds[1]) \o <<"|", "%", "%">> \o Directive(ds[2])
       /\ ap' = <<x, y>>
  /\ UNCHANGED <<out, spec, width, flags>>

Take(c) == fmt # <<>> /\ c = Head(fmt) /\ fmt' = Tail(fmt) /\ UNCHANGED call

(* The locals of a conversion start anew after each %. *)
Fresh == width' = 0 /\ flags' = {}

Text == ~spec /\ Take("|") /\ out' = Append(out, "|") /\ UNCHANGED <<ap, spec, width, flags>>

Begin == ~spec /\ Take("%") /\ spec' = TRUE /\ Fresh /\ UNCHANGED <<ap, out>>

(* A 0 is a flag unless a width precedes it, and a digit either way. *)
Width(c) ==
  /\ spec /\ Take(c)
  /\ flags' = IF c = "0" /\ width = 0 THEN flags \cup {"FILL_ZERO"} ELSE flags
  /\ width' = width * 10 + Digit(c)
  /\ UNCHANGED <<ap, out, spec>>

Plus == spec /\ Take("+") /\ flags' = flags \cup {"PUT_PLUS"} /\ UNCHANGED <<ap, out, spec, width>>

Put(c, text) ==
  /\ spec /\ Take(c) /\ spec' = FALSE
  /\ out' = out \o text /\ width' = 0
  /\ UNCHANGED flags

Percent == Put("%", <<"%">>) /\ UNCHANGED ap

(* -num of the least int is itself, and printed as the unsigned word. *)
Convert ==
  /\ ap # <<>> /\ ap' = Tail(ap)
  /\ LET arg == Head(ap)
         Minus == flags \cup {"PUT_MINUS"}
     IN  \/ Put("c", <<arg>>)
         \/ Put("s", IF arg = NULL THEN <<>> ELSE arg)
         \/ Put("d", IF AsInt(arg) < 0 THEN sitoa(Word(-arg), width, Minus, 10)
                                     ELSE sitoa(arg, width, flags, 10))
         \/ Put("u", sitoa(arg, width, flags, 10))
         \/ Put("p", sitoa(arg, 12, flags \cup {"FILL_ZERO"}, 16))
         \/ Put("x", sitoa(arg, width, flags, 16))
         \/ Put("b", sitoa(arg, width, flags, 2))

KlibNext == sprintf \/ Text \/ Begin \/ (\E c \in {"0", "1", "4"} : Width(c)) \/ Plus \/ Percent \/ Convert

----------------------------------------------------------------------------
Base == [d |-> 10, u |-> 10, p |-> 16, x |-> 16, b |-> 2]

ValueOf(digits, base) == FoldLeft(LAMBDA x, c : x * base + Digit(c), 0, digits)

Sign(d, num) == CASE num < 0 -> <<"-">> [] num >= 0 /\ d.plus -> <<"+">> [] OTHER -> <<>>

(* A field of a number: blanks or zeros up to the width, which does not    *)
(* count the sign; the sign; and the digits of the number.                 *)
NumberField(field, d, arg) ==
  LET num   == IF d.conv = "d" THEN AsInt(arg) ELSE arg
      least == IF d.conv = "p" THEN 12 ELSE d.width
      fill  == IF d.zero \/ d.conv = "p" THEN "0" ELSE " "
      sign  == Sign(d, num)
  IN  \E k \in 0 .. Len(field) - Len(sign) - 1 :
        LET digits == SubSeq(field, k + Len(sign) + 1, Len(field))
        IN  /\ \A i \in 1 .. k : field[i] = fill
            /\ SubSeq(field, k + 1, k + Len(sign)) = sign
            /\ Len(digits) = 1 \/ digits[1] # "0"
            /\ ToSet(digits) \subseteq ToSet(SubSeq(Digits, 1, Base[d.conv]))
            /\ ValueOf(digits, Base[d.conv]) = IF num < 0 THEN -num ELSE num
            /\ k = IF Len(digits) < least THEN least - Len(digits) ELSE 0

FieldSays(field, d, arg) ==
  CASE d.conv = "c" -> field = <<arg>>
    [] d.conv = "s" -> field = IF arg = NULL THEN <<>> ELSE arg
    [] OTHER -> /\ NumberField(field, d, arg)
                /\ Base[d.conv] = 10 /\ Sign(d, IF d.conv = "d" THEN AsInt(arg) ELSE arg) = <<>>
                     => atoi(field) = AsInt(arg)

(* Each field of what sprintf wrote says its own argument, the least int   *)
(* and the largest unsigned one too, with the fill, the width and the sign *)
(* that its own flags ask for.  klib puts the sign after the fill and does *)
(* not count it, where C has it before the zeros and in the width.  No     *)
(* number has more digits than tmp has room for.  And atoi reads the ones  *)
(* without a sign back to the same int, the ones that do not fit too.      *)
ReadsBack ==
  call # NULL /\ fmt = <<>> =>
    LET bar == CHOOSE i \in 1 .. Len(out) : out[i] = "|"
    IN  /\ FieldSays(SubSeq(out, 1, bar - 1), call.conv[1], call.ap[1])
        /\ out[bar + 1] = "%"
        /\ FieldSays(SubSeq(out, bar + 2, Len(out)), call.conv[2], call.ap[2])
=============================================================================
