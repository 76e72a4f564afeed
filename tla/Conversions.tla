---------------------------- MODULE Conversions ----------------------------
(***************************************************************************)
(* Numbers as text: itoa, itoa64 and reverse of src/lib/stdlib.c as printf *)
(* (src/lib/stdio.c) and printfs (src/drivers/serial.c) call them, a turn  *)
(* of each loop at a time.                                                 *)
(*                                                                         *)
(* A character is the value of its digit; what itoa makes of a negative    *)
(* remainder is a negative digit, the character before '0'.                *)
(***************************************************************************)
EXTENDS Integers, Sequences

CONSTANTS INT, LONG,   \* bits of an int, 32, and of an argument, 64
          Words        \* the arguments tried

\* b to the n, as a function that the proofs can follow.
Power(b, n) ==
  LET p[k \in 0 .. n] == IF k = 0 THEN 1 ELSE b * p[k - 1]
  IN  p[n]

ASSUME ConversionsAssumption ==
  /\ INT \in Nat \ {0} /\ LONG \in Nat /\ INT < LONG /\ LONG % 4 = 0
  \* Three bits to a digit, a long has no more digits than an int has bits.
  /\ LONG <= 3 * (INT - 1)
  /\ Words \subseteq 0 .. Power(2, LONG) - 1

MINUS == 99          \* the sign, no digit

\* What a case of printf ("c", console) or of printfs ("s", serial) does: which
\* function it calls, with what of the argument, base and buffer, and to how many
\* characters it pads.
Case(fn, arg, base, size, pad) ==
  [fn |-> fn, arg |-> arg, base |-> base, size |-> size, pad |-> pad]

conversion ==
  [cu |-> Case("itoa64", "uint", 10, INT, 0),
   ci |-> Case("itoa64", "int", 10, INT, 0),
   cx |-> Case("itoa64", "int", 16, INT, 0),
   cb |-> Case("itoa", "int", 2, INT, 0),
   cB |-> Case("itoa", "int", 2, LONG + 1, LONG),
   cp |-> Case("itoa64", "long", 16, LONG \div 4 + 4, LONG \div 4),
   su |-> Case("itoa64", "uint", 10, INT, 0),
   si |-> Case("itoa", "int", 10, INT, 0),
   sx |-> Case("itoa64", "int", 16, INT, 0),
   sb |-> Case("itoa", "int", 2, INT, 0),
   sp |-> Case("itoa64", "long", 16, LONG \div 4 + 4, LONG \div 4)]

VARIABLES pc, format, word,
          value,       \* what is left of the number
          is_negative,
          str,         \* digits so far: str of itoa, temp of itoa64
          buffer,      \* the buffer of itoa64
          i            \* position in reverse

conversionsVars == <<pc, format, word, value, is_negative, str, buffer, i>>

chosen == conversion[format]

----------------------------------------------------------------------------
(***************************************************************************)
(* Arithmetic of C.                                                        *)
(***************************************************************************)
MinInt == -Power(2, INT - 1)

ToInt(n) ==
  LET u == n % Power(2, INT)
  IN  IF u < Power(2, INT - 1) THEN u ELSE u - Power(2, INT)

\* Division that rounds to zero, and its remainder.
Quot(a, b) == IF a >= 0 THEN a \div b ELSE -((-a) \div b)

Rem(a, b) == a - b * Quot(a, b)

\* An int that is passed to itoa64 is extended with its sign.
Argument(c, w) ==
  CASE c.arg = "uint" -> w % Power(2, INT)
    [] c.arg = "long" -> w
    [] c.arg = "int" /\ c.fn = "itoa" -> ToInt(w)
    [] c.arg = "int" /\ c.fn = "itoa64" -> ToInt(w) % Power(2, LONG)

----------------------------------------------------------------------------
ConversionsInit ==
  /\ pc = "idle" /\ format = "cu" /\ word = 0 /\ value = 0
  /\ is_negative = FALSE /\ str = << >> /\ buffer = << >> /\ i = 1

\* Seeded bug: bases other than ten are negated, too.
Negated_Bad(c, n) == n < 0

\* Only base ten has a sign.
Negated(c, n) == n < 0 /\ c.base = 10

itoa(f, w) ==
  LET c == conversion[f]
      n == Argument(c, w)
  IN  /\ pc = "idle" /\ c.fn = "itoa"
      /\ pc' = "itoa" /\ format' = f /\ word' = w
      /\ is_negative' = Negated(c, n)
      /\ value' = IF is_negative' THEN ToInt(-n) ELSE n
      /\ UNCHANGED <<str, buffer, i>>

itoa_digit ==
  /\ pc = "itoa"
  /\ str' = Append(str, Rem(value, chosen.base))
  /\ value' = Quot(value, chosen.base)
  /\ pc' = IF value' = 0 THEN "sign" ELSE "itoa"
  /\ UNCHANGED <<format, word, is_negative, buffer, i>>

itoa_sign ==
  /\ pc = "sign"
  /\ str' = IF is_negative THEN Append(str, MINUS) ELSE str
  /\ pc' = "reverse" /\ i' = 1
  /\ UNCHANGED <<format, word, value, is_negative, buffer>>

reverse ==
  LET j == Len(str) + 1 - i
  IN  /\ pc = "reverse"
      /\ IF i < j
           THEN /\ str' = [str EXCEPT ![i] = str[j], ![j] = str[i]]
                /\ i' = i + 1
                /\ UNCHANGED pc
           ELSE pc' = "pad" /\ UNCHANGED <<str, i>>
      /\ UNCHANGED <<format, word, value, is_negative, buffer>>

itoa64(f, w) ==
  LET c == conversion[f]
      n == Argument(c, w)
  IN  /\ pc = "idle" /\ c.fn = "itoa64"
      /\ format' = f /\ word' = w /\ value' = n
      /\ IF n = 0
           THEN pc' = "pad" /\ str' = <<0>>
           ELSE pc' = "itoa64" /\ UNCHANGED str
      /\ UNCHANGED <<is_negative, buffer, i>>

itoa64_digit ==
  /\ pc = "itoa64"
  /\ str' = Append(str, value % chosen.base)
  /\ value' = value \div chosen.base
  /\ pc' = IF value' = 0 THEN "copy" ELSE "itoa64"
  /\ UNCHANGED <<format, word, is_negative, buffer, i>>

\* Seeded bug: the digits are copied in the order they were made.
itoa64_copy_Bad ==
  /\ pc = "copy"
  /\ IF str # << >>
       THEN /\ buffer' = Append(buffer, Head(str))
            /\ str' = Tail(str)
            /\ UNCHANGED pc
       ELSE pc' = "pad" /\ str' = buffer /\ buffer' = << >>
  /\ UNCHANGED <<format, word, value, is_negative, i>>

itoa64_copy ==
  /\ pc = "copy"
  /\ IF str # << >>
       THEN /\ buffer' = Append(buffer, str[Len(str)])
            /\ str' = SubSeq(str, 1, Len(str) - 1)
            /\ UNCHANGED pc
       ELSE pc' = "pad" /\ str' = buffer /\ buffer' = << >>
  /\ UNCHANGED <<format, word, value, is_negative, i>>

\* The loop that prints zeros in front; here they are put in front.
pad ==
  /\ pc = "pad"
  /\ pc' = "done"
  /\ str' = [k \in 1 .. chosen.pad - Len(str) |-> 0] \o str
  /\ UNCHANGED <<format, word, value, is_negative, buffer, i>>

print ==
  /\ pc = "done"
  /\ pc' = "idle" /\ format' = "cu" /\ word' = 0 /\ value' = 0
  /\ is_negative' = FALSE /\ str' = << >> /\ i' = 1
  /\ UNCHANGED buffer

Turn ==
  \/ itoa_digit \/ itoa_sign \/ reverse
  \/ itoa64_digit \/ itoa64_copy \/ pad \/ print

ConversionsNext ==
  \/ \E f \in DOMAIN conversion, w \in Words : itoa(f, w) \/ itoa64(f, w)
  \/ Turn

ConversionsSpec ==
  ConversionsInit /\ [][ConversionsNext]_conversionsVars /\ WF_conversionsVars(Turn)

----------------------------------------------------------------------------
(***************************************************************************)
(* Properties.                                                             *)
(***************************************************************************)
\* The number that digits mean when n was read before them.
Number(n, s, base) ==
  LET read[k \in 0 .. Len(s)] == IF k = 0 THEN n ELSE base * read[k - 1] + s[k]
  IN  read[Len(s)]

Signed(s, base) ==
  IF s[1] = MINUS THEN -Number(0, Tail(s), base) ELSE Number(0, s, base)

Arg == Argument(chosen, word)

\* The arguments that itoa is not made for: a negative number that gets no sign,
\* and the one that has no negation.
Unprintable == chosen.fn = "itoa" /\ Arg < 0 /\ (chosen.base # 10 \/ Arg = MinInt)

ConversionsTypeOK ==
  /\ pc \in {"idle", "itoa", "sign", "reverse", "itoa64", "copy", "pad", "done"}
  /\ format \in DOMAIN conversion /\ word \in Words \cup {0}
  /\ value \in MinInt .. (IF chosen.fn = "itoa" THEN -MinInt ELSE Power(2, LONG)) - 1
  /\ is_negative \in BOOLEAN
  /\ str \in Seq({MINUS} \cup -9 .. 15)
  /\ i \in 1 .. LONG

\* What is printed reads as the argument, and addresses and %B have the same width
\* whatever the value.
PrintsTheNumber ==
  pc = "done" /\ ~Unprintable =>
    /\ Signed(str, chosen.base) = Arg
    /\ chosen.pad > 0 => Len(str) = chosen.pad

\* The text and its end fit the buffer of the caller, but for the smallest int in
\* base two, whose 32 digits fill a buffer of 32.
FitsBuffer ==
  pc \in {"itoa", "sign", "reverse", "pad"} =>
    \/ Len(str) + 1 <= chosen.size
    \/ Arg = MinInt /\ chosen.base = 2
=============================================================================
