------------------------------ MODULE StrNum -------------------------------
(***************************************************************************)
(* util/strnum.rs: the integer conversions every encoding decision rests   *)
(* on.  Text is a sequence of ASCII codes.                                 *)
(***************************************************************************)
EXTENDS Integers, Sequences, Option

CONSTANT I64Max  \* i64::MAX; u64::MAX is twice that plus one

U64Max == 2 * I64Max + 1
Minus == 45
IsDigit(c) == c \in 48 .. 57

(* The u64 that a run of digits adds up to, or Nil on garbage or overflow. *)
ParseDigits(s) ==
  LET upto[n \in 0 .. Len(s)] ==
        IF n = 0 THEN 0
        ELSE LET v == upto[n - 1]
                 d == s[n] - 48
             IN IF \/ v = Nil
                   \/ ~IsDigit(s[n])
                   \/ v > U64Max \div 10
                   \/ v * 10 > U64Max - d
                THEN Nil
                ELSE v * 10 + d
  IN upto[Len(s)]

string2ull(s) ==
  IF s = <<48>> THEN 0
  ELSE IF s = <<>> \/ s[1] \notin 49 .. 57 THEN Nil
  ELSE ParseDigits(s)

string2ll(s) ==
  LET negative == s # <<>> /\ s[1] = Minus
      digits == IF negative THEN Tail(s) ELSE s
      v == IF digits # <<>> /\ digits[1] \in 49 .. 57
           THEN ParseDigits(digits) ELSE Nil
  IN IF s = <<48>> THEN 0
     ELSE IF v = Nil THEN Nil
     ELSE IF negative THEN (IF v > I64Max + 1 THEN Nil ELSE -v)
     ELSE IF v > I64Max THEN Nil ELSE v

(* ll2string and itoa: the decimal text of an integer.                     *)
ll2string(v) ==
  LET text[n \in Nat] == IF n < 10 THEN <<48 + n>>
                         ELSE Append(text[n \div 10], 48 + (n % 10))
  IN IF v < 0 THEN <<Minus>> \o text[-v] ELSE text[v]
=============================================================================
