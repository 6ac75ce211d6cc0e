----------------------------- MODULE PrintfText -----------------------------
(* What the directives of newlib_wrap/printf.c write, and what C says they  *)
(* should.  Characters are strings of one character; the case of letters,   *)
(* %e and %g, and %f of 10^9 and more, are left out.  A double              *)
(* is its sign, its whole part and the product of the rest with a power of  *)
(* ten, which _ftoa computes, taken to be exact: frac and where what is     *)
(* left lies ("zero", "below", "half" or "above" one half), or else "nan"   *)
(* or "inf".                                                                *)
EXTENDS Integers, SequencesExt, FiniteSetsExt

CONSTANTS BufferSize,      \* PRINTF_NTOA_ and FTOA_BUFFER_SIZE: 32
          CharValues, ShortValues, IntValues, LongValues,
                           \* values of the integer types: 2^8, 2^16, 2^32 and 2^64
          PointerDigits    \* sizeof(void*) * 2: 16

ASSUME PrintfTextAssumption ==
    /\ BufferSize \in Nat \ {0}
    /\ \A m \in {CharValues, ShortValues, IntValues, LongValues} : m \in Nat \ {0}
    /\ PointerDigits \in Nat

\* A negative precision is 0; a double has 6 digits unless told otherwise.
PrecOf(d) == IF d.dot /\ d.prec > 0 THEN d.prec ELSE 0
FloatPrec(d) == IF d.dot THEN PrecOf(d) ELSE 6

\* pow10[]: the powers of ten, from 10^0 to 10^9.
Pow10 == <<1, 10, 100, 1000, 10000, 100000, 1000000, 10000000, 100000000, 1000000000>>
Scale(prec) == Pow10[Min({prec, 9}) + 1]

\* A directive: conv "lit" is a character of the format that is copied; a
\* width or precision below 0 comes from '*'; dot tells that there is a precision;
\* n is an argument or, of a double, the whole part, whose sign is neg; frac is
\* the whole part of a number below the power of ten.
Directives ==
    {d \in [conv : STRING, flags : SUBSET {"0", "-", "+", " ", "#"}, width : Int,
            dot : BOOLEAN, prec : Int, len : STRING, n : Int, neg : BOOLEAN,
            frac : Nat, rest : STRING, s : Seq(STRING)] :
        d.conv = "f" => /\ d.n \in 0 .. Pow10[10] - 1 /\ d.frac < Scale(FloatPrec(d))
                        /\ d.rest \in {"zero", "below", "half", "above", "nan", "inf"}}
Plain == [conv |-> "lit", flags |-> {}, width |-> 0, dot |-> FALSE, prec |-> 0, len |-> "",
          n |-> 0, neg |-> FALSE, frac |-> 0, rest |-> "zero", s |-> <<>>]

Digit(v) == <<"0", "1", "2", "3", "4", "5", "6", "7", "8", "9", "a", "b", "c", "d", "e", "f">>[v + 1]
Repeat(c, n) == [k \in 1 .. Max({0, n}) |-> c]

\* The digits of v, the last one first.
Digits(v, base) ==
    LET ds[x \in Nat] == IF x < base THEN <<Digit(x)>> ELSE <<Digit(x % base)>> \o ds[x \div base]
    IN  ds[v]

\* Writes to the buffer of BufferSize characters, as far as there is room.
Put(b, text) == SubSeq(b \o text, 1, Min({BufferSize, Len(b) + Len(text)}))
Fill(b, n) == Put(b, Repeat("0", n - Len(b)))

----------------------------------------------------------------------------
(* The code. *)

\* A negative width means the flag '-'.
FlagsOf(d) == IF d.width < 0 THEN d.flags \cup {"-"} ELSE d.flags
WidthOf(d) == IF d.width < 0 THEN -d.width ELSE d.width

\* _out_rev: the buffer turned round, with spaces before or behind.
OutRev(b, width, flags) ==
    LET pad == Repeat(" ", width - Len(b))
    IN  IF "-" \in flags THEN Reverse(b) \o pad
        ELSE IF "0" \in flags THEN Reverse(b) ELSE pad \o Reverse(b)

Sign(neg, flags) == IF neg THEN <<"-">> ELSE IF "+" \in flags THEN <<"+">>
                    ELSE IF " " \in flags THEN <<" ">> ELSE <<>>

\* Mutant of RoomForSign: zeros are padded up to the width, the sign not counted.
RoomForSignNever(width, neg, flags) == width

\* With zero padding the sign takes one of the places.
RoomForSign(width, neg, flags) ==
    IF width > 0 /\ "0" \in flags /\ (neg \/ flags \cap {"+", " "} # {}) THEN width - 1 ELSE width

\* _ntoa_format
NtoaFormat(b, neg, base, dot, prec, width0, flags) ==
    LET width == IF "-" \in flags THEN width0 ELSE RoomForSign(width0, neg, flags)
        b1 == IF "-" \in flags THEN b
              ELSE Fill(Fill(b, prec), IF "0" \in flags THEN width ELSE 0)
        drop == IF ~dot /\ b1 # <<>> /\ Len(b1) \in {prec, width}
                THEN IF base = 16 THEN Min({2, Len(b1)}) ELSE 1 ELSE 0
        mark == CASE base = 16 -> <<"x">> [] base = 2 -> <<"b">> [] OTHER -> <<>>
        b2 == IF "#" \in flags
              THEN Put(Put(SubSeq(b1, 1, Len(b1) - drop), mark), <<"0">>) ELSE b1
    IN  OutRev(Put(b2, Sign(neg, flags)), width, flags)

\* _ntoa_long and _ntoa_long_long: no '#' for 0, and no digit with precision 0.
Ntoa(v, neg, base, dot, prec, width, flags) ==
    LET b == IF dot /\ v = 0 THEN <<>> ELSE Put(<<>>, Digits(v, base))
    IN  NtoaFormat(b, neg, base, dot, prec, width, IF v = 0 THEN flags \ {"#"} ELSE flags)

Base(conv) == CASE conv \in {"x", "p"} -> 16 [] conv = "o" -> 8 [] conv = "b" -> 2 [] OTHER -> 10
ValuesOf(len) == CASE len = "hh" -> CharValues [] len = "h" -> ShortValues
                   [] len = "" -> IntValues [] OTHER -> LongValues

\* The argument converted to its type; a char is unsigned on RISC-V.
Argument(d) ==
    LET m == ValuesOf(d.len)
    IN  IF d.conv = "d" /\ d.len # "hh" THEN ((d.n + m \div 2) % m) - m \div 2 ELSE d.n % m

IntFlags(d) ==
    FlagsOf(d) \ ((IF d.conv \in {"d", "u"} THEN {"#"} ELSE {}) \cup
                  (IF d.conv # "d" THEN {"+", " "} ELSE {}) \cup (IF d.dot THEN {"0"} ELSE {}))

IntText(d) ==
    LET v == Argument(d)
    IN  Ntoa(IF v < 0 THEN -v ELSE v, v < 0, Base(d.conv), d.dot, PrecOf(d), WidthOf(d), IntFlags(d))

PointerText(d) ==
    Ntoa(d.n % LongValues, FALSE, 16, d.dot, PrecOf(d), PointerDigits, FlagsOf(d) \cup {"0"})

\* value < 0 holds for every double with a sign but -0.0.
Negative(d) == d.neg /\ (d.n > 0 \/ d.frac > 0 \/ d.rest # "zero")

\* The end of _ftoa, from the product of the fraction and the power of ten on.
\* Behind a fraction with more digits than the precision the count of zeros wraps.
FiniteText(d) ==
    LET prec  == FloatPrec(d)
        p     == Min({prec, 9})
        roll  == d.rest = "above" /\ d.frac + 1 >= Scale(prec)
        up    == d.rest = "above" \/ (d.rest = "half" /\ (d.frac = 0 \/ d.frac % 2 = 1))
        frac  == IF roll THEN 0 ELSE IF up THEN d.frac + 1 ELSE d.frac
        whole == IF roll \/ (p = 0 /\ d.rest = "half" /\ d.n % 2 = 1) THEN d.n + 1 ELSE d.n
        ds    == Digits(frac, 10)
        b1    == Put(<<>>, Repeat("0", prec - p) \o ds)
        b2    == IF Len(ds) > p THEN Fill(b1, BufferSize) ELSE Fill(b1, prec)
        b3    == IF p = 0 THEN <<>> ELSE Put(b2, <<".">>)
        b4    == Put(b3, Digits(whole, 10))
        flags == FlagsOf(d)
        b5    == IF "0" \in flags /\ "-" \notin flags
                 THEN Fill(b4, RoomForSign(WidthOf(d), Negative(d), flags)) ELSE b4
    IN  OutRev(Put(b5, Sign(Negative(d), flags)), WidthOf(d), flags)

\* _ftoa: the special values have no digits that could be padded with zeros.
FloatText(d) ==
    CASE d.rest = "nan" -> OutRev(<<"n", "a", "n">>, WidthOf(d), FlagsOf(d))
      [] d.rest = "inf" -> OutRev(<<"f", "n", "i">> \o (IF d.neg THEN <<"-">> ELSE
                                  IF "+" \in d.flags THEN <<"+">> ELSE <<>>), WidthOf(d), FlagsOf(d))
      [] OTHER -> FiniteText(d)

\* %s and %c
PaddedText(text, d) ==
    LET pad == Repeat(" ", WidthOf(d) - Len(text))
    IN  IF "-" \in FlagsOf(d) THEN text \o pad ELSE pad \o text
StringText(d) ==
    PaddedText(IF d.dot THEN SubSeq(d.s, 1, Min({PrecOf(d), Len(d.s)})) ELSE d.s, d)

\* All that one turn of the loop of _vsnprintf writes.
Text(d) ==
    CASE d.conv \in {"d", "u", "x", "o", "b"} -> IntText(d)
      [] d.conv = "f" -> FloatText(d)
      [] d.conv = "p" -> PointerText(d)
      [] d.conv = "s" -> StringText(d)
      [] d.conv = "c" -> PaddedText(d.s, d)
      [] d.conv = "lit" -> d.s
      [] OTHER -> <<d.conv>>              \* %% and unknown conversions

----------------------------------------------------------------------------
(* The C standard, for numbers. *)

\* Padding of a number given as its sign, prefix and digits.
StdPad(sign, prefix, digits, d, zeros) ==
    LET size == Len(sign) + Len(prefix) + Len(digits)
        pad  == WidthOf(d) - size
    IN  IF "-" \in FlagsOf(d) THEN sign \o prefix \o digits \o Repeat(" ", pad)
        ELSE IF zeros THEN sign \o prefix \o Repeat("0", pad) \o digits
        ELSE Repeat(" ", pad) \o sign \o prefix \o digits

AtLeast(text, n) == Repeat("0", n - Len(text)) \o text

StdValue(d) ==
    LET m == ValuesOf(d.len)
    IN  IF d.conv = "d" THEN ((d.n + m \div 2) % m) - m \div 2 ELSE d.n % m

\* The flag '#' makes the first digit of an octal number a zero, that of 0
\* included, and puts a prefix before other numbers than 0.
StdInt(d) ==
    LET v == StdValue(d)
        given == d.dot /\ d.prec >= 0
        ds == IF v = 0 /\ given /\ d.prec = 0 THEN <<>>
              ELSE Reverse(Digits(IF v < 0 THEN -v ELSE v, Base(d.conv)))
        hash == "#" \in d.flags /\ v # 0
        octal == IF v = 0 THEN 1 ELSE Len(ds) + 1
        digits == AtLeast(ds, Max({IF given THEN d.prec ELSE 0,
                                   IF "#" \in d.flags /\ d.conv = "o" THEN octal ELSE 0}))
        prefix == CASE hash /\ d.conv = "x" -> <<"0", "x">> [] hash /\ d.conv = "b" -> <<"0", "b">>
                    [] OTHER -> <<>>
    IN  StdPad(IF d.conv = "d" THEN Sign(v < 0, d.flags) ELSE <<>>, prefix, digits, d,
               "0" \in d.flags /\ ~given)

\* The text of a number of a whole part and so many 10^prec-ths, or 10^9-ths and
\* no more if there are more digits than nine.  '#' keeps the point.
StdFloat(d, whole, frac, prec) ==
    LET point == IF prec = 0 THEN IF "#" \in d.flags THEN <<".">> ELSE <<>>
                 ELSE <<".">> \o AtLeast(Reverse(Digits(frac, 10)), Min({prec, 9}))
                              \o Repeat("0", prec - 9)
    IN  StdPad(Sign(d.neg, FlagsOf(d)), <<>>, Reverse(Digits(whole, 10)) \o point, d, "0" \in d.flags)

\* A double is rounded to the nearest number, one half to either side.  What a
\* tenth digit and those behind it are, if not zeros, a directive does not hold:
\* no text is known to be right.
StdFloats(d) ==
    LET prec == IF d.dot /\ d.prec >= 0 THEN d.prec ELSE 6
        low  == StdFloat(d, d.n, d.frac, prec)
        high == IF d.frac + 1 = Scale(prec) THEN StdFloat(d, d.n + 1, 0, prec)
                ELSE StdFloat(d, d.n, d.frac + 1, prec)
        known == prec <= 9 \/ d.rest \in {"zero", "nan", "inf"}
    IN  IF ~known THEN {} ELSE
        CASE d.rest = "nan" -> {StdPad(Sign(neg, d.flags), <<>>, <<"n", "a", "n">>, d, FALSE) : neg \in BOOLEAN}
          [] d.rest = "inf" -> {StdPad(Sign(d.neg, d.flags), <<>>, <<"i", "n", "f">>, d, FALSE)}
          [] d.rest \in {"zero", "below"} -> {low} [] d.rest = "above" -> {high}
          [] d.rest = "half" -> {low, high}

Std(d) == IF d.conv = "f" THEN StdFloats(d) ELSE {StdInt(d)}

----------------------------------------------------------------------------
(* Where the code differs from C, or may differ. *)

\* More characters than the buffer holds are lost, spaces apart.
TooLong(d) ==
    LET zeros == "0" \in d.flags /\ "-" \notin FlagsOf(d)
        bare  == [d EXCEPT !.width = IF zeros THEN @ ELSE 0]
    IN  \E text \in Std(bare) : Len(text) > BufferSize

\* A negative precision is taken for 0; a char has no sign; with '-' the zeros
\* of the precision are left out, those of a number 0 with them; '#' removes
\* digits, taken for padding, when their number is the width, and places a prefix
\* of two in the room of one; an octal number gets a zero that its precision gave,
\* and none if it is 0 with precision 0.
IntDeviates(d) ==
    LET v == StdValue(d)
        n == IF v = 0 THEN (IF d.dot THEN 0 ELSE 1) ELSE Len(Digits(IF v < 0 THEN -v ELSE v, Base(d.conv)))
        w == WidthOf(d)
        zeros == "0" \in d.flags /\ "-" \notin FlagsOf(d)
        hash == "#" \in d.flags /\ d.conv \in {"x", "o", "b"} /\ v # 0
    IN  \/ d.dot /\ d.prec < 0 /\ (v = 0 \/ "0" \in d.flags \/ hash)
        \/ Argument(d) # v
        \/ "-" \in FlagsOf(d) /\ d.dot /\ d.prec > n
        \/ hash /\ ~d.dot /\ w = n
        \/ hash /\ ~d.dot /\ zeros /\ d.conv = "x" /\ w = n + 1
        \/ hash /\ ~d.dot /\ zeros /\ d.conv = "b" /\ w > n + 1
        \/ hash /\ d.dot /\ d.conv = "o" /\ d.prec > n
        \/ "#" \in d.flags /\ d.conv = "o" /\ v = 0 /\ d.dot /\ d.prec = 0

\* One half is rounded up to the next whole number without the rollover; digits
\* behind the ninth are zeros; '#' does not keep the point; -0.0 has no sign; with
\* the flag '0' a special value is not padded, and only %+f of inf has a sign.
FloatDeviates(d) == \/ d.dot /\ d.prec < 0
                    \/ d.rest \in {"nan", "inf"} /\ "0" \in d.flags /\ "-" \notin FlagsOf(d)
                    \/ d.rest = "nan" /\ d.flags \cap {"+", " "} # {}
                    \/ d.rest = "inf" /\ ~d.neg /\ " " \in d.flags /\ "+" \notin d.flags
                    \/ d.rest = "half" /\ FloatPrec(d) > 0 /\ d.frac + 1 = Scale(FloatPrec(d))
                    \/ d.rest \in {"below", "half", "above"} /\ FloatPrec(d) > 9
                    \/ d.rest \notin {"nan", "inf"} /\ "#" \in d.flags /\ FloatPrec(d) = 0
                    \/ d.neg /\ ~Negative(d)

Deviates(d) == TooLong(d) \/ IF d.conv = "f" THEN FloatDeviates(d) ELSE IntDeviates(d)
=============================================================================
