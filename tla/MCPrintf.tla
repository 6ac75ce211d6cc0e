------------------------------ MODULE MCPrintf ------------------------------
(* Instances of Printf for TLC.  Widths of types and buffer are a quarter   *)
(* of the real ones.                                                        *)
EXTENDS Printf

Lit(c) == [Plain EXCEPT !.s = <<c>>]
IntD(c, f, w, dot, p, len, n) ==
    [Plain EXCEPT !.conv = c, !.flags = f, !.width = w, !.dot = dot, !.prec = p, !.len = len, !.n = n]
FloatD(f, w, dot, p, neg, n, frac, rest) ==
    [Plain EXCEPT !.conv = "f", !.flags = f, !.width = w, !.dot = dot, !.prec = p,
                  !.neg = neg, !.n = n, !.frac = frac, !.rest = rest]
Rests == {"zero", "below", "half", "above"}

\* Set number i of the flags.
FlagsAt(i) == {<<"0", "-", "+", " ", "#">>[b] : b \in {b \in 1 .. 5 : (i \div 2 ^ (b - 1)) % 2 = 1}}

\* Calls that count the characters of many numbers, each directive in one: an
\* int with all flags and precisions, the other types plain, and doubles.
Count(fmt) == [api |-> "count", fmt |-> fmt, count |-> 0]
IntCalls ==
    {Count([k \in 1 .. 160 |->
              LET p == <<-2, -1, 0, 1, 4>>[(k - 1) \div 32 + 1]
              IN  IntD(c, FlagsAt((k - 1) % 32), w, p # -2, p, "", n)]) :
        c \in {"d", "x", "o", "b"}, w \in {0, 2, 3, 4, 6, 9, -5}, n \in {0, 7, 18, 127, -1, -18, -128}}
TypeCalls ==
    {Count([k \in 1 .. 10 |->
              IntD(c, IF k > 5 THEN {"#"} ELSE {}, 0, FALSE, 0, <<"hh", "h", "", "l", "ll">>[1 + ((k - 1) % 5)], n)]) :
        c \in {"d", "u", "x", "b"}, n \in {-300, -3, -1, 0, 1, 2, 7, 8, 300}}
FloatCalls ==
    {Count([k \in 1 .. 16 |-> FloatD(FlagsAt((k - 1) % 8), w, TRUE, 1, k > 8, n, frac, rest)]) :
        w \in {0, 7, -7}, n \in {0, 9, 12}, frac \in {0, 4, 7, 8, 9}, rest \in Rests}
    \cup {Count([k \in 1 .. 32 |-> FloatD(FlagsAt((k - 1) % 16), w, FALSE, 0, k > 16, 0, 0, rest)]) :
        w \in {0, 2, 5, -5}, rest \in {"nan", "inf"}}
    \cup {Count(<<FloatD({}, 0, TRUE, 2, FALSE, n, frac, rest)>>) :
        n \in {0, 9, 99999}, frac \in {0, 9, 45, 98, 99}, rest \in Rests}
    \cup {Count([k \in 1 .. 16 |-> FloatD(FlagsAt(15 + k), w, TRUE, p, FALSE, n, 0, rest)]) :
        w \in {0, 5}, p \in {0, 1}, n \in {0, 3}, rest \in Rests}
    \cup {Count(<<FloatD({}, w, TRUE, 0, neg, n, 0, rest)>>) :
        w \in {0, 3}, neg \in BOOLEAN, n \in 0 .. 3, rest \in Rests}
    \cup {Count(<<FloatD({}, 0, FALSE, p, FALSE, 0, frac, rest)>>) :
        p \in {-1, 6}, frac \in {5, 999999}, rest \in Rests}
    \cup {Count(<<FloatD({}, 0, TRUE, -1, FALSE, 0, 0, rest), FloatD({}, 0, TRUE, 6, FALSE, 0, 5, rest)>>) : rest \in Rests}

Texts == <<Lit("a"), IntD("d", {"+"}, 0, FALSE, 0, "", 18), IntD("p", {}, 0, FALSE, 0, "", 300),
          [Plain EXCEPT !.conv = "s", !.width = -4, !.s = <<"b", "c">>],
          [Plain EXCEPT !.conv = "s", !.dot = TRUE, !.prec = 1, !.width = 2, !.s = <<"b", "c">>],
          [Plain EXCEPT !.conv = "%"]>>
NulChar == [Plain EXCEPT !.conv = "c", !.width = 3, !.s = <<"NUL">>]
Formats == UNION {[1 .. k -> Range(Texts) \cup {NulChar}] : k \in 0 .. 2}
           \cup {<<a, b, c>> : a, b \in {Lit("a"), NulChar}, c \in Range(Texts)}
Long == UNION {[1 .. k -> {Texts[1], Texts[3], Texts[4], NulChar}] : k \in 0 .. 4}

AllCalls ==
    IntCalls \cup TypeCalls \cup FloatCalls
    \cup {[api |-> a, fmt |-> f, count |-> 0] : a \in {"printf", "fctprintf", "sprintf", "count"}, f \in Formats}
    \cup {[api |-> "puts", fmt |-> <<[Plain EXCEPT !.s = s]>>, count |-> 0] : s \in {<<>>, <<"b", "c">>}}
    \cup {[api |-> "snprintf", fmt |-> f, count |-> c] : f \in Formats, c \in {0, 1, 2, 4, 5, 9}}
    \cup {[api |-> "asprintf", fmt |-> f, count |-> 0] : f \in Long}
=============================================================================
