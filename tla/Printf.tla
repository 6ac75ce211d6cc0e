------------------------------- MODULE Printf -------------------------------
(* newlib_wrap/printf.c and vasprintf.c: a call walks its format, writes    *)
(* the text of each directive through one of four output functions, and     *)
(* ends with a NUL; vasprintf calls it again with larger blocks until the   *)
(* text fits.                                                               *)
EXTENDS PrintfText

CONSTANTS Calls,   \* calls: records [api, fmt, count]
          Chunk,   \* CHUNKSIZE: 256
          Huge,    \* the largest size_t, the count of the calls without one
          Room     \* bytes of memory modelled behind a buffer

ASSUME PrintfAssumption == /\ Chunk \in Nat \ {0, 1} /\ Room \in Nat
                           /\ Huge \in Nat /\ Huge > Room

\* The string given to puts stands where the other calls have their format.
ASSUME CallsAssumption ==
    \A c \in Calls :
        /\ c.api \in {"printf", "fctprintf", "sprintf", "snprintf", "count", "puts", "asprintf"}
        /\ c.fmt \in Seq(Directives) /\ c.count \in 0 .. Huge
        /\ c.api = "puts" => /\ Len(c.fmt) = 1 /\ c.fmt[1].conv = "lit"
                             /\ \A k \in DOMAIN c.fmt[1].s : c.fmt[1].s[k] # "NUL"

VARIABLES call,          \* the call: api, format with its arguments, count
          pc,            \* "idle", "puts", "malloc", "format", "check", "strdup", "done"
          pos, idx,      \* the directive, the characters written
          buf, sent,     \* the buffer; the characters given to a function
          chunks, maxlen, \* vasprintf's chunks; maxlen (its buflen)
          live, result, string, \* blocks allocated, *ret and the string there
          ret            \* the value returned

vars == <<call, pc, pos, idx, buf, sent, chunks, maxlen, live, result, string, ret>>

ENOMEM == 12

\* The output function _vsnprintf is called with, and the one it takes.
Sink == CASE call.api \in {"printf", "fctprintf", "puts"} -> "function"
          [] call.api = "count" -> "null"     \* snprintf(NULL, ..)
          [] OTHER -> "buffer"

\* Characters in the source of a directive, one digit for a width or precision,
\* and of a format.
DirectiveLen(d) ==
    IF d.conv = "lit" THEN 1
    ELSE 2 + Cardinality(d.flags) + (IF d.dot THEN 2 ELSE 0) + (IF d.width # 0 THEN 1 ELSE 0)
           + (CASE d.len = "" -> 0 [] d.len \in {"h", "l"} -> 1 [] OTHER -> 2)
FmtLen(fmt) ==
    LET sum[k \in 0 .. Len(fmt)] == IF k = 0 THEN 0 ELSE sum[k - 1] + DirectiveLen(fmt[k])
    IN  sum[Len(fmt)]

Untouched == [p \in 0 .. Room - 1 |-> "old"]

Init ==
    /\ call = [api |-> "none", fmt |-> <<>>, count |-> 0] /\ pc = "idle"
    /\ pos = 1 /\ idx = 0 /\ buf = Untouched /\ sent = <<>> /\ chunks = 0 /\ maxlen = 0
    /\ live = {} /\ result = "NULL" /\ string = <<>> /\ ret = 0

\* The functions with "..." or a va_list: each passes on its count, or the
\* largest one; vasprintf begins with the chunks its format would need.
Call(c) ==
    /\ pc = "idle" /\ call' = c
    /\ IF c.api = "asprintf"
       THEN /\ chunks' = (FmtLen(c.fmt) + 1) \div Chunk + 1
            /\ maxlen' = chunks' * Chunk /\ pc' = "malloc"
       ELSE IF c.api = "puts" THEN pc' = "puts" /\ UNCHANGED <<chunks, maxlen>>
       ELSE /\ maxlen' = (IF c.api \in {"snprintf", "count"} THEN c.count ELSE Huge)
            /\ pc' = "format" /\ UNCHANGED chunks
    /\ UNCHANGED <<pos, idx, buf, sent, live, result, string, ret>>

----------------------------------------------------------------------------
(* _vsnprintf. *)

\* Mutant of OutBuffer: the character at maxlen is written too.
OutBufferOver(text, at) ==
    [p \in DOMAIN buf |-> IF p >= at /\ p < at + Len(text) /\ p <= maxlen
                          THEN text[p - at + 1] ELSE buf[p]]

\* _out_buffer for each character of a text.
OutBuffer(text, at) ==
    [p \in DOMAIN buf |-> IF p >= at /\ p < at + Len(text) /\ p < maxlen
                          THEN text[p - at + 1] ELSE buf[p]]

\* The characters of a text that _out_char and _out_fct pass on: all but a NUL.
Passed(text) == FlattenSeq([k \in DOMAIN text |-> IF text[k] = "NUL" THEN <<>> ELSE <<text[k]>>])

\* out: the buffer, _out_char and _out_fct, or nothing.
Out(text, at) ==
    /\ buf' = IF Sink = "buffer" THEN OutBuffer(text, at) ELSE buf
    /\ sent' = IF Sink = "function" THEN sent \o Passed(text) ELSE sent

Directive ==
    /\ pc = "format" /\ pos <= Len(call.fmt)
    /\ \E text \in {Text(call.fmt[pos])} : Out(text, idx) /\ idx' = idx + Len(text)
    /\ pos' = pos + 1
    /\ UNCHANGED <<call, pc, chunks, maxlen, live, result, string, ret>>

\* The NUL goes behind the text or to the last place; with no place at all
\* that is beyond every buffer.
Terminate ==
    /\ pc = "format" /\ pos > Len(call.fmt)
    /\ Out(<<"NUL">>, IF idx < maxlen THEN idx ELSE (maxlen - 1) % (Huge + 1))
    /\ ret' = idx
    /\ pc' = IF call.api = "asprintf" THEN "check" ELSE "done"
    /\ UNCHANGED <<call, pos, idx, chunks, maxlen, live, result, string>>

\* puts: the string, in the place of a format, and a new line.
Puts ==
    /\ pc = "puts"
    /\ sent' = call.fmt[1].s \o <<"newline">> /\ ret' = 0 /\ pc' = "done"
    /\ UNCHANGED <<call, pos, idx, buf, chunks, maxlen, live, result, string>>

----------------------------------------------------------------------------
(* vasprintf. *)

Malloc ==
    /\ pc = "malloc"
    /\ \/ /\ live' = live \cup {"block"} /\ buf' = Untouched
          /\ pos' = 1 /\ idx' = 0 /\ pc' = "format" /\ UNCHANGED ret
       \/ /\ ret' = -ENOMEM /\ pc' = "done" /\ UNCHANGED <<live, buf, pos, idx>>
    /\ UNCHANGED <<call, sent, chunks, maxlen, result, string>>

\* Mutant of Grow: the next block is one character longer than the text.
GrowToFit == /\ UNCHANGED chunks
             /\ maxlen' = IF maxlen <= ret THEN ret + 1 ELSE maxlen

\* One chunk more than before or, if that is too little, the text and its NUL.
Grow == LET size == (chunks + 1) * Chunk
        IN  /\ chunks' = chunks + 1
            /\ maxlen' = IF size <= ret THEN ret + 1 ELSE size

\* The text must leave a byte beside its NUL, or the block is freed.
Check ==
    /\ pc = "check"
    /\ IF ret < maxlen - 1
       THEN pc' = (IF ret > 0 THEN "strdup" ELSE "done") /\ UNCHANGED <<chunks, maxlen, live>>
       ELSE pc' = "malloc" /\ live' = live \ {"block"} /\ Grow
    /\ UNCHANGED <<call, pos, idx, buf, sent, result, string, ret>>

\* The string in a block of the given size, if it ends there.
StringIn(b, size) ==
    LET nuls == {p \in 0 .. size - 1 : b[p] = "NUL"}
    IN  IF nuls = {} THEN <<"unterminated">> ELSE [k \in 1 .. Min(nuls) |-> b[k - 1]]

\* Mutant of Strdup: the long block is freed, copied or not.
StrdupFrees ==
    /\ pc = "strdup" /\ string' = StringIn(buf, maxlen) /\ pc' = "done"
    /\ \/ live' = {"copy"} /\ result' = "copy"
       \/ live' = {} /\ result' = "block"
    /\ UNCHANGED <<call, pos, idx, buf, sent, chunks, maxlen, ret>>

\* strdup takes the place of the block, which stays when it fails.
Strdup ==
    /\ pc = "strdup" /\ string' = StringIn(buf, maxlen) /\ pc' = "done"
    /\ \/ live' = {"copy"} /\ result' = "copy"
       \/ result' = "block" /\ UNCHANGED live
    /\ UNCHANGED <<call, pos, idx, buf, sent, chunks, maxlen, ret>>

Work == Puts \/ Directive \/ Terminate \/ Malloc \/ Check \/ Strdup

Next == (\E c \in Calls : Call(c)) \/ Work

\* A call, once made, is carried on: WF_vars(Work) written out, as TLC would
\* work out every text again to find that Work is enabled between calls only.
Fairness == []<>(pc \in {"idle", "done"}) \/ []<><<Work>>_vars

Spec == Init /\ [][Next]_vars /\ Fairness

----------------------------------------------------------------------------
(* Properties. *)

\* The whole text, were there room for all of it.
TextOf(fmt) == FlattenSeq([k \in DOMAIN fmt |-> Text(fmt[k])])
FullText == TextOf(call.fmt)

\* The memory modelled holds the text of every call of asprintf.
ASSUME RoomAssumption == \A c \in Calls : c.api = "asprintf" => Len(TextOf(c.fmt)) < Room

\* Every call but puts returns the length of the whole text; a buffer holds as much of
\* it as fits before a NUL inside the count, with nothing behind changed; a
\* function gets the characters in order.
Truncated ==
    pc = "done" /\ call.api # "asprintf" =>
       LET full == FullText
           end  == Min({Len(full), maxlen - 1})
       IN  /\ ret = IF call.api = "puts" THEN 0 ELSE Len(full)
           /\ \A p \in DOMAIN buf :
                 buf[p] = IF Sink # "buffer" \/ p > end THEN "old"
                          ELSE IF p = end THEN "NUL" ELSE full[p + 1]
           /\ sent = IF Sink # "function" THEN <<>>
                     ELSE Passed(full) \o (IF call.api = "puts" THEN <<"newline">> ELSE <<>>)

\* A number reads as C says for its flags, width, precision and type, and a
\* double is rounded to the nearest, but for the cases of Deviates.
NumbersRead ==
    pc = "format" /\ pos > Len(call.fmt) =>
       \A k \in DOMAIN call.fmt :
          LET d == call.fmt[k]
          IN  d.conv \in {"d", "u", "x", "o", "b", "f"} => Text(d) \in Std(d) \/ Deviates(d)

\* A text as a C string: a NUL of the text ends it.
CString(text) == LET nuls == {k \in DOMAIN text : text[k] = "NUL"}
                 IN  IF nuls = {} THEN text ELSE SubSeq(text, 1, Min(nuls) - 1)

\* The caller of asprintf owns the one block left, with the whole text in it,
\* or none when memory ran out; only the block of an empty text is lost, its
\* length being 0 and *ret NULL.
OwnsResult ==
    pc = "done" /\ call.api = "asprintf" =>
       \/ ret = -ENOMEM /\ live = {} /\ result = "NULL"
       \/ ret = 0 /\ FullText = <<>> /\ live = {"block"} /\ result = "NULL"
       \/ ret = Len(FullText) /\ live = {result} /\ string = CString(FullText)

\* Every call returns, vasprintf after no more than a few larger blocks.
Returns == pc # "idle" ~> pc = "done"
=============================================================================
