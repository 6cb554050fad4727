---------------------------- MODULE StringReader ----------------------------
(***************************************************************************)
(* ReadString of src/decoder.h with the readers it chooses from: a date,   *)
(* ASCII up to the closing quote (__read_ascii), and StringReader for a    *)
(* str or BytesReader for UTF-8.  The buffer they fill keeps the promise   *)
(* of TextSink: it holds what was appended since the last Reset.           *)
(***************************************************************************)
EXTENDS DateText

VARIABLES
    strBuffer,  \* the characters appended to it
    maxchar,    \* the bitwise OR of 127 and the characters read by the reader
    starved     \* history: a date was not built, or reading given up, for want of memory

stringVars == <<strBuffer, maxchar, starved>>

(* A character of the input is one byte. *)
Narrow == input.kind \in {"ucs1", "bytes"}

StringInit ==
    /\ strBuffer = <<>>
    /\ maxchar = 127
    /\ starved = FALSE

MaxUnicode == 1114111

(* The width of the characters PyUnicode_New provides for. *)
Capacity(max) ==
    CASE max < 128 -> 128
      [] 128 <= max /\ max < 256 -> 256
      [] 256 <= max /\ max < 65536 -> 65536
      [] OTHER -> MaxUnicode + 1

(* NewString: what is written into the new str.  PyUnicode_New refuses a     *)
(* maxchar that is no character.                                            *)
NewString(max) ==
    IF max > MaxUnicode THEN Error("maxchar")
    ELSE [kind |-> "str",
          text |-> [i \in DOMAIN strBuffer |-> strBuffer[i] % Capacity(max)]]

-----------------------------------------------------------------------------
(* ReadEscapeSeq: [char, next] or [what, next]. *)

Escaped(char, next) == [ok |-> TRUE, char |-> char, next |-> next]
BadEscape(what, at) == [ok |-> FALSE, what |-> what, next |-> at]

Simple == [ch \in {98, 102, 110, 114, 116, Quote, Backslash, 47} |->
              CASE ch = 98 -> 8 [] ch = 102 -> 12 [] ch = 110 -> 10
                [] ch = 114 -> 13 [] ch = 116 -> 9 [] OTHER -> ch]

IsHex(ch) == ch \in Digits \cup (97..102) \cup (65..70)
Hex(ch) == CASE ch \in Digits -> ch - Zero
             [] ch \in 97..102 -> ch - 87
             [] ch \in 65..70 -> ch - 55

(* ReadUnicodeEscape behind the `u' at i. *)
UnicodeEscape(i) ==
    LET hex(k) == Hex(At(i + k))
        wrong == {k \in 1..4 : ~IsHex(At(i + k)) /\ \A l \in 1..(k - 1) : IsHex(At(i + l))}
    IN  IF wrong = {}
        THEN Escaped(hex(1) * 4096 + hex(2) * 256 + hex(3) * 16 + hex(4), i + 5)
        ELSE LET at == i + CHOOSE k \in wrong : TRUE
             IN  BadEscape(IF At(at) = NUL THEN "end" ELSE "escape", at)

IsHigh(ch) == ch \in 55296..56319
IsLow(ch) == ch \in 56320..57343

Pair(high, low) == 65536 + (high - 55296) * 1024 + (low - 56320)

(* An escape that is not the first half of a pair. *)
Single(first) ==
    IF first.ok /\ IsLow(first.char) THEN BadEscape("low", first.next - 1) ELSE first

(* An escape from i on is to be the second half of the pair. *)
SecondHalf(high, i) ==
    LET low == UnicodeEscape(i + 1)
    IN  CASE At(i) # Backslash -> BadEscape("high", i)
          [] At(i) = Backslash /\ At(i + 1) # LowerU -> BadEscape("high", i + 1)
          [] At(i) = Backslash /\ At(i + 1) = LowerU /\ ~low.ok -> low
          [] OTHER -> IF IsLow(low.char) THEN Escaped(Pair(high, low.char), i + 6)
                      ELSE BadEscape("high", i + 5)

(* The escape sequence that begins with the backslash at i. *)
EscapeAt(i) ==
    LET ch == At(i + 1)
        first == UnicodeEscape(i + 1)
    IN  CASE ch \in DOMAIN Simple -> Escaped(Simple[ch], i + 2)
          [] ch = LowerU /\ ~(first.ok /\ IsHigh(first.char)) -> Single(first)
          [] ch = LowerU /\ first.ok /\ IsHigh(first.char) -> SecondHalf(first.char, i + 6)
          [] OTHER -> BadEscape(IF ch = NUL THEN "end" ELSE "invalid", i + 1)

(* ReadChar of BytesReader: a character of two to four bytes. *)
Cont(i) == At(i) \in 128..191
Part(i) == At(i) % 64

Char2(i) == (At(i) % 32) * 64 + Part(i + 1)
Char3(i) == (At(i) % 16) * 4096 + Part(i + 1) * 64 + Part(i + 2)
Char4(i) == (At(i) % 8) * 262144 + Part(i + 1) * 4096 + Part(i + 2) * 64 + Part(i + 3)

Utf8At(i) ==
    CASE At(i) \in 192..223 /\ Cont(i + 1) -> Escaped(Char2(i), i + 2)
      [] /\ At(i) \in 224..239 /\ Cont(i + 1) /\ Cont(i + 2)
         /\ ~IsHigh(Char3(i)) /\ ~IsLow(Char3(i)) -> Escaped(Char3(i), i + 3)
      [] /\ At(i) \in 240..244 /\ Cont(i + 1) /\ Cont(i + 2) /\ Cont(i + 3)
         /\ Char4(i) <= MaxUnicode -> Escaped(Char4(i), i + 4)
      [] OTHER -> BadEscape("utf8", i)

-----------------------------------------------------------------------------
(* What every slice ends at, and what one of ASCII ends at: the characters  *)
(* of one byte whose state in str_state_table is not STR_ASCII.             *)
Special == {Quote, Backslash}
NotAscii == Special \cup 128..255

(* The first position from i on that a slice cannot contain. *)
SliceEnd(i, stops) ==
    CHOOSE j \in i..End : /\ j = End \/ At(j) \in stops
                          /\ \A k \in i..(j - 1) : At(k) \notin stops

(* ReadString: a date, or the reader that fits the input.  The constructor  *)
(* of a date may get no memory: its MemoryError is cleared as well as a     *)
(* ValueError, and a string is read.                                        *)
ReadString ==
    LET dates == IF input.parseDate THEN ReadDate(cursor) ELSE {}
    IN  /\ pc = "string"
        /\ \/ /\ \E r \in dates : Done([kind |-> "moment", moment |-> r.moment], r.next + 1)
              /\ UNCHANGED starved
           \/ /\ pc' = IF Narrow THEN "ascii" ELSE "read"
              /\ starved' = (dates # {})
              /\ UNCHANGED <<cursor, result>>
        /\ UNCHANGED <<input, strBuffer, maxchar>>

(* Variant: what __read_ascii has passed is not given to the buffer. *)
AsciiPrefixLost(i) == <<>>

AsciiPrefix(i) == SubSeq(Text, cursor, i - 1)

(* __read_ascii, and what it leaves to the reader; it does so also when it   *)
(* gets no memory for the str.                                              *)
ReadAscii ==
    LET i == SliceEnd(cursor, NotAscii)
    IN  /\ pc = "ascii"
        /\ \/ /\ At(i) = Quote
              /\ Done([kind |-> "str", text |-> SubSeq(Text, cursor, i - 1)], i + 1)
              /\ UNCHANGED <<strBuffer, starved>>
           \/ /\ strBuffer' = AsciiPrefix(i)
              /\ cursor' = i
              /\ pc' = "read"
              /\ UNCHANGED <<result, starved>>
           \/ /\ i > cursor
              /\ starved' = TRUE
              /\ Done(Error("memory"), cursor)
              /\ UNCHANGED strBuffer
        /\ UNCHANGED <<input, maxchar>>

Reading == pc = "read" /\ cursor < End
AtQuote == Reading /\ At(cursor) = Quote
AtEscape == Reading /\ At(cursor) = Backslash
AtText == Reading /\ At(cursor) \notin Special

(* The bits that are set in m or in n. *)
BitOr(m, n) ==
    LET or[k \in 0..m] ==
            [j \in Nat |->
                IF k = 0 THEN j
                ELSE 2 * or[k \div 2][j \div 2] + (IF k % 2 = 1 \/ j % 2 = 1 THEN 1 ELSE 0)]
    IN  or[m][n]

Widened(chars) ==
    LET widened[n \in 0..Len(chars)] ==
            IF n = 0 THEN maxchar ELSE BitOr(widened[n - 1], chars[n])
    IN  widened[Len(chars)]

Take(chars, next) ==
    /\ strBuffer' = strBuffer \o chars
    /\ maxchar' = Widened(chars)
    /\ cursor' = next
    /\ UNCHANGED <<pc, result>>

(* NewString may get no memory. *)
EndString ==
    /\ AtQuote
    /\ \/ Done(NewString(maxchar), cursor + 1) /\ UNCHANGED starved
       \/ Done(Error("memory"), cursor + 1) /\ starved' = TRUE
    /\ UNCHANGED <<input, strBuffer, maxchar>>

ReadEscape ==
    LET esc == EscapeAt(cursor)
    IN  /\ AtEscape
        /\ \/ esc.ok /\ Take(<<esc.char>>, esc.next)
           \/ ~esc.ok /\ Done(Error(esc.what), esc.next) /\ UNCHANGED <<strBuffer, maxchar>>
        /\ UNCHANGED <<input, starved>>

(* StringReader notes the whole slice up to a quote or a backslash. *)
ReadSlice ==
    LET next == SliceEnd(cursor, Special)
    IN  /\ AtText
        /\ input.kind # "bytes"
        /\ Take(SubSeq(Text, cursor, next - 1), next)
        /\ UNCHANGED <<input, starved>>

(* BytesReader copies a character at a time; ASCII does not widen maxchar.  *)
ReadUtf8 ==
    LET char == IF At(cursor) < 128 THEN Escaped(At(cursor), cursor + 1) ELSE Utf8At(cursor)
    IN  /\ AtText
        /\ input.kind = "bytes"
        /\ \/ char.ok /\ Take(<<char.char>>, char.next)
           \/ /\ ~char.ok
              /\ Done(Error(char.what), char.next)
              /\ UNCHANGED <<strBuffer, maxchar>>
        /\ UNCHANGED <<input, starved>>

(* The buffer gets no memory.  BytesReader takes it for the end of the text *)
(* and fails again when it reports that with the MemoryError pending.       *)
NoMemory ==
    /\ Reading
    /\ input.kind # "bytes" =>
          /\ At(cursor) # Quote
          /\ At(cursor) = Backslash => EscapeAt(cursor).ok
    /\ starved' = TRUE
    /\ Done(Error("memory"), cursor)
    /\ UNCHANGED <<input, strBuffer, maxchar>>

EndMissing ==
    /\ pc = "read"
    /\ cursor = End
    /\ Done(Error("end"), cursor)
    /\ UNCHANGED <<input, stringVars>>

StringNext ==
    \/ ReadString
    \/ ReadAscii
    \/ EndString
    \/ ReadEscape
    \/ ReadSlice
    \/ ReadUtf8
    \/ NoMemory
    \/ EndMissing
=============================================================================
