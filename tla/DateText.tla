------------------------------ MODULE DateText ------------------------------
(***************************************************************************)
(* Dates and times as text: DateParser and __read_date of src/decoder.h,   *)
(* and EncodeDate, EncodeTime and EncodeDateTime of src/encoder.h.         *)
(***************************************************************************)
EXTENDS InputText

(* A date, a time or both.  offset is empty if there is no tzinfo, and holds *)
(* the offset from UTC in seconds otherwise.                                *)
Moment(kind, date, time, offset) ==
    [kind |-> kind, date |-> date, time |-> time, offset |-> offset]

NoDate == <<0, 0, 0>>
NoTime == <<0, 0, 0, 0>>

-----------------------------------------------------------------------------
(* What the constructors of the datetime module accept. *)

LeapYear(y) == y % 4 = 0 /\ (y % 100 # 0 \/ y % 400 = 0)

DaysIn(y, m) ==
    CASE m = 2 -> IF LeapYear(y) THEN 29 ELSE 28
      [] m \in {4, 6, 9, 11} -> 30
      [] OTHER -> 31

ValidDate(d) ==
    1 <= d[1] /\ d[1] <= 9999 /\ d[2] \in 1..12 /\ d[3] \in 1..DaysIn(d[1], d[2])
ValidTime(t) ==
    t[1] \in 0..23 /\ t[2] \in 0..59 /\ t[3] \in 0..59 /\ 0 <= t[4] /\ t[4] <= 999999

Valid(m) ==
    /\ m.kind \in {"date", "datetime"} => ValidDate(m.date)
    /\ m.kind \in {"time", "datetime"} => ValidTime(m.time)
    /\ \A o \in Range(m.offset) : -86400 < o /\ o < 86400

-----------------------------------------------------------------------------
(* The reader. *)

TwoDigit(i) == Digit(i) * 10 + Digit(i + 1)

(* The text at i has the given form: "9" is a digit, any other character    *)
(* stands for itself.                                                       *)
HasForm(i, form) ==
    \A k \in 1..Len(form) :
        IF form[k] = 57 THEN IsDigit(i + k - 1) ELSE At(i + k - 1) = form[k]

DateForm == <<57, 57, 57, 57, Minus, 57, 57, Minus, 57, 57>>
TimeForm == <<57, 57, Colon, 57, 57, Colon, 57, 57>>

DateAt(i) == <<100 * TwoDigit(i) + TwoDigit(i + 2), TwoDigit(i + 5), TwoDigit(i + 8)>>

(* The first position from i on that holds no digit. *)
AfterDigits(i) == CHOOSE j \in i..End : ~IsDigit(j) /\ \A k \in i..(j - 1) : IsDigit(k)

(* ReadFraction: microseconds from the first six digits, the rest is read   *)
(* and ignored.  Where it ends: at i unless a point and a digit are there.  *)
HasFraction(i) == At(i) = Dot /\ IsDigit(i + 1)
AfterFraction(i) == IF HasFraction(i) THEN AfterDigits(i + 1) ELSE i

Fraction(i) ==
    ValueOf([k \in 1..6 |-> IF i + k < AfterFraction(i) THEN At(i + k) ELSE Zero])

TimeAt(i) ==
    <<TwoDigit(i), TwoDigit(i + 3), TwoDigit(i + 6),
      IF HasFraction(i + 8) THEN Fraction(i + 8) ELSE 0>>

(* ReadTZ: the offset and where it ends. *)
TZAt(i) ==
    LET minutes == IF At(i + 3) = Colon THEN i + 4 ELSE i + 3
        seconds == TwoDigit(i + 1) * 3600 + TwoDigit(minutes) * 60
    IN  CASE At(i) \in {UpperZ, 122} -> [offset |-> <<0>>, next |-> i + 1]
          [] /\ At(i) \in {Plus, Minus} /\ IsDigit(i + 1) /\ IsDigit(i + 2)
             /\ IsDigit(minutes) /\ IsDigit(minutes + 1) ->
                [offset |-> <<IF At(i) = Minus THEN -seconds ELSE seconds>>,
                 next |-> minutes + 2]
          [] OTHER -> [offset |-> <<>>, next |-> i]

(* __read_date: the moments the text at i may stand for (none or one), and  *)
(* where its closing quote is.                                              *)
MomentsAt(i) ==
    LET time == IF HasForm(i, DateForm) THEN i + 11 ELSE i
        tz == TZAt(AfterFraction(time + 8))
        date == IF HasForm(i, DateForm) THEN DateAt(i) ELSE NoDate
        alone == HasForm(i, DateForm) /\ At(i + 10) \notin {32, 84, 116}
    IN  CASE alone -> {[moment |-> Moment("date", date, NoTime, <<>>), next |-> i + 10]}
          [] ~alone /\ HasForm(time, TimeForm) ->
                {[moment |-> Moment(IF date = NoDate THEN "time" ELSE "datetime",
                                    date, TimeAt(time), tz.offset),
                  next |-> tz.next]}
          [] OTHER -> {}

(* What ReadString makes of it: a moment that ends at the closing quote and *)
(* that the constructors accept; otherwise it goes on reading a string.     *)
ReadDate(i) == {r \in MomentsAt(i) : At(r.next) = Quote /\ Valid(r.moment)}

-----------------------------------------------------------------------------
(* The writer. *)

(* EncodeDT_AppendInt2, AppendInt4, AppendMilis: n as so many digits. *)
Decimal(n, width) ==
    [k \in 1..width |-> Zero + ((n \div 10 ^ (width - k)) % 10)]

EncodeDate(d) ==
    Decimal(d[1], 4) \o <<Minus>> \o Decimal(d[2], 2) \o <<Minus>> \o Decimal(d[3], 2)

EncodeMicroseconds(f) == IF f > 0 THEN <<Dot>> \o Decimal(f, 6) ELSE <<>>

(* EncodeTime leaves out seconds and microseconds that are 0, and the tzinfo. *)
EncodeTime(t) ==
    Decimal(t[1], 2) \o <<Colon>> \o Decimal(t[2], 2)
        \o (IF t[3] > 0 \/ t[4] > 0 THEN <<Colon>> \o Decimal(t[3], 2) ELSE <<>>)
        \o EncodeMicroseconds(t[4])

(* Variant: the sign of the offset is lost. *)
EncodeOffsetUnsigned(o) ==
    IF o = 0 THEN <<UpperZ>>
    ELSE <<Plus>> \o Decimal(((IF o < 0 THEN -o ELSE o) \div 3600) % 24, 2)
            \o <<Colon>> \o Decimal(((IF o < 0 THEN -o ELSE o) \div 60) % 60, 2)

EncodeOffset(o) ==
    LET minutes == (IF o < 0 THEN -o ELSE o) \div 60
    IN  IF o = 0 THEN <<UpperZ>>
        ELSE <<IF o < 0 THEN Minus ELSE Plus>> \o Decimal((minutes \div 60) % 24, 2)
                \o <<Colon>> \o Decimal(minutes % 60, 2)

(* EncodeDateTime: `T' in the place of the space if there is a tzinfo. *)
EncodeDateTime(m) ==
    EncodeDate(m.date) \o <<IF m.offset = <<>> THEN 32 ELSE 84>>
        \o Decimal(m.time[1], 2) \o <<Colon>> \o Decimal(m.time[2], 2)
        \o <<Colon>> \o Decimal(m.time[3], 2) \o EncodeMicroseconds(m.time[4])
        \o (IF m.offset = <<>> THEN <<>> ELSE EncodeOffset(m.offset[1]))

(* The text between the quotes. *)
EncodeMoment(m) ==
    CASE m.kind = "date" -> EncodeDate(m.date)
      [] m.kind = "time" -> EncodeTime(m.time)
      [] m.kind = "datetime" -> EncodeDateTime(m)
=============================================================================
