------------------------------ MODULE DateTime ------------------------------
(***************************************************************************)
(* utils/dateTime.cpp: StringToTimeT reads a date, token by token, and     *)
(* TimeTToString prints what it read.                                      *)
(*                                                                         *)
(* A string is a sequence of words and separators.  A word is a record of  *)
(* its letters and of the number stoi makes of its digits, NoNumber when   *)
(* stoi throws: a word of letters, or one too large for an int.            *)
(***************************************************************************)
EXTENDS Integers, Sequences, SequencesExt

CONSTANTS
  Dates,  \* the dates that strings are made of
  Words   \* the words that take the place of another in a string that is no date

VARIABLES
  date,    \* the date that was meant
  format,  \* the format it was written in, 1 to 3
  change,  \* what is wrong with the string: a kind and a place, or NoChange
  tokens,  \* the words of the string
  next,       \* the next token to parse
  t,       \* the tm made so far: year counts from 1900, mon and wday from 0
  outcome,    \* "started", "parsing", "threw", "returned", "printed", "unprintable"
  text     \* what TimeTToString returned

dateVars == <<date, format, change, tokens, next, t, outcome, text>>

NoNumber == -1

Number(n) == [name |-> "digits", number |-> n]

Name(name) == [name |-> name, number |-> NoNumber]

Days == <<"Sun", "Mon", "Tue", "Wed", "Thu", "Fri", "Sat">>

LongDays == <<"Sunday", "Monday", "Tuesday", "Wednesday", "Thursday", "Friday", "Saturday">>

Months == <<"Jan", "Feb", "Mar", "Apr", "May", "Jun", "Jul", "Aug", "Sep", "Oct", "Nov", "Dec">>

c_wday_id_to_short_name == [id \in 0 .. 6 |-> Days[id + 1]]

c_wday_name_to_id ==
  [name \in Range(Days) \cup Range(LongDays) |->
     (CHOOSE n \in 1 .. 7 : name \in {Days[n], LongDays[n]}) - 1]

c_month_id_to_name == [id \in 0 .. 11 |-> Months[id + 1]]

c_month_name_to_id == [name \in Range(Months) |-> (CHOOSE n \in 1 .. 12 : Months[n] = name) - 1]

c_zero_year == 1900

\* As gmtime fills it, from 1900 on; POSIX time has no leap seconds.
Tm == [wday : 0 .. 6, mday : 1 .. 31, mon : 0 .. 11, year : Nat, hour : 0 .. 23, min : 0 .. 59, sec : 0 .. 59]

EmptyTm == [wday |-> 0, mday |-> 0, mon |-> 0, year |-> 0, hour |-> 0, min |-> 0, sec |-> 0]

ASSUME DatesAssumption ==
  /\ Dates \subseteq Tm
  /\ \A word \in Words : word.number >= NoNumber

-----------------------------------------------------------------------------
\* Strings.

Separators == {"blank", "comma", "dash", "colon"}

Time(tm) == <<Number(tm.hour), Name("colon"), Number(tm.min), Name("colon"), Number(tm.sec)>>

TimeTToString(tm) ==
  <<Name(c_wday_id_to_short_name[tm.wday]), Name("comma"), Name("blank"), Number(tm.mday), Name("blank"),
    Name(c_month_id_to_name[tm.mon]), Name("blank"), Number(tm.year + c_zero_year), Name("blank")>>
  \o Time(tm) \o <<Name("blank"), Name("GMT")>>

\* The formats the comments of c_time_standards show; the first is TimeTToString's.
Written(tm, f) ==
  CASE f = 1 -> TimeTToString(tm)
    [] f = 2 -> <<Name(LongDays[tm.wday + 1]), Name("comma"), Name("blank"), Number(tm.mday), Name("dash"),
                  Name(Months[tm.mon + 1]), Name("dash"), Number((tm.year + c_zero_year) % 100), Name("blank")>>
                \o Time(tm) \o <<Name("blank"), Name("GMT")>>
    [] f = 3 -> <<Name(Days[tm.wday + 1]), Name("blank"), Name(Months[tm.mon + 1]), Name("blank"),
                  Number(tm.mday), Name("blank")>>
                \o Time(tm) \o <<Name("blank"), Number(tm.year + c_zero_year)>>

\* No two words of a string are next to each other.
TokenizeDateString(str) ==
  FlattenSeq([n \in DOMAIN str |-> IF str[n].name \in Separators THEN <<>> ELSE <<str[n]>>])

c_time_standards ==
  <<<<"DayOfWeek", "Day", "Month", "Year", "Hour", "Minute", "Second">>,
    <<"DayOfWeek", "Month", "Day", "Hour", "Minute", "Second", "Year">>>>

DetectTimeStandard(words) == IF words[2].name \in DOMAIN c_month_name_to_id THEN 2 ELSE 1

-----------------------------------------------------------------------------

NoChange == <<"none", 0>>

\* A date in one of the formats, or one with a word replaced, left out or added.
DateInit ==
  /\ date \in Dates /\ format \in 1 .. 3
  /\ LET words == TokenizeDateString(Written(date, format))
     IN  \/ change = NoChange /\ tokens = words
         \/ \E k \in DOMAIN words, word \in Words :
              change = <<"replaced", k>> /\ tokens = ReplaceAt(words, k, word)
         \/ \E k \in DOMAIN words : change = <<"omitted", k>> /\ tokens = RemoveAt(words, k)
         \/ \E k \in DOMAIN words, word \in Words :
              change = <<"added", k>> /\ tokens = InsertAt(words, k, word)
  /\ next = 1 /\ t = EmptyTm /\ outcome = "started" /\ text = <<>>

SizeOk == Len(tokens) \in {7, 8}

Start ==
  /\ outcome = "started"
  /\ outcome' = IF SizeOk THEN "parsing" ELSE "threw"
  /\ UNCHANGED <<date, format, change, tokens, next, t, text>>

At(chunk) ==
  /\ outcome = "parsing" /\ next <= 7
  /\ c_time_standards[DetectTimeStandard(tokens)][next] = chunk

\* The field gets the value when the token is one it accepts.
Set(field, accepted, value) ==
  /\ IF accepted
     THEN t' = [t EXCEPT ![field] = value] /\ next' = next + 1 /\ UNCHANGED outcome
     ELSE outcome' = "threw" /\ UNCHANGED <<t, next>>
  /\ UNCHANGED <<date, format, change, tokens, text>>

stoi == tokens[next].number

DayOfWeek ==
  /\ At("DayOfWeek")
  /\ LET name == tokens[next].name
         known == name \in DOMAIN c_wday_name_to_id
     IN  Set("wday", known, IF known THEN c_wday_name_to_id[name] ELSE 0)

Day == At("Day") /\ Set("mday", stoi # NoNumber, stoi)

Month ==
  /\ At("Month")
  /\ LET name == tokens[next].name
         known == name \in DOMAIN c_month_name_to_id
     IN  Set("mon", known \/ stoi # NoNumber, IF known THEN c_month_name_to_id[name] ELSE stoi)

\* A defect: years of two digits stay in the first century.
FullYear(year) == year

CenturyAdded(year) == IF year < 100 THEN year + 2000 ELSE year

Year == At("Year") /\ Set("year", stoi # NoNumber, CenturyAdded(stoi) - c_zero_year)

Hour == At("Hour") /\ Set("hour", stoi \in 0 .. 23, stoi)

Minute == At("Minute") /\ Set("min", stoi \in 0 .. 59, stoi)

\* A defect: a second is whatever number is there.
AnySecond == At("Second") /\ Set("sec", stoi # NoNumber, stoi)

Second == At("Second") /\ Set("sec", stoi \in 0 .. 59, stoi)

ReturnDate ==
  /\ outcome = "parsing" /\ next = 8 /\ outcome' = "returned"
  /\ UNCHANGED <<date, format, change, tokens, next, t, text>>

\* The caller prints what it got; map::at throws for a month that has no name.
PrintDate ==
  /\ outcome = "returned"
  /\ IF t.wday \in 0 .. 6 /\ t.mon \in 0 .. 11
     THEN outcome' = "printed" /\ text' = TimeTToString(t)
     ELSE outcome' = "unprintable" /\ UNCHANGED text
  /\ UNCHANGED <<date, format, change, tokens, next, t>>

DateOver == outcome \in {"threw", "printed", "unprintable"} /\ UNCHANGED dateVars

DateNext ==
  \/ Start \/ DayOfWeek \/ Day \/ Month \/ Year \/ Hour \/ Minute \/ Second
  \/ ReturnDate \/ PrintDate \/ DateOver

DateSpec == DateInit /\ [][DateNext]_dateVars

-----------------------------------------------------------------------------

\* The field a word of a format is for, "none" for the zone.
FieldOf(k, f) ==
  IF f = 3 THEN <<"wday", "mon", "mday", "hour", "min", "sec", "year">>[k]
  ELSE <<"wday", "mday", "mon", "year", "hour", "min", "sec", "none">>[k]

\* What a format can say of a date: two digits say a year of this century.
Said == IF format = 2 THEN [date EXCEPT !.year = 100 + ((@ + c_zero_year) % 100)] ELSE date

Finished == outcome \in {"threw", "printed", "unprintable"}

\* A date written in any of the three formats is read for what it is and printed in the
\* first; TimeTToString and StringToTimeT undo each other (dateTime.cpp:108-114, 144-293).
ReadsWhatIsWritten ==
  change = NoChange /\ Finished => outcome = "printed" /\ t = Said /\ text = TimeTToString(Said)

\* A wrong word is refused or spoils its own field alone: what one token is taken for
\* does not depend on the others, the choice between the formats notwithstanding, and a
\* missing word other than the zone is always noticed (dateTime.cpp:117-131, 152-276).
\* A word too many may not be: "Fri 9 Dec 31 23:59:59 2009" is read as of 2031.
\* What is read can be printed, unless its month was a number (lines 200-209).
OneWordOneField ==
  outcome \in {"returned", "printed", "unprintable"} =>
    /\ change[1] = "replaced" =>
         \A field \in DOMAIN t \ {FieldOf(change[2], format)} : t[field] = Said[field]
    /\ change[1] = "omitted" => FieldOf(change[2], format) = "none" /\ t = Said
    /\ outcome = "unprintable" =>
         change[1] # "none" /\ \A k \in DOMAIN tokens : tokens[k].name \notin Range(Months)
=============================================================================
