-------------------------- MODULE ArgumentsParser --------------------------
(***************************************************************************)
(* ProgramArgumentsParser (utils/programArgumentsParser.cpp): one pass     *)
(* over the command line that pairs each key with the argument after it.   *)
(*                                                                         *)
(* A string is a sequence of characters, as the shape of a key is what the *)
(* pass decides by.  argv is without argv[0], so the indices are the same. *)
(***************************************************************************)
EXTENDS Naturals, Sequences, FiniteSets, FiniteSetsExt

CONSTANTS
  Chars,      \* the characters
  Dash,       \* the character '-'
  Arguments,  \* the strings a command line is made of
  MaxArgc,    \* a bound on their number
  Defaults    \* def_args: key -> value

ASSUME ArgumentsAssumption ==
  /\ Arguments \subseteq Seq(Chars)
  /\ MaxArgc \in Nat

VARIABLES
  argv,
  i,         \* the loop's index
  paired,    \* _paired_arguments: key -> value
  unpaired,  \* _unpaired_arguments
  parsed     \* _parsed

argumentsVars == <<argv, i, paired, unpaired, parsed>>

CommandLines == UNION {[1 .. n -> Arguments] : n \in 0 .. MaxArgc}

ArgumentsInit ==
  /\ argv \in CommandLines
  /\ i = 1
  /\ paired = Defaults
  /\ unpaired = <<>>
  /\ parsed = FALSE

has_key_signature(str) == str # <<>> /\ Head(str) = Dash /\ str[Len(str)] # Dash

extract_key(str) ==
  LET letters == {n \in DOMAIN str : str[n] # Dash} IN
    IF letters = {} THEN <<>> ELSE SubSeq(str, Min(letters), Len(str))

\* A key is followed by its value, unless by the end or by another key.
TakesNext(j) == j < Len(argv) /\ ~has_key_signature(argv[j + 1])
ValueOf(j) == IF TakesNext(j) THEN argv[j + 1] ELSE <<>>

\* Two defects: the value is not skipped, the first value of a key is kept.
PairAndStay ==
  LET key == extract_key(argv[i]) IN
  /\ ~parsed /\ i <= Len(argv)
  /\ has_key_signature(argv[i])
  /\ paired' = [k \in DOMAIN paired \cup {key} |-> IF k = key THEN ValueOf(i) ELSE paired[k]]
  /\ i' = i + 1
  /\ UNCHANGED <<argv, unpaired, parsed>>
PairOnce ==
  LET key == extract_key(argv[i]) IN
  /\ ~parsed /\ i <= Len(argv)
  /\ has_key_signature(argv[i])
  /\ paired' = [k \in DOMAIN paired \cup {key} |->
                  IF k \in DOMAIN paired THEN paired[k] ELSE ValueOf(i)]
  /\ i' = IF TakesNext(i) THEN i + 2 ELSE i + 1
  /\ UNCHANGED <<argv, unpaired, parsed>>

ParseKey ==
  LET key == extract_key(argv[i]) IN
  /\ ~parsed /\ i <= Len(argv)
  /\ has_key_signature(argv[i])
  /\ paired' = [k \in DOMAIN paired \cup {key} |-> IF k = key THEN ValueOf(i) ELSE paired[k]]
  /\ i' = IF TakesNext(i) THEN i + 2 ELSE i + 1
  /\ UNCHANGED <<argv, unpaired, parsed>>

ParseUnpaired ==
  /\ ~parsed /\ i <= Len(argv)
  /\ ~has_key_signature(argv[i])
  /\ unpaired' = Append(unpaired, argv[i])
  /\ i' = i + 1
  /\ UNCHANGED <<argv, paired, parsed>>

ParseDone ==
  /\ ~parsed /\ i > Len(argv)
  /\ parsed' = TRUE
  /\ UNCHANGED <<argv, i, paired, unpaired>>

key_exists(key) == key \in DOMAIN paired

AcquireValueByKey(key, default) == IF key_exists(key) THEN paired[key] ELSE default

\* The object is not asked to parse again.
Idle == parsed /\ UNCHANGED argumentsVars

ArgumentsNext == ParseKey \/ ParseUnpaired \/ ParseDone \/ Idle

ArgumentsSpec == ArgumentsInit /\ [][ArgumentsNext]_argumentsVars

-----------------------------------------------------------------------------
(* What a command line means, argument by argument.                        *)

Key(j) == has_key_signature(argv[j])
Value(j) == ~Key(j) /\ j > 1 /\ Key(j - 1)
Positional(j) == ~Key(j) /\ ~(j > 1 /\ Key(j - 1))

\* The positions before n that carry a positional argument.
PositionsBefore(n) == {j \in 1 .. n - 1 : Positional(j)}

\* Every argument that is neither a key nor what follows one is kept, once and
\* in order: no value is taken for the serve path, no path for a value of the key
\* before last (programArgumentsParser.cpp:26-32).
UnpairedInOrder ==
  /\ Len(unpaired) = Cardinality(PositionsBefore(i))
  /\ \A j \in PositionsBefore(i) : unpaired[Cardinality(PositionsBefore(j)) + 1] = argv[j]

\* A key has the value given with it last, whatever its spelling and wherever it
\* stands, as AcquireValueByKey finds it; one that is not given has its default, and
\* no other exists (programArgumentsParser.cpp:24-61).
LastValueWins ==
  /\ DOMAIN paired =
       DOMAIN Defaults \cup {extract_key(argv[j]) : j \in {n \in 1 .. i - 1 : Key(n)}}
  /\ \A j \in 1 .. i - 1 :
       /\ Key(j)
       /\ \A n \in j + 1 .. i - 1 : Key(n) => extract_key(argv[n]) # extract_key(argv[j])
       => AcquireValueByKey(extract_key(argv[j]), <<>>) = ValueOf(j)
  /\ \A k \in DOMAIN Defaults :
       (\A j \in 1 .. i - 1 : Key(j) => extract_key(argv[j]) # k)
       => AcquireValueByKey(k, <<>>) = Defaults[k]
=============================================================================
