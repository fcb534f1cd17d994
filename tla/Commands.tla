------------------------------ MODULE Commands ------------------------------
(***************************************************************************)
(* The command line (cmd/kvengine/main.go): how a line becomes a call of   *)
(* the engine, which is here the map that KVStore promises.                *)
(*                                                                         *)
(* A line is a sequence of characters; white space is one character.  int  *)
(* has IntBits bits.                                                       *)
(***************************************************************************)
EXTENDS Integers, Sequences, SequencesExt, FiniteSets, FiniteSetsExt, TLC

CONSTANTS
    Lines,             \* what may be typed
    ReservedKeys,      \* keys that belong to the engine
    TableCount,
    IntBits,
    MaxLines           \* bound: lines typed

ASSUME CommandsAssumption ==
    /\ TableCount \in Nat
    /\ IntBits \in Nat \ {0}
    /\ MaxLines \in Nat

VARIABLES
    running,
    line,              \* the last line read, trimmed
    store,             \* the map: the keys it holds are its domain
    answer,            \* [status, output, number]
    lines,             \* bound
    typed              \* history: the values as they stand behind the keys in the lines

vars == <<running, line, store, answer, lines, typed>>

-----------------------------------------------------------------------------
(* Strings *)

Space == " "

UpperCase ==
    [a |-> "A", b |-> "B", d |-> "D", e |-> "E", g |-> "G", i |-> "I", k |-> "K", l |-> "L",
     m |-> "M", p |-> "P", q |-> "Q", r |-> "R", s |-> "S", t |-> "T", u |-> "U", x |-> "X"]
ToUpper(s) ==
    [i \in DOMAIN s |-> IF s[i] \in DOMAIN UpperCase THEN UpperCase[s[i]] ELSE s[i]]

From(s, i) == SubSeq(s, i, Len(s))

TrimSpace(s) ==
    LET seen == {i \in DOMAIN s : s[i] # Space}
    IN  IF seen = {} THEN <<>> ELSE SubSeq(s, Min(seen), Max(seen))

\* Where the fields of a string begin and end
FieldBegins(s) == {i \in DOMAIN s : s[i] # Space /\ (i > 1 => s[i - 1] = Space)}
FieldEnd(s, i) == Min({j \in i .. Len(s) : j = Len(s) \/ s[j + 1] = Space})

Begins(s) == SelectSeq([i \in DOMAIN s |-> i], LAMBDA i : i \in FieldBegins(s))
Fields(s) == [n \in DOMAIN Begins(s) |-> SubSeq(s, Begins(s)[n], FieldEnd(s, Begins(s)[n]))]

\* The positions where a string stands in another; strings.Index takes the first
Occurrences(s, sub) ==
    {i \in 1 .. Len(s) - Len(sub) + 1 : SubSeq(s, i, i + Len(sub) - 1) = sub}
IndexLast(s, sub) == Max(Occurrences(s, sub))
Index(s, sub) == Min(Occurrences(s, sub))

Wrapped(n) == ((n + 2 ^ (IntBits - 1)) % 2 ^ IntBits) - 2 ^ (IntBits - 1)

DigitValue == "0" :> 0 @@ "1" :> 1 @@ "2" :> 2 @@ "3" :> 3 @@ "4" :> 4
                @@ "5" :> 5 @@ "6" :> 6 @@ "7" :> 7 @@ "8" :> 8 @@ "9" :> 9

IsNumeral(s) == \A i \in DOMAIN s : s[i] \in DOMAIN DigitValue

\* The digits read up to here, in a machine's int
Number(s) ==
    FoldLeft(LAMBDA number, ch : Wrapped(number * 10 + DigitValue[ch]), 0, s)

\* parsePositiveInt: 0 stands for an error
ParsedPrefix(s) ==
    LET digits == SelectSeq(s, LAMBDA ch : ch \in DOMAIN DigitValue)
    IN  IF Number(digits) < 1 THEN 0 ELSE Number(digits)
ParsePositiveInt(s) ==
    IF ~IsNumeral(s) THEN 0 ELSE IF Number(s) < 1 THEN 0 ELSE Number(s)

-----------------------------------------------------------------------------
(* The commands *)

Answer(status, output, number) ==
    [status |-> status, output |-> output, number |-> number]

Usage == answer' = Answer("usage", <<>>, 0) /\ UNCHANGED <<store, typed>>

\* An error of the engine before the call takes effect
Refused == answer' = Answer("error", <<>>, 0) /\ UNCHANGED <<store, typed>>

Holding(map, key, value) == key :> value @@ map
Without(map, key) == [k \in DOMAIN map \ {key} |-> map[k]]

\* The value that PUT passes on
PutValue(l, key) == TrimSpace(From(l, Index(l, key) + Len(key)))

\* History: what stands behind the second field
TypedValue(l) == TrimSpace(From(l, FieldEnd(l, Begins(l)[2]) + 1))

\* A failing call may have taken effect
Put(l, parts) ==
    IF Len(parts) < 3 \/ PutValue(l, parts[2]) = <<>> THEN Usage
    ELSE \/ Refused
         \/ /\ parts[2] \notin ReservedKeys
            /\ store' = Holding(store, parts[2], PutValue(l, parts[2]))
            /\ typed' = Holding(typed, parts[2], TypedValue(l))
            /\ \E status \in {"ok", "error"} : answer' = Answer(status, <<>>, 0)

Get(parts) ==
    IF Len(parts) # 2 THEN Usage
    ELSE \/ Refused
         \/ /\ parts[2] \notin ReservedKeys
            /\ answer' = IF parts[2] \in DOMAIN store THEN Answer("ok", store[parts[2]], 0)
                         ELSE Answer("not found", <<>>, 0)
            /\ UNCHANGED <<store, typed>>

Delete(parts) ==
    IF Len(parts) # 2 THEN Usage
    ELSE \/ Refused
         \/ /\ parts[2] \notin ReservedKeys
            /\ store' = Without(store, parts[2])
            /\ typed' = Without(typed, parts[2])
            /\ \E status \in {"ok", "error"} : answer' = Answer(status, <<>>, 0)

\* number: the table that is validated
Merkle(parts) ==
    IF Len(parts) # 2 \/ ParsePositiveInt(parts[2]) = 0 THEN Usage
    ELSE \/ Refused
         \/ /\ ParsePositiveInt(parts[2]) <= TableCount
            /\ answer' = Answer("ok", <<>>, ParsePositiveInt(parts[2]))
            /\ UNCHANGED <<store, typed>>

CountTables(parts) ==
    IF Len(parts) # 1 THEN Usage
    ELSE answer' = Answer("ok", <<>>, TableCount) /\ UNCHANGED <<store, typed>>

Unknown == answer' = Answer("unknown command", <<>>, 0) /\ UNCHANGED <<store, typed>>

Word ==
    [PUT |-> <<"P", "U", "T">>, GET |-> <<"G", "E", "T">>,
     DELETE |-> <<"D", "E", "L", "E", "T", "E">>, MERKLE |-> <<"M", "E", "R", "K", "L", "E">>,
     TABLES |-> <<"T", "A", "B", "L", "E", "S">>,
     EXIT |-> <<"E", "X", "I", "T">>, QUIT |-> <<"Q", "U", "I", "T">>]

Execute(l) ==
    LET parts == Fields(l)
        command == ToUpper(parts[1])
    IN  CASE command = Word.PUT -> Put(l, parts)
          [] command = Word.GET -> Get(parts)
          [] command = Word.DELETE -> Delete(parts)
          [] command = Word.MERKLE -> Merkle(parts)
          [] command = Word.TABLES -> CountTables(parts)
          [] OTHER -> Unknown

ShouldExit(l) == ToUpper(Fields(l)[1]) \in {Word.EXIT, Word.QUIT}

Init ==
    /\ running = TRUE
    /\ line = <<>>
    /\ store = <<>>
    /\ answer = Answer("none", <<>>, 0)
    /\ lines = 0
    /\ typed = <<>>

\* The loop reads a line
Enter(text) ==
    /\ running
    /\ lines < MaxLines
    /\ lines' = lines + 1
    /\ line' = TrimSpace(text)

Skip(text) ==
    /\ Enter(text)
    /\ line' = <<>>
    /\ UNCHANGED <<running, store, answer, typed>>

Command(text) ==
    /\ Enter(text)
    /\ line' # <<>>
    /\ ~ShouldExit(line')
    /\ Execute(line')
    /\ UNCHANGED running

Exit(text) ==
    /\ Enter(text)
    /\ line' # <<>>
    /\ ShouldExit(line')
    /\ running' = FALSE
    /\ UNCHANGED <<store, answer, typed>>

\* The input ends, or has a line of more than the 64 KiB that the scanner has room for
EndOfInput ==
    /\ running
    /\ running' = FALSE
    /\ UNCHANGED <<line, store, answer, lines, typed>>

\* The program is run again: the map is what it was
Run ==
    /\ ~running
    /\ running' = TRUE
    /\ line' = <<>>
    /\ answer' = Answer("none", <<>>, 0)
    /\ UNCHANGED <<store, lines, typed>>

Next ==
    \/ \E text \in Lines : Skip(text) \/ Command(text) \/ Exit(text)
    \/ EndOfInput
    \/ Run

Spec == Init /\ [][Next]_vars

-----------------------------------------------------------------------------
(* Properties *)

\* PUT key value stores the value: what stands behind the key in the line
\* (main.go:78-91, its usage at main.go:39 and 82).
ValueAsTyped == store = typed

\* PUT never loses or cuts the value: what it stores ends with what stands behind the key,
\* however often the key's text occurs in the line (main.go:83-85).
NothingTypedIsLost ==
    /\ DOMAIN store = DOMAIN typed
    /\ \A key \in DOMAIN store : IsSuffix(typed[key], store[key])

\* A line with a key and a value behind it is never turned away as malformed, and one
\* without a value never reaches the engine (main.go:79-88).
UsageExact ==
    [][lines' # lines /\ line' # <<>> /\ ToUpper(Fields(line')[1]) = Word.PUT
          => (answer'.status = "usage" <=> Cardinality(FieldBegins(line')) < 3)]_vars

\* The table that MERKLE validates is the one named, as long as its number fits an int; one
\* that does not may name a table all the same (main.go:114-122, 143-155).
TableAsTyped ==
    running /\ line # <<>> /\ ToUpper(Fields(line)[1]) = Word.MERKLE /\ answer.number # 0
        => LET digits == Fields(line)[2]
               number == FoldLeft(LAMBDA n, ch : n * 10 + DigitValue[ch], 0, digits)
           IN  /\ IsNumeral(digits)
               /\ number < 2 ^ (IntBits - 1) => answer.number = number
=============================================================================
