------------------------------ MODULE Strings ------------------------------
(***************************************************************************)
(* The text helpers the program starts with: string to number conversion   *)
(* (string_number_conversions.cc), splitting (string_split.cc,             *)
(* string_util.cc), the verbosity switches (vlog.cc) and the rules of a    *)
(* command line (command_line.cc).  A text is a sequence of characters.    *)
(***************************************************************************)
EXTENDS Integers, Sequences, SequencesExt, FiniteSetsExt

(* find_first_of and find_last_of; positions from 1, none is Len(s) + 1, 0 *)
FirstOf(s, C) == Min({i \in 1..Len(s) : s[i] \in C} \cup {Len(s) + 1})
LastOf(s, C) == Max({i \in 1..Len(s) : s[i] \in C} \cup {0})
Upto(s, i) == SubSeq(s, 1, i - 1)
From(s, i) == SubSeq(s, i, Len(s))

Space == {" "}

(* TrimWhitespace at both ends.                                            *)
TrimString(s) ==
    LET kept == {i \in 1..Len(s) : s[i] \notin Space}
    IN  IF kept = {} THEN <<>> ELSE SubSeq(s, Min(kept), Max(kept))

-----------------------------------------------------------------------------
(* Numbers, for a value type with the range lo..hi in a base.              *)

kDigits == <<"0", "1", "2", "3", "4", "5", "6", "7", "8", "9">>
CharToDigit(ch, base) == {d \in 0..base - 1 : kDigits[d + 1] = ch}

(* C++ division and remainder round towards zero.                          *)
Quotient(a, b) == IF a >= 0 THEN a \div b ELSE -((-a) \div b)
Remainder(a, b) == a - b * Quotient(a, b)

Wrap(v, lo, hi) == lo + ((v - lo) % (hi - lo + 1))

(* Would the next digit leave the range?                                   *)
TooLarge(v, d, hi, base) ==
    v > Quotient(hi, base) \/ (v = Quotient(hi, base) /\ d > Remainder(hi, base))
TooSmall(v, d, lo, base) ==
    v < Quotient(lo, base) \/ (v = Quotient(lo, base) /\ d > 0 - Remainder(lo, base))

(* Mutant of AppendDigit: an accumulator at the limit takes any digit.     *)
AppendDigitAtLimit(v, d, first, sign, lo, hi, base) ==
    IF ~first /\ (IF sign = 1 THEN v > Quotient(hi, base) ELSE v < Quotient(lo, base))
    THEN [ok |-> FALSE, value |-> IF sign = 1 THEN hi ELSE lo]
    ELSE [ok |-> TRUE, value |-> Wrap((IF first THEN 0 ELSE v * base) + sign * d, lo, hi)]

(* One digit more.  The first is not checked: no type is that narrow, but  *)
(* a negative one wraps in an unsigned type.                               *)
AppendDigit(v, d, first, sign, lo, hi, base) ==
    IF ~first /\ (IF sign = 1 THEN TooLarge(v, d, hi, base) ELSE TooSmall(v, d, lo, base))
    THEN [ok |-> FALSE, value |-> IF sign = 1 THEN hi ELSE lo]
    ELSE [ok |-> TRUE, value |-> Wrap((IF first THEN 0 ELSE v * base) + sign * d, lo, hi)]

(* The loop stops at the first character it cannot take.                   *)
DigitsToNumber(s, sign, lo, hi, base) ==
    LET f[i \in 0..Len(s)] ==
          IF i = 0 THEN [ok |-> TRUE, value |-> 0]
          ELSE IF ~f[i - 1].ok THEN f[i - 1]
          ELSE IF CharToDigit(s[i], base) = {} THEN [ok |-> FALSE, value |-> f[i - 1].value]
          ELSE LET d == CHOOSE d \in CharToDigit(s[i], base) : TRUE
               IN  AppendDigit(f[i - 1].value, d, i = 1, sign, lo, hi, base)
    IN  IF s = <<>> THEN [ok |-> FALSE, value |-> 0] ELSE f[Len(s)]

(* Leading white space is skipped, and spoils the result; one sign.        *)
StringToNumber(s, lo, hi, base) ==
    LET text == From(s, Min({i \in 1..Len(s) : s[i] \notin Space} \cup {Len(s) + 1}))
        sign == IF text # <<>> /\ text[1] = "-" THEN -1 ELSE 1
        digits == IF text # <<>> /\ text[1] \in {"-", "+"} THEN Tail(text) ELSE text
        n == DigitsToNumber(digits, sign, lo, hi, base)
    IN  [n EXCEPT !.ok = @ /\ text = s]

(* The digits from the right, then the sign.                               *)
NumberToString(v) ==
    LET f[n \in 0..(IF v < 0 THEN -v ELSE v)] == IF n < 10 THEN <<kDigits[n + 1]>>
                              ELSE Append(f[n \div 10], kDigits[(n % 10) + 1])
    IN  IF v < 0 THEN <<"-">> \o f[-v] ELSE f[v]

-----------------------------------------------------------------------------
(* Splitting.                                                              *)

(* A character belongs to the last piece, or it ends it.                   *)
SplitStringDontTrim(s, c) ==
    FoldLeft(LAMBDA pieces, ch : IF ch = c THEN Append(pieces, <<>>)
                                 ELSE Append(Front(pieces), Append(Last(pieces), ch)),
             << <<>> >>, s)

SplitString(s, c) == LET parts == SplitStringDontTrim(s, c)
                     IN  [k \in 1..Len(parts) |-> TrimString(parts[k])]

(* The delimiter is a text that is not empty.                              *)
SplitStringUsingSubstr(s, delimiter) ==
    LET Hits(b) == {i \in b..Len(s) - Len(delimiter) + 1 :
                       SubSeq(s, i, i + Len(delimiter) - 1) = delimiter}
        f[b \in 1..Len(s) + 1] ==
          IF Hits(b) = {} THEN <<TrimString(From(s, b))>>
          ELSE <<TrimString(SubSeq(s, b, Min(Hits(b)) - 1))>> \o f[Min(Hits(b)) + Len(delimiter)]
    IN  f[1]

(* The last of the words is the one that goes on, <<>> behind a space: a  *)
(* run of them ends one word.                                              *)
SplitStringAlongWhitespace(s) ==
    LET words == FoldLeft(LAMBDA found, ch :
                              IF ch \notin Space
                              THEN Append(Front(found), Append(Last(found), ch))
                              ELSE IF Last(found) = <<>> THEN found
                              ELSE Append(found, <<>>),
                          << <<>> >>, s)
    IN  IF Last(words) = <<>> THEN Front(words) ELSE words

(* The key is before the first delimiter, the value after the run of them. *)
SplitStringIntoKeyValues(s, c) ==
    LET rest == From(s, FirstOf(s, {c}))
        value == From(rest, Min({i \in 1..Len(rest) : rest[i] # c} \cup {Len(rest) + 1}))
    IN  IF rest = <<>> THEN [ok |-> FALSE, key |-> <<>>, value |-> <<>>]
        ELSE [ok |-> value # <<>>, key |-> Upto(s, FirstOf(s, {c})), value |-> value]

(* Empty pairs are skipped; a failed pair does not end the list.           *)
SplitStringIntoKeyValuePairs(s, c, separator) ==
    FoldLeft(LAMBDA pairs, part : IF part = <<>> THEN pairs
                                  ELSE Append(pairs, SplitStringIntoKeyValues(part, c)),
             <<>>, SplitString(s, separator))

-----------------------------------------------------------------------------
(* Verbosity.                                                              *)

PathSlash == {"/", "\\"}

(* Mutant of MatchesHere: a slash matches any character.                   *)
MatchesHereAnySlash(p, ch) == p \in PathSlash \cup {"?"} \/ p = ch

MatchesHere(p, ch) ==
    \/ p \in PathSlash /\ ch \in PathSlash
    \/ p = "?"
    \/ p \notin PathSlash /\ p = ch

(* Where a text that the rest of the pattern from j on matches may begin:  *)
(* up to the first star it matches in place; behind the stars it has to    *)
(* match some rest of the text.                                            *)
MatchVlogPattern(s, p) ==
    LET matches[j \in 1..Len(p) + 1] == {i \in 1..Len(s) + 1 :
          LET m == Min({FirstOf(From(p, j), {"*"}) - 1, Len(s) + 1 - i})
              behind == Min({k \in j + m..Len(p) : p[k] # "*"} \cup {Len(p) + 1})
          IN  /\ \A k \in 0..m - 1 : MatchesHere(p[j + k], s[i + k])
              /\ IF j + m > Len(p) THEN i + m > Len(s)
                 ELSE behind > Len(p) \/ \E k \in i + m..Len(s) : k \in matches[behind]}
    IN  1 \in matches[1]

(* The base name without extension and without "-inl", here one mark.      *)
GetModule(file) ==
    LET name == From(file, LastOf(file, PathSlash) + 1)
        dot == LastOf(name, {"."})
        stem == IF dot = 0 THEN name ELSE Upto(name, dot)
    IN  IF stem # <<>> /\ Last(stem) = "-inl" THEN Front(stem) ELSE stem

(* The first pattern that matches decides, on the path if it has a slash.  *)
GetVlogLevel(levels, max, file) ==
    LET Target(p) == IF Range(p) \cap PathSlash # {} THEN file ELSE GetModule(file)
        hits == {k \in 1..Len(levels) :
                    MatchVlogPattern(Target(levels[k].pattern), levels[k].pattern)}
    IN  IF hits = {} THEN max ELSE levels[Min(hits)].vlog_level

(* The levels of a --vmodule switch, "<pattern>=<level>,...".  atoi skips  *)
(* white space, takes one sign and reads as far as there are digits, 0 if  *)
(* there is none, and says nothing of what is behind.  The int is scaled   *)
(* to a byte; what it cannot hold, which C leaves undefined, is clamped.   *)
atoi(s) == StringToNumber(s, -128, 127, 10).value

VlogInfo(vmodule_switch) ==
    LET pairs == SplitStringIntoKeyValuePairs(vmodule_switch, "=", ",")
    IN  [k \in 1..Len(pairs) |-> [pattern |-> pairs[k].key, vlog_level |-> atoi(pairs[k].value)]]

-----------------------------------------------------------------------------
(* Command lines.                                                          *)

kSwitchTerminator == <<"-", "-">>

(* "--" is tried before "-".                                               *)
GetSwitchPrefixLength(arg) ==
    IF Len(arg) >= 2 /\ SubSeq(arg, 1, 2) = <<"-", "-">> THEN 2
    ELSE IF Len(arg) >= 1 /\ arg[1] = "-" THEN 1 ELSE 0

IsSwitch(arg) == GetSwitchPrefixLength(arg) > 0

SwitchString(arg) == Upto(arg, FirstOf(arg, {"="}))
SwitchValue(arg) == From(arg, FirstOf(arg, {"="}) + 1)
SwitchKey(arg) == From(SwitchString(arg), GetSwitchPrefixLength(SwitchString(arg)) + 1)

(* The empty line: argv_ holds an empty program name, begin_args_ points   *)
(* behind it.                                                              *)
NoProgram == [argv |-> << <<>> >>, begin |-> 2, switches |-> <<>>, parsing |-> TRUE]

(* What argv_ keeps of a switch: an empty value loses its separator.       *)
CombinedSwitch(arg) ==
    IF SwitchValue(arg) = <<>> THEN SwitchString(arg)
    ELSE SwitchString(arg) \o <<"=">> \o SwitchValue(arg)

(* switches_ with a value for a name: a later one replaces an earlier one. *)
SetSwitch(switches, name, value) ==
    [key \in DOMAIN switches \cup {name} |-> IF key = name THEN value ELSE switches[key]]

(* Switches stay in front of the arguments.                                *)
AppendSwitch(line, arg) ==
    [line EXCEPT !.argv = InsertAt(line.argv, line.begin, CombinedSwitch(arg)),
                 !.begin = line.begin + 1,
                 !.switches = SetSwitch(line.switches, SwitchKey(arg), SwitchValue(arg))]

AppendArg(line, arg) == [line EXCEPT !.argv = Append(line.argv, arg)]

(* Mutant of AppendArgument: the terminator is not remembered.             *)
AppendArgumentForgets(line, text) ==
    LET arg == TrimString(text)
    IN  IF arg # kSwitchTerminator /\ IsSwitch(arg) THEN AppendSwitch(line, arg)
        ELSE AppendArg(line, arg)

(* One turn of AppendSwitchesAndArguments.                                 *)
AppendArgument(line, text) ==
    LET arg == TrimString(text)
        parsing == line.parsing /\ arg # kSwitchTerminator
        read == [line EXCEPT !.parsing = parsing]
    IN  IF parsing /\ IsSwitch(arg) THEN AppendSwitch(read, arg) ELSE AppendArg(read, arg)

(* The first element, the program name, is skipped.  argv_ and             *)
(* begin_args_ are set anew and switches_ is kept; a line of this model is *)
(* one that holds no switch yet.  The program initialises its line twice   *)
(* only in a plugin, the first time with no words (plugin.cc:38 and 52).   *)
InitFromArgv(argv) == FoldLeft(AppendArgument, NoProgram, Tail(argv))

ParseFromString(text) ==
    IF TrimString(text) = <<>> THEN NoProgram ELSE InitFromArgv(SplitString(text, " "))

GetArgs(line) ==
    LET args == From(line.argv, line.begin)
        first == FirstOf(args, {kSwitchTerminator})
    IN  IF first > Len(args) THEN args ELSE RemoveAt(args, first)

GetSwitchValue(line, key) ==
    IF key \in DOMAIN line.switches THEN line.switches[key] ELSE <<>>

HasSwitch(line, key) == key \in DOMAIN line.switches

(* A name without a prefix gets the first one in argv_.                    *)
AppendSwitchNative(line, name, value) ==
    LET prefix == IF IsSwitch(name) THEN <<>> ELSE kSwitchTerminator
        tail == IF value = <<>> THEN <<>> ELSE <<"=">> \o value
        key == From(name, GetSwitchPrefixLength(name) + 1)
    IN  [line EXCEPT !.argv = InsertAt(line.argv, line.begin, prefix \o name \o tail),
                     !.begin = line.begin + 1,
                     !.switches = SetSwitch(line.switches, key, value)]

CopySwitchesFrom(line, source, names) ==
    FoldLeft(LAMBDA to, name : IF HasSwitch(source, name)
                               THEN AppendSwitchNative(to, name, GetSwitchValue(source, name))
                               ELSE to,
             line, names)

(* Another pass over the elements, the first apart.                        *)
AppendArguments(line, other) ==
    FoldLeft(AppendArgument, [line EXCEPT !.parsing = TRUE], Tail(other.argv))

(* The words of the wrapper come before the program name.                  *)
PrependWrapper(line, wrapper) ==
    IF wrapper = <<>> THEN line
    ELSE LET words == SplitString(wrapper, " ")
         IN  [line EXCEPT !.argv = words \o @, !.begin = @ + Len(words)]

GetCommandLineString(line) ==
    LET args == Tail(line.argv)
        stop == FirstOf(args, {kSwitchTerminator})
        texts == [i \in 1..Len(args) |-> IF i < stop /\ IsSwitch(args[i])
                                         THEN CombinedSwitch(args[i]) ELSE args[i]]
    IN  FoldLeft(LAMBDA text, arg : text \o <<" ">> \o arg, line.argv[1], texts)

(* The environment of the program is its arguments; of the plug-in, the    *)
(* text of the variable TR_DEBUG behind its name, <<>> if not set.         *)
kPluginType == <<"a">>
ApplicationEnvironment(argv) == InitFromArgv(argv)
PluginEnvironment(value) ==
    ParseFromString(IF value = <<>> THEN kPluginType ELSE kPluginType \o <<" ">> \o value)

(* The log goes to the file if the switch says so.  Switch and value are   *)
(* one letter here.                                                        *)
kEnableLogging == <<"a">>
kFile == <<"a">>
DetermineLogMode(line) ==
    IF GetSwitchValue(line, kEnableLogging) = kFile THEN "LOG_ONLY_TO_FILE" ELSE "default"
=============================================================================
