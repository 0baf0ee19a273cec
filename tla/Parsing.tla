------------------------------ MODULE Parsing ------------------------------
(***************************************************************************)
(* The parsers at work: each behaviour takes one input and does one job on *)
(* it.  Two jobs are loops of the program, a step of which is one turn:    *)
(* the loop of vta::bar_t::ParseRequest over the query of a request, and   *)
(* the one of AppendSwitchesAndArguments over the words of a command line. *)
(* The others only evaluate a function on the input.                       *)
(***************************************************************************)
EXTENDS Url, Strings, Codec

CONSTANTS Requests,      \* request texts
          CommandLines,  \* command lines
          Numbers,       \* texts read as a number
          Lo, Hi,        \* the range of the number type, a signed one
          Ports,         \* texts read as a port
          Messages,      \* names and replies, as bytes
          Files,         \* file names
          Patterns       \* vmodule patterns

(* A text is a sequence of characters, a name or a reply one of at most    *)
(* 255 bytes: its length travels in a byte.  The number type is signed and *)
(* not narrower than one decimal digit; the unsigned conversions accept a  *)
(* minus sign and wrap, and are not covered.                               *)
ASSUME ParsingAssumption ==
    /\ Lo \in Int /\ Hi \in Int /\ Lo <= -9 /\ 9 < Hi
    /\ Requests \cup CommandLines \cup Numbers \cup Ports \cup Files \cup Patterns
          \subseteq Seq(STRING)
    /\ Messages \subseteq {m \in Seq(0..Byte - 1) : Len(m) < Byte}

VARIABLES job,     \* what the input is read as
          text,    \* the input
          pattern, \* for a file name, the pattern it is matched with
          query,   \* request: the query that is left
          line,    \* command line: what is built of it so far
          rest     \* command line: words to come

vars == <<job, text, pattern, query, line, rest>>

Input(j, inputs, patterns) ==
    /\ job = j /\ text \in inputs /\ pattern \in patterns
    /\ query = ParseStandardURL(text).query
    /\ line = NoProgram /\ rest = <<>>

Init ==
    \/ Input("request", Requests, {<<>>})
    \/ Input("number", Numbers, {<<>>})
    \/ Input("port", Ports, {<<>>})
    \/ Input("file", Files, Patterns)
    \/ /\ job = "command" /\ text \in CommandLines /\ pattern = <<>>
       /\ query = Absent /\ line = NoProgram
       /\ rest = IF TrimString(text) = <<>> THEN <<>> ELSE Tail(SplitString(text, " "))
    \/ /\ job = "message" /\ text \in Messages /\ pattern = <<>>
       /\ query = Absent /\ line = NoProgram /\ rest = <<>>

NextParameter ==
    /\ job = "request" /\ IsNonempty(query)
    /\ query' = ExtractQueryKeyValue(text, query).query
    /\ UNCHANGED <<job, text, pattern, line, rest>>

NextWord ==
    /\ job = "command" /\ rest # <<>>
    /\ line' = AppendArgument(line, Head(rest)) /\ rest' = Tail(rest)
    /\ UNCHANGED <<job, text, pattern, query>>

Next == NextParameter \/ NextWord

Spec == Init /\ [][Next]_vars

-----------------------------------------------------------------------------
Covers(p, i) == {c \in Components : p[c].begin <= i /\ i < End(p[c])}
Delimiters == Slash \cup {":", "@", "?", "#"}

(* ParseStandardURL, and the two parsers for other schemes, give every     *)
(* character of a request, white space at its ends apart, to exactly one   *)
(* component, and leave out delimiters only: the worker that answers reads *)
(* no parameter twice and misses none.  The end of the last one found,     *)
(* Parsed::Length, is the end of the text: no delimiter is miscounted.     *)
NothingLost ==
    job = "request" =>
        LET t == TrimURL(text)
            standard == ParseStandardURL(text)
        IN  /\ \A p \in {standard, ParsePathURL(text), ParseMailtoURL(text)},
                  i \in t.begin..End(t) - 1 :
                  \/ Cardinality(Covers(p, i)) = 1
                  \/ Covers(p, i) = {} /\ text[i + 1] \in Delimiters
            /\ (\E c \in Components \ {"scheme"} : standard[c].len # -1)
                  => Length(standard) = End(t)

(* The symbol of a request, ExtractFileName of its path, ends at the last  *)
(* semicolon of the path that is not its first character, in whatever      *)
(* segment that is, or at the end of a path without one; and it begins     *)
(* behind the last slash of either kind before that end.  So what is cut   *)
(* off holds no other semicolon, but it may hold slashes: the symbol of    *)
(* "/a;b/c" is "a".  url_parse.h:302-306 defines the file name as all from *)
(* the last slash to the end of the path; the code (url_parse.cc:499-520), *)
(* and with it this property, agrees when the path has no such semicolon.  *)
FileNameBeforeParameter ==
    job = "request" =>
        LET path == ParseStandardURL(text).path
            name == ExtractFileName(text, path)
            Piece(begin, end) == SubSeq(text, begin + 1, end)
            before == Piece(path.begin, name.begin)
            file == Piece(name.begin, End(name))
            parameter == Piece(End(name), End(path))
        IN  IF path.len <= 0 THEN name = Absent
            ELSE /\ Piece(path.begin, End(path)) = before \o file \o parameter
                 /\ Range(file) \cap Slash = {}
                 /\ before = <<>> \/ Last(before) \in Slash
                 /\ IF parameter = <<>> THEN ";" \notin Range(Tail(before \o file))
                    ELSE Head(parameter) = ";" /\ ";" \notin Range(Tail(parameter))

(* A turn of the parameter loop takes a key without & and =, an optional   *)
(* value without &, and at most one & more, and all that is left is the    *)
(* query of the next turn; so the loop ends and skips nothing.             *)
PairTaken ==
    LET turn == ExtractQueryKeyValue(text, query)
        Piece(c) == SubSeq(text, c.begin + 1, End(c))
    IN  /\ query'.len < query.len
        /\ Range(Piece(turn.key)) \cap {"&", "="} = {}
        /\ "&" \notin Range(Piece(turn.value))
        /\ \E eq \in {<<>>, <<"=">>}, amp \in {<<>>, <<"&">>} :
              /\ Piece(query) = Piece(turn.key) \o eq \o Piece(turn.value) \o amp \o Piece(query')
              /\ amp = <<>> => Piece(query') = <<>>

QueryConsumed == [][PairTaken]_query

AllDigits(s) == s # <<>> /\ \A i \in 1..Len(s) : CharToDigit(s[i], 10) # {}
Value(s) == Decimal([i \in 1..Len(s) |-> CHOOSE d \in CharToDigit(s[i], 10) : TRUE])

PortExact ==
    ParsePort(text, MakeRange(0, Len(text))) =
        IF text = <<>> THEN PORT_UNSPECIFIED
        ELSE IF AllDigits(text) /\ Value(text) <= 65535 THEN Value(text) ELSE PORT_INVALID

NumberExact ==
    LET n == StringToNumber(text, Lo, Hi, 10)
        signed == text # <<>> /\ text[1] \in {"-", "+"}
        digits == IF signed THEN Tail(text) ELSE text
        value == IF signed /\ text[1] = "-" THEN -Value(digits) ELSE Value(digits)
    IN  /\ n.value \in Lo..Hi
        /\ n.ok <=> (AllDigits(digits) /\ value \in Lo..Hi)
        /\ AllDigits(digits) => n.value = Max({Lo, Min({Hi, value})})
        /\ StringToNumber(NumberToString(n.value), Lo, Hi, 10) = [ok |-> TRUE, value |-> n.value]

(* ParsePort answers a number from 0 to 65535 for a text of digits of that *)
(* value, however many zeros lead it, and PORT_INVALID for any other.      *)
(* StringToInt, of a signed type, succeeds on the decimal numbers of its   *)
(* type alone and with their value, and it reads back what IntToString     *)
(* writes.  It clamps what is too large to the maximum and what is too     *)
(* small to the minimum, as string_number_conversions.cc:263 does; the     *)
(* comment in string_number_conversions.hh:47-48 says that an underflow,   *)
(* too, is answered with the maximum, which is not what the code does.     *)
NumbersExact == (job = "port" => PortExact) /\ (job = "number" => NumberExact)

(* What the event thread puts into a request is what a worker takes out of *)
(* it, and an abort stays one, whatever the memory of the message held;    *)
(* and the event thread takes out of a reply of up to 255 bytes what the   *)
(* worker put into it, never reading behind it.                            *)
MessagesArrive ==
    job = "message" =>
        \A handle \in {1, 2147483647}, token \in {1, 16909060}, garbage \in {0, 255},
           attrib \in BOOLEAN :
            LET request == [handle |-> handle, rwfVersion |-> 3585, token |-> token,
                            serviceId |-> 65535, attrib |-> attrib, itemName |-> text]
                reply == [handle |-> handle, token |-> token, rsslBuffer |-> text]
                task == TakeTask(EncodeRequest(request, garbage))
                answer == TakeReply(EncodeReply(reply, garbage))
            IN  /\ task.kind = "request" /\ \A f \in DOMAIN request : task[f] = request[f]
                /\ TakeTask(EncodeAbort(garbage)).kind = "abort"
                /\ answer.kind = "reply" /\ \A f \in DOMAIN reply : answer[f] = reply[f]

(* What a pattern means: * is any text, ? any character, a slash either    *)
(* slash.  So the first j characters of it stand for the first i of the    *)
(* text, for the i in means[j].                                            *)
IsMatch(s, p) ==
    LET means[j \in 0..Len(p)] ==
          IF j = 0 THEN {0}
          ELSE IF p[j] = "*" THEN {i \in 0..Len(s) : \E k \in means[j - 1] : k <= i}
          ELSE {i \in 1..Len(s) :
                  /\ i - 1 \in means[j - 1]
                  /\ p[j] = "?" \/ p[j] = s[i] \/ {p[j], s[i]} \subseteq PathSlash}
    IN  Len(s) \in means[Len(p)]

(* MatchVlogPattern, which skips runs of stars and tries only rests that   *)
(* are not empty, decides what the pattern means.  The first pattern of    *)
(* --vmodule that matches a file decides its level: what follows it in the *)
(* switch changes nothing.                                                 *)
PatternMeans ==
    job = "file" =>
        LET one == pattern \o <<"=", "1">>
            more == one \o <<",", "*", "=", "2">>
        IN  /\ MatchVlogPattern(text, pattern) <=> IsMatch(text, pattern)
            /\ GetVlogLevel(VlogInfo(one), 0, text) = 1
                  => GetVlogLevel(VlogInfo(more), 0, text) = 1

(* The elements of s are those of f, whose domain is a set of positions,   *)
(* in the order of the positions.                                          *)
InOrder(s, f) ==
    /\ Len(s) = Cardinality(DOMAIN f)
    /\ \A i \in DOMAIN f : s[Cardinality({k \in DOMAIN f : k <= i})] = f[i]

(* At any point of reading a command line, of the words read so far the    *)
(* switches before the terminator come first, in order, each name with its *)
(* last value, and the arguments are the other words in order, without     *)
(* the first terminator; the log destination follows.  A finished line is  *)
(* what ParseFromString makes of the text.                                 *)
LineKept ==
    job = "command" /\ TrimString(text) # <<>> =>
        LET words == Tail(SplitString(text, " "))
            read == Len(words) - Len(rest)
            stop == FirstOf(words, {kSwitchTerminator})
            switches == {i \in 1..read : i < stop /\ IsSwitch(words[i])}
            others == (1..read) \ (switches \cup {stop})
            Of(key) == {i \in switches : SwitchKey(words[i]) = key}
        IN  /\ InOrder(SubSeq(line.argv, 2, line.begin - 1),
                       [i \in switches |-> CombinedSwitch(words[i])])
            /\ InOrder(GetArgs(line), [i \in others |-> words[i]])
            /\ DOMAIN line.switches = {SwitchKey(words[i]) : i \in switches}
            /\ \A key \in DOMAIN line.switches :
                  line.switches[key] = SwitchValue(words[Max(Of(key))])
            /\ DetermineLogMode(line) = "LOG_ONLY_TO_FILE"
                 <=> (/\ Of(kEnableLogging) # {}
                      /\ SwitchValue(words[Max(Of(kEnableLogging))]) = kFile)
            /\ rest = <<>> => line = ParseFromString(text)

(* What is read back from a finished line, in text or in elements, is the  *)
(* line, and its switches can be copied and its program wrapped, unless a  *)
(* switch is called "", as in "--=v", or its name begins with a dash.  Of  *)
(* a line of empty words only, the text has nothing.                       *)
Reusable(read) ==
    (\A key \in DOMAIN read.switches : key # <<>> /\ key[1] # "-") =>
        LET copy == CopySwitchesFrom(NoProgram, read, SetToSeq(DOMAIN read.switches))
            wrapped == PrependWrapper(read, <<"a", " ", "-", "a">>)
            written == GetCommandLineString(read)
        IN  /\ TrimString(written) # <<>> => ParseFromString(written) = read
            /\ AppendArguments(NoProgram, read) = read
            /\ copy.switches = read.switches /\ GetArgs(copy) = <<>>
            /\ GetArgs(wrapped) = GetArgs(read) /\ wrapped.switches = read.switches

(* The plug-in makes of a text what the program makes of the words.        *)
(* Splitting along white space finds the pieces between two spaces that    *)
(* are not empty, and splitting with a delimiter of one letter is          *)
(* splitting at the letter.                                                *)
ReadAlike ==
    LET pieces == SplitString(text, " ")
        value == From(text, 3)
    IN  /\ value # <<>> /\ text = kPluginType \o <<" ">> \o value
              => PluginEnvironment(value) = ApplicationEnvironment(<< <<>> >> \o Tail(pieces))
        /\ InOrder(SplitStringAlongWhitespace(text),
                   [i \in {k \in 1..Len(pieces) : pieces[k] # <<>>} |-> pieces[i]])
        /\ SplitStringUsingSubstr(text, <<"=">>) = SplitString(text, "=")

(* No switch and no argument is lost, doubled or moved while a line is     *)
(* read, and what is read can be written, copied and read again.           *)
LineSplit ==
    /\ LineKept
    /\ job = "command" /\ rest = <<>> /\ TrimString(text) # <<>> => Reusable(line) /\ ReadAlike
=============================================================================
