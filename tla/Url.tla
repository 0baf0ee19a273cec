-------------------------------- MODULE Url --------------------------------
(***************************************************************************)
(* The request parser of a worker: googleurl/url_parse.cc.  worker_t::     *)
(* OnTask splits an item name, "<symbol>?<key>=<value>&...#<analytic>"      *)
(* behind "null://localhost/", with ParseStandardURL and ExtractFileName,  *)
(* and an analytic reads its parameters with a loop of                     *)
(* ExtractQueryKeyValue.                                                   *)
(*                                                                         *)
(* A text is a sequence of characters and a component a range of it:       *)
(* offset `begin` from 0 and `len`, which is -1 when it is absent.  The     *)
(* scanning loops are the first or the last offset at which a character    *)
(* is found.                                                               *)
(***************************************************************************)
EXTENDS Integers, Sequences, FiniteSetsExt

Absent == [begin |-> 0, len |-> -1]
MakeRange(b, e) == [begin |-> b, len |-> e - b]
End(c) == c.begin + c.len
IsNonempty(c) == c.len > 0

Slash == {"/", "\\"}
Blank == {" "}                          \* ch <= ' '
IsAuthorityTerminator == Slash \cup {"?", "#"}

(* Offsets in [from, to) at which s has a character of C, and the first    *)
(* and last of them.                                                       *)
Places(s, C, from, to) == {i \in from..to - 1 : s[i + 1] \in C}
FirstAt(s, C, from, to) == Min(Places(s, C, from, to) \cup {to})
LastAt(s, C, from, to) == Max(Places(s, C, from, to) \cup {-1})

(* The offsets TrimURL leaves.                                             *)
TrimURL(s) ==
    LET kept == {i \in 0..Len(s) - 1 : s[i + 1] \notin Blank}
    IN  IF kept = {} THEN MakeRange(Len(s), Len(s)) ELSE MakeRange(Min(kept), Max(kept) + 1)

(* The scheme ends at the first colon, wherever that is.                   *)
ExtractScheme(s, begin, end) ==
    LET colon == FirstAt(s, {":"}, begin, end)
    IN  IF colon = end THEN Absent ELSE MakeRange(begin, colon)

-----------------------------------------------------------------------------
ParseUserInfo(s, user) ==
    LET colon == FirstAt(s, {":"}, user.begin, End(user)) IN
    IF colon < End(user)
    THEN [username |-> MakeRange(user.begin, colon), password |-> MakeRange(colon + 1, End(user))]
    ELSE [username |-> user, password |-> Absent]

(* A colon inside the brackets of an IPv6 literal starts no port; with no  *)
(* closing bracket there is none.                                          *)
ParseServerInfo(s, server) ==
    LET b == server.begin
        e == End(server)
        close == LastAt(s, {"]"}, b, e)
        terminator == IF close >= 0 THEN close ELSE IF s[b + 1] = "[" THEN e ELSE -1
        colon == LastAt(s, {":"}, b, e)
    IN  IF server.len = 0 THEN [host |-> Absent, port |-> Absent]
        ELSE IF colon <= terminator THEN [host |-> server, port |-> Absent]
        ELSE [host |-> IF colon = b THEN Absent ELSE MakeRange(b, colon),
              port |-> MakeRange(colon + 1, e)]

(* The last @ separates user and server.  Of an empty authority nothing is *)
(* present.                                                                *)
ParseAuthority(s, auth) ==
    LET at == LastAt(s, {"@"}, auth.begin, End(auth))
        user == IF at < 0 THEN [username |-> Absent, password |-> Absent]
                ELSE ParseUserInfo(s, MakeRange(auth.begin, at))
        server == ParseServerInfo(s, IF at < 0 THEN auth ELSE MakeRange(at + 1, End(auth)))
    IN  [username |-> user.username, password |-> user.password,
         host |-> server.host, port |-> server.port]

(* Mutant of ParsePath: the query runs to the end of the text.             *)
ParsePathQueryToEnd(s, path) ==
    LET e == End(path)
        hash == FirstAt(s, {"#"}, path.begin, e)
        question == FirstAt(s, {"?"}, path.begin, hash)
    IN  IF path.len = -1 THEN [path |-> Absent, query |-> Absent, ref |-> Absent]
        ELSE [path |-> IF question = path.begin THEN Absent ELSE MakeRange(path.begin, question),
              query |-> IF question < hash THEN MakeRange(question + 1, e) ELSE Absent,
              ref |-> IF hash < e THEN MakeRange(hash + 1, e) ELSE Absent]

(* The first ? before the first # starts the query.                        *)
ParsePath(s, path) ==
    LET e == End(path)
        hash == FirstAt(s, {"#"}, path.begin, e)
        question == FirstAt(s, {"?"}, path.begin, hash)
    IN  IF path.len = -1 THEN [path |-> Absent, query |-> Absent, ref |-> Absent]
        ELSE [path |-> IF question = path.begin THEN Absent ELSE MakeRange(path.begin, question),
              query |-> IF question < hash THEN MakeRange(question + 1, hash) ELSE Absent,
              ref |-> IF hash < e THEN MakeRange(hash + 1, e) ELSE Absent]

Components == {"scheme", "username", "password", "host", "port", "path", "query", "ref"}
NoComponents == [c \in Components |-> Absent]

(* Any number of slashes, even none, introduces the authority.             *)
ParseAfterScheme(s, end, after) ==
    LET auth == FirstAt(s, {s[i] : i \in 1..Len(s)} \ Slash, after, end)
        stop == FirstAt(s, IsAuthorityTerminator, auth, end)
        a == ParseAuthority(s, MakeRange(auth, stop))
        p == ParsePath(s, IF stop = end THEN Absent ELSE MakeRange(stop, end))
    IN  [NoComponents EXCEPT !.username = a.username, !.password = a.password,
                             !.host = a.host, !.port = a.port,
                             !.path = p.path, !.query = p.query, !.ref = p.ref]

ParseStandardURL(s) ==
    LET t == TrimURL(s)
        scheme == ExtractScheme(s, t.begin, End(t))
        after == IF scheme.len = -1 THEN t.begin ELSE End(scheme) + 1
    IN  [ParseAfterScheme(s, End(t), after) EXCEPT !.scheme = scheme]

(* A scheme and a path, nothing else.                                      *)
ParsePathURL(s) ==
    LET t == TrimURL(s)
        scheme == ExtractScheme(s, t.begin, End(t))
        begin == IF scheme.len = -1 THEN t.begin ELSE End(scheme) + 1
    IN  [NoComponents EXCEPT !.scheme = scheme,
                             !.path = IF begin >= End(t) THEN Absent ELSE MakeRange(begin, End(t))]

(* ... and the query of a mailto address.                                  *)
ParseMailtoURL(s) ==
    LET parsed == ParsePathURL(s)
        p == parsed.path
        question == FirstAt(s, {"?"}, p.begin, End(p))
    IN  IF p.len = -1 \/ question = End(p) THEN parsed
        ELSE [parsed EXCEPT !.query = MakeRange(question + 1, End(p)),
                            !.path = IF question = p.begin THEN Absent ELSE MakeRange(p.begin, question)]

-----------------------------------------------------------------------------
PortDigits == <<"0", "1", "2", "3", "4", "5", "6", "7", "8", "9">>
IsDigit(ch) == \E d \in 0..9 : ch = PortDigits[d + 1]
DigitValue(ch) == CHOOSE d \in 0..9 : ch = PortDigits[d + 1]

PORT_UNSPECIFIED == -1
PORT_INVALID == -2
kMaxDigits == 5

Digits(s) == [i \in 1..Len(s) |-> DigitValue(s[i])]

(* atoi of at most kMaxDigits digits.                                      *)
Decimal(ds) ==
    LET value[n \in 0..Len(ds)] == IF n = 0 THEN 0 ELSE 10 * value[n - 1] + ds[n]
    IN  value[Len(ds)]

ParsePort(s, c) ==
    LET e == End(c)
        begin == FirstAt(s, {s[i] : i \in 1..Len(s)} \ {"0"}, c.begin, e)
        text == SubSeq(s, begin + 1, e)
    IN  IF c.len <= 0 THEN PORT_UNSPECIFIED
        ELSE IF text = <<>> THEN 0
        ELSE IF Len(text) > kMaxDigits THEN PORT_INVALID
        ELSE IF \E i \in 1..Len(text) : ~IsDigit(text[i]) THEN PORT_INVALID
        ELSE IF Decimal(Digits(text)) > 65535 THEN PORT_INVALID
        ELSE Decimal(Digits(text))

(* Mutant of ExtractFileName: the slash is part of the name.               *)
ExtractFileNameSlash(s, path) ==
    LET slash == LastAt(s, Slash, path.begin, End(path))
    IN  IF path.len <= 0 THEN Absent
        ELSE MakeRange(IF slash < 0 THEN path.begin ELSE slash, End(path))

(* What follows the last slash of the path, up to its last semicolon; the  *)
(* first character of the path is not taken for one.                       *)
ExtractFileName(s, path) ==
    LET semicolon == LastAt(s, {";"}, path.begin + 1, End(path))
        end == IF semicolon < 0 THEN End(path) ELSE semicolon
        slash == LastAt(s, Slash, path.begin, end)
    IN  IF path.len <= 0 THEN Absent
        ELSE MakeRange(IF slash < 0 THEN path.begin ELSE slash + 1, end)

(* Mutant of ExtractQueryKeyValue: the separator after the value stays.    *)
ExtractQueryKeyValueStuck(s, query) ==
    LET e == End(query)
        keyEnd == FirstAt(s, {"&", "="}, query.begin, e)
        begin == IF keyEnd < e /\ s[keyEnd + 1] = "=" THEN keyEnd + 1 ELSE keyEnd
        valueEnd == FirstAt(s, {"&"}, begin, e)
    IN  [key |-> MakeRange(query.begin, keyEnd), value |-> MakeRange(begin, valueEnd),
         query |-> MakeRange(valueEnd, e)]

(* One turn of the loop over a query: the first pair and what is left.     *)
ExtractQueryKeyValue(s, query) ==
    LET e == End(query)
        keyEnd == FirstAt(s, {"&", "="}, query.begin, e)
        begin == IF keyEnd < e /\ s[keyEnd + 1] = "=" THEN keyEnd + 1 ELSE keyEnd
        valueEnd == FirstAt(s, {"&"}, begin, e)
    IN  [key |-> MakeRange(query.begin, keyEnd), value |-> MakeRange(begin, valueEnd),
         query |-> MakeRange(IF valueEnd < e THEN valueEnd + 1 ELSE valueEnd, e)]

-----------------------------------------------------------------------------
(* Parsed::CountCharactersBefore(REF, false): where a reference is, or     *)
(* would be appended.  The end of a component counts its delimiter up to   *)
(* the password and not from the host on.                                  *)
CountCharactersBeforeRef(p) ==
    LET After(c, d) == IF p[c].len = -1 THEN -1 ELSE End(p[c]) + d
        ends == <<After("scheme", 1), After("username", 1), After("password", 1),
                  After("host", 0), After("port", 0), After("path", 0), After("query", 0)>>
        last == Max({i \in 1..7 : ends[i] >= 0} \cup {0})
    IN  IF p.ref.len # -1 THEN p.ref.begin
        ELSE IF last = 0 THEN 0 ELSE ends[last]

(* Parsed::Length.                                                         *)
Length(p) == IF p.ref.len # -1 THEN End(p.ref) ELSE CountCharactersBeforeRef(p)
=============================================================================
