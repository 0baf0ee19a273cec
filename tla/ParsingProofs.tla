--------------------------- MODULE ParsingProofs ---------------------------
(***************************************************************************)
(* The parsers, for every text: what Parsing states of the URL splitters,  *)
(* the SBE codecs, the number conversions, the vmodule patterns and the    *)
(* command line, proved for texts of any length over any alphabet, for     *)
(* every message that fits its fields, and for an integer type of any      *)
(* width.                                                                  *)
(*                                                                         *)
(* Little moves in Parsing: a query loses a parameter in each turn and     *)
(* stays a piece of its text, a command line gains a word in each turn     *)
(* (LineRead).  Every other theorem is a fact about operators, and the     *)
(* work is in the loops those operators stand for: those of Strings are    *)
(* followed in Loops, those of Url and Codec and the numbers here.         *)
(*                                                                         *)
(*   requests   every splitter cuts its text at offsets a scan found: the  *)
(*              pieces and the separators between them tile the text, so   *)
(*              nothing is lost;                                           *)
(*   queries    each turn of the key and value loop leaves a shorter rest, *)
(*              which is why it ends, and at most one & is skipped;        *)
(*   file names the name starts behind the last slash of the path, or is   *)
(*              empty where the path is;                                   *)
(*   messages   a Put changes the bytes of its field and no others         *)
(*              (SameBut), the bytes it wrote add up to the number         *)
(*              (Quotients, Fits), a Get reads them back (Holds), and      *)
(*              the fields of a message do not overlap;                    *)
(*   numbers    the loop over the digits keeps its value right as long as  *)
(*              it has not overflown (Right, against the sums Sums);       *)
(*              what NumberToString writes (Spellings) sums to what it     *)
(*              was given;                                                 *)
(*   patterns   a match is what the pattern means, which Loops shows for   *)
(*              MatchVlogPattern, and the first pattern that matches       *)
(*              decides;                                                   *)
(*   lines      argv_ is the program, the switches and the arguments of    *)
(*              the words read so far (Shows), each in the order of their  *)
(*              words (InOrder); the line is what its own words, its       *)
(*              writing and its switches make again (LineBack), and every  *)
(*              splitter finds the same words in a text (ReadAlikeOf).     *)
(***************************************************************************)
EXTENDS Parsing, Loops, SequenceTheorems, TLAPS

-----------------------------------------------------------------------------
(* The scanning loops.                                                     *)

(* The scan for a character of C stops at the first one, or at the end.    *)
LEMMA FirstAtIs ==
    ASSUME NEW s, NEW C, NEW from \in Int, NEW to \in Int, from <= to
    PROVE  /\ FirstAt(s, C, from, to) \in from..to
           /\ \A i \in from..to : i < FirstAt(s, C, from, to) => s[i + 1] \notin C
           /\ FirstAt(s, C, from, to) < to => s[FirstAt(s, C, from, to) + 1] \in C
  <1> DEFINE P == Places(s, C, from, to)
             S == P \cup {to}
  <1>1. \A i \in Int : i \in P <=> from <= i /\ i < to /\ s[i + 1] \in C
    BY DEF Places
  <1>2. S \subseteq from..to /\ S # {} /\ P \subseteq Int
    BY DEF Places
  <1> HIDE DEF P
  <1>3. Min(S) \in S /\ \A i \in S : Min(S) <= i
    <2> HIDE DEF S
    <2> QED BY <1>2, FirstOfRange
  <1>4. FirstAt(s, C, from, to) = Min(S)
    BY DEF FirstAt, P
  <1> DEFINE m == Min(S)
  <1>5. m \in from..to /\ (m < to => m \in P)
    <2>1. m \in S BY <1>3
    <2> HIDE DEF m
    <2> QED BY <1>2, <2>1
  <1>6. ASSUME NEW i \in from..to, i < m PROVE s[i + 1] \notin C
    <2>1. i \notin S BY <1>3, <1>5, <1>6
    <2> QED BY <1>1, <1>5, <1>6, <2>1
  <1> QED BY <1>1, <1>4, <1>5, <1>6

(* The scan from the right stops at the last one, or behind the text.      *)
LEMMA LastAtIs ==
    ASSUME NEW s, NEW C, NEW from \in Nat, NEW to \in Int
    PROVE  /\ LastAt(s, C, from, to) \in Int
           /\ \/ LastAt(s, C, from, to) = -1
              \/ /\ from <= LastAt(s, C, from, to) /\ LastAt(s, C, from, to) < to
                 /\ s[LastAt(s, C, from, to) + 1] \in C
           /\ \A i \in from..to - 1 : LastAt(s, C, from, to) < i => s[i + 1] \notin C
  <1> DEFINE P == Places(s, C, from, to)
             S == P \cup {-1}
             top == IF to > -1 THEN to ELSE -1
  <1>1. \A i \in Int : i \in P <=> from <= i /\ i < to /\ s[i + 1] \in C
    BY DEF Places
  <1>2. S \subseteq -1..top /\ S # {} /\ P \subseteq Int /\ top \in Int /\ -1 \in Int
    BY DEF Places
  <1> HIDE DEF P, top
  <1>3. Max(S) \in S /\ \A i \in S : i <= Max(S)
    <2> HIDE DEF S
    <2> QED BY <1>2, LastOfRange
  <1>4. LastAt(s, C, from, to) = Max(S)
    BY DEF LastAt, P
  <1> DEFINE m == Max(S)
  <1>5. m \in Int /\ (m = -1 \/ m \in P)
    BY <1>2, <1>3
  <1>6. ASSUME NEW i \in from..to - 1, m < i PROVE s[i + 1] \notin C
    <2>1. i \notin S BY <1>3, <1>5, <1>6
    <2> QED BY <1>1, <1>6, <2>1
  <1> QED BY <1>1, <1>4, <1>5, <1>6

-----------------------------------------------------------------------------
(* The components of a request tile it.                                    *)

Inside(i, c) == c.begin <= i /\ i < End(c)

(* A component is absent, or a range between b and e.                      *)
IsPart(c, b, e) ==
    \/ c = Absent
    \/ c.begin \in b..e /\ c.len \in Nat /\ End(c) <= e

(* The components C of p tile the text s from b to e: no offset is in two  *)
(* of them, and one that is in none has a delimiter.                       *)
Tiles(p, C, s, b, e) ==
    /\ \A c \in C : IsPart(p[c], b, e)
    /\ \A c, d \in C : \A i \in Int : Inside(i, p[c]) /\ Inside(i, p[d]) => c = d
    /\ \A i \in b..e - 1 : (\E c \in C : Inside(i, p[c])) \/ s[i + 1] \in Delimiters

(* Nothing is inside an absent component, nor outside the range of a       *)
(* present one.                                                            *)
LEMMA InsidePart ==
    ASSUME NEW b \in Nat, NEW e \in Nat, NEW c, IsPart(c, b, e),
           NEW i \in Int, Inside(i, c)
    PROVE  b <= i /\ i < e
  BY DEF IsPart, Inside, End, Absent

(* Tiles side by side are tiles.                                           *)
LEMMA TilesJoin ==
    ASSUME NEW b \in Nat, NEW m \in Nat, NEW e \in Nat, b <= m, m <= e,
           NEW p, NEW C, NEW D, NEW s, Tiles(p, C, s, b, m), Tiles(p, D, s, m, e)
    PROVE  Tiles(p, C \cup D, s, b, e)
  <1>1. ASSUME NEW c \in C \cup D PROVE IsPart(p[c], b, e)
    <2>1. CASE c \in C
      <3>1. IsPart(p[c], b, m) BY <2>1 DEF Tiles
      <3> QED BY <3>1 DEF IsPart, End, Absent
    <2>2. CASE c \in D
      <3>1. IsPart(p[c], m, e) BY <2>2 DEF Tiles
      <3> QED BY <3>1 DEF IsPart, End, Absent
    <2> QED BY <2>1, <2>2
  <1>2. ASSUME NEW c \in C \cup D, NEW d \in C \cup D, NEW i \in Int,
               Inside(i, p[c]), Inside(i, p[d])
        PROVE  c = d
    <2>1. \A x \in C : IsPart(p[x], b, m) BY DEF Tiles
    <2>2. \A x \in D : IsPart(p[x], m, e) BY DEF Tiles
    <2>3. (c \in C => i < m) /\ (d \in C => i < m)
      BY <1>2, <2>1, InsidePart
    <2>4. (c \in D => m <= i) /\ (d \in D => m <= i)
      BY <1>2, <2>2, InsidePart
    <2>5. (c \in C /\ d \in C) \/ (c \in D /\ d \in D) BY <2>3, <2>4
    <2> QED BY <1>2, <2>5 DEF Tiles
  <1>3. ASSUME NEW i \in b..e - 1
        PROVE  (\E c \in C \cup D : Inside(i, p[c])) \/ s[i + 1] \in Delimiters
    <2>1. CASE i < m
      <3>1. i \in b..m - 1 BY <2>1
      <3> QED BY <3>1 DEF Tiles
    <2>2. CASE ~(i < m)
      <3>1. i \in m..e - 1 BY <2>2
      <3> QED BY <3>1 DEF Tiles
    <2> QED BY <2>1, <2>2
  <1> QED BY <1>1, <1>2, <1>3 DEF Tiles

(* Delimiters in a row need no tile.                                       *)
LEMMA TilesRun ==
    ASSUME NEW b \in Nat, NEW e \in Nat, NEW p, NEW s,
           \A i \in b..e - 1 : s[i + 1] \in Delimiters
    PROVE  Tiles(p, {}, s, b, e)
  BY DEF Tiles

(* One component, with or without a delimiter before it, or an absent one. *)
LEMMA TilesOne ==
    ASSUME NEW b \in Nat, NEW e \in Nat, b <= e, NEW p, NEW s, NEW c,
           \/ p[c] = MakeRange(b, e)
           \/ (b < e /\ p[c] = MakeRange(b + 1, e) /\ s[b + 1] \in Delimiters)
           \/ (b = e /\ p[c] = Absent)
    PROVE  Tiles(p, {c}, s, b, e)
  <1>1. IsPart(p[c], b, e)
    <2>1. CASE p[c] = MakeRange(b, e)
      BY <2>1 DEF IsPart, MakeRange, End
    <2>2. CASE b < e /\ p[c] = MakeRange(b + 1, e)
      BY <2>2 DEF IsPart, MakeRange, End
    <2>3. CASE p[c] = Absent
      BY <2>3 DEF IsPart
    <2> QED BY <2>1, <2>2, <2>3
  <1>2. ASSUME NEW i \in b..e - 1 PROVE Inside(i, p[c]) \/ s[i + 1] \in Delimiters
    <2>1. CASE p[c] = MakeRange(b, e)
      BY <2>1 DEF Inside, MakeRange, End
    <2>2. CASE b < e /\ p[c] = MakeRange(b + 1, e) /\ s[b + 1] \in Delimiters
      BY <2>2 DEF Inside, MakeRange, End
    <2> QED BY <2>1, <2>2
  <1> QED BY <1>1, <1>2 DEF Tiles

(* Tiles depend on the components they are made of, nothing else.          *)
LEMMA TilesSame ==
    ASSUME NEW b, NEW e, NEW s, NEW C, NEW p, NEW q,
           \A c \in C : p[c] = q[c], Tiles(q, C, s, b, e)
    PROVE  Tiles(p, C, s, b, e)
  BY DEF Tiles

(* The last component of a path that there is ends where the path does.    *)
EndsPath(r, b, e) ==
    /\ r.ref.len # -1 => End(r.ref) = e
    /\ r.ref.len = -1 /\ r.query.len # -1 => End(r.query) = e
    /\ r.ref.len = -1 /\ r.query.len = -1 /\ r.path.len # -1 => End(r.path) = e
    /\ r.ref.len = -1 /\ r.query.len = -1 /\ r.path.len = -1 => b = e

(* The path, the query and the reference: what ParsePath makes of the      *)
(* text from b to e.                                                       *)
LEMMA PathTiles ==
    ASSUME NEW s, NEW b \in Nat, NEW e \in Nat, b <= e,
           NEW r, r = ParsePath(s, IF b = e THEN Absent ELSE MakeRange(b, e))
    PROVE  Tiles(r, {"path", "query", "ref"}, s, b, e) /\ EndsPath(r, b, e)
  <1> DEFINE path == IF b = e THEN Absent ELSE MakeRange(b, e)
             hash == FirstAt(s, {"#"}, b, e)
             question == FirstAt(s, {"?"}, b, hash)
  <1>1. CASE b = e
    <2>1. path = Absent BY <1>1
    <2>2. r = [path |-> Absent, query |-> Absent, ref |-> Absent]
      BY <2>1 DEF ParsePath, Absent
    <2>3. r.path = Absent /\ r.query = Absent /\ r.ref = Absent BY <2>2
    <2>4. Tiles(r, {"path"}, s, b, e) /\ Tiles(r, {"query"}, s, b, e) /\ Tiles(r, {"ref"}, s, b, e)
      <3>1. Tiles(r, {"path"}, s, b, e) BY <1>1, <2>3, TilesOne
      <3>2. Tiles(r, {"query"}, s, b, e) BY <1>1, <2>3, TilesOne
      <3>3. Tiles(r, {"ref"}, s, b, e) BY <1>1, <2>3, TilesOne
      <3> QED BY <3>1, <3>2, <3>3
    <2>5. Tiles(r, ({"path"} \cup {"query"}) \cup {"ref"}, s, b, e)
      <3>1. Tiles(r, {"path"} \cup {"query"}, s, b, e) BY <1>1, <2>4, TilesJoin
      <3> QED BY <1>1, <2>4, <3>1, TilesJoin
    <2>6. ({"path"} \cup {"query"}) \cup {"ref"} = {"path", "query", "ref"} OBVIOUS
    <2>7. r.path.len = -1 /\ r.query.len = -1 /\ r.ref.len = -1 BY <2>3 DEF Absent
    <2>8. Tiles(r, {"path", "query", "ref"}, s, b, e) BY <2>5, <2>6
    <2> QED BY <1>1, <2>7, <2>8 DEF EndsPath
  <1>2. CASE b # e
    <2>1. path.begin = b /\ path.len # -1 /\ End(path) = e /\ r = ParsePath(s, path)
      BY <1>2 DEF MakeRange, End
    <2> HIDE DEF path
    <2>2. r = [path |-> IF question = b THEN Absent ELSE MakeRange(b, question),
               query |-> IF question < hash THEN MakeRange(question + 1, hash) ELSE Absent,
               ref |-> IF hash < e THEN MakeRange(hash + 1, e) ELSE Absent]
      BY <2>1 DEF ParsePath
    <2>3. hash \in b..e /\ (hash < e => s[hash + 1] \in {"#"})
      BY FirstAtIs
    <2> HIDE DEF hash
    <2>4. question \in b..hash /\ (question < hash => s[question + 1] \in {"?"})
      <3>1. hash \in Int /\ b <= hash BY <2>3
      <3> QED BY <3>1, FirstAtIs
    <2> HIDE DEF question
    <2>5. /\ r.path = IF question = b THEN Absent ELSE MakeRange(b, question)
          /\ r.query = IF question < hash THEN MakeRange(question + 1, hash) ELSE Absent
          /\ r.ref = IF hash < e THEN MakeRange(hash + 1, e) ELSE Absent
      BY <2>2
    <2>6. question \in Nat /\ hash \in Nat /\ b <= question /\ question <= hash /\ hash <= e
      BY <2>3, <2>4
    <2>7. {"#", "?"} \subseteq Delimiters BY DEF Delimiters
    <2>8. Tiles(r, {"path"}, s, b, question)
      BY <2>5, <2>6, TilesOne
    <2>9. Tiles(r, {"query"}, s, question, hash)
      <3>1. question < hash => s[question + 1] \in Delimiters BY <2>4, <2>7
      <3> QED BY <2>5, <2>6, <3>1, TilesOne
    <2>10. Tiles(r, {"ref"}, s, hash, e)
      <3>1. hash < e => s[hash + 1] \in Delimiters BY <2>3, <2>7
      <3> QED BY <2>5, <2>6, <3>1, TilesOne
    <2>11. Tiles(r, ({"path"} \cup {"query"}) \cup {"ref"}, s, b, e)
      <3>1. Tiles(r, {"path"} \cup {"query"}, s, b, hash) BY <2>6, <2>8, <2>9, TilesJoin
      <3>2. b <= hash BY <2>6
      <3> QED BY <2>6, <2>10, <3>1, <3>2, TilesJoin
    <2>12. ({"path"} \cup {"query"}) \cup {"ref"} = {"path", "query", "ref"} OBVIOUS
    <2>13. Tiles(r, {"path", "query", "ref"}, s, b, e) BY <2>11, <2>12
    <2>14. /\ r.ref.len # -1 => End(r.ref) = e
           /\ r.ref.len = -1 => hash = e
      BY <2>5, <2>6 DEF MakeRange, End, Absent
    <2>15. /\ r.query.len # -1 => End(r.query) = hash
           /\ r.query.len = -1 => question = hash
      BY <2>5, <2>6 DEF MakeRange, End, Absent
    <2>16. /\ r.path.len # -1 => End(r.path) = question
           /\ r.path.len = -1 => question = b
      BY <2>5, <2>6 DEF MakeRange, End, Absent
    <2> QED BY <2>13, <2>14, <2>15, <2>16 DEF EndsPath
  <1> QED BY <1>1, <1>2

(* The last component of a server that there is ends where it does.        *)
EndsServer(r, b, e) ==
    /\ r.port.len # -1 => End(r.port) = e
    /\ r.port.len = -1 /\ r.host.len # -1 => End(r.host) = e
    /\ r.port.len = -1 /\ r.host.len = -1 => b = e

(* The host and the port: what ParseServerInfo makes of the text from b to *)
(* e, wherever its colons and brackets are.                                *)
LEMMA ServerTiles ==
    ASSUME NEW s, NEW b \in Nat, NEW e \in Nat, b <= e,
           NEW server, server = MakeRange(b, e),
           NEW r, r = ParseServerInfo(s, server)
    PROVE  Tiles(r, {"host", "port"}, s, b, e) /\ EndsServer(r, b, e)
  <1> DEFINE close == LastAt(s, {"]"}, b, e)
             terminator == IF close >= 0 THEN close ELSE IF s[b + 1] = "[" THEN e ELSE -1
             colon == LastAt(s, {":"}, b, e)
  <1>1. server.begin = b /\ End(server) = e /\ server.len = e - b
    BY DEF MakeRange, End
  <1>2. r = IF b = e THEN [host |-> Absent, port |-> Absent]
            ELSE IF colon <= terminator THEN [host |-> server, port |-> Absent]
            ELSE [host |-> IF colon = b THEN Absent ELSE MakeRange(b, colon),
                  port |-> MakeRange(colon + 1, e)]
    BY <1>1 DEF ParseServerInfo
  <1>3. close \in Int /\ colon \in Int
    BY LastAtIs
  <1>4. colon = -1 \/ (b <= colon /\ colon < e /\ s[colon + 1] \in {":"})
    BY LastAtIs
  <1>5. terminator \in Int /\ terminator >= -1
    BY <1>3
  <1> HIDE DEF close, terminator, colon
  <1>6. {"host"} \cup {"port"} = {"host", "port"} OBVIOUS
  <1>7. CASE b = e
    <2>1. r.host = Absent /\ r.port = Absent BY <1>2, <1>7
    <2>2. Tiles(r, {"host"}, s, b, e) /\ Tiles(r, {"port"}, s, b, e)
      <3>1. Tiles(r, {"host"}, s, b, e) BY <1>7, <2>1, TilesOne
      <3>2. Tiles(r, {"port"}, s, b, e) BY <1>7, <2>1, TilesOne
      <3> QED BY <3>1, <3>2
    <2>3. Tiles(r, {"host"} \cup {"port"}, s, b, e) BY <1>7, <2>2, TilesJoin
    <2>4. EndsServer(r, b, e) BY <1>7, <2>1 DEF EndsServer, Absent
    <2> QED BY <1>6, <2>3, <2>4
  <1>8. CASE b # e /\ colon <= terminator
    <2>1. r.host = MakeRange(b, e) /\ r.port = Absent BY <1>2, <1>8
    <2>2. Tiles(r, {"host"}, s, b, e) /\ Tiles(r, {"port"}, s, e, e)
      <3>1. Tiles(r, {"host"}, s, b, e) BY <2>1, TilesOne
      <3>2. Tiles(r, {"port"}, s, e, e) BY <2>1, TilesOne
      <3> QED BY <3>1, <3>2
    <2>3. Tiles(r, {"host"} \cup {"port"}, s, b, e) BY <2>2, TilesJoin
    <2>4. EndsServer(r, b, e) BY <2>1 DEF EndsServer, Absent, MakeRange, End
    <2> QED BY <1>6, <2>3, <2>4
  <1>9. CASE b # e /\ ~(colon <= terminator)
    <2>1. b <= colon /\ colon < e /\ s[colon + 1] \in Delimiters /\ colon \in Nat
      <3>1. colon # -1 BY <1>3, <1>5, <1>9
      <3>2. {":"} \subseteq Delimiters BY DEF Delimiters
      <3> QED BY <1>3, <1>4, <3>1, <3>2
    <2>2. /\ r.host = IF colon = b THEN Absent ELSE MakeRange(b, colon)
          /\ r.port = MakeRange(colon + 1, e)
      BY <1>2, <1>9
    <2>3. Tiles(r, {"host"}, s, b, colon)
      BY <2>1, <2>2, TilesOne
    <2>4. Tiles(r, {"port"}, s, colon, e)
      BY <2>1, <2>2, TilesOne
    <2>5. Tiles(r, {"host"} \cup {"port"}, s, b, e)
      <3>1. colon <= e BY <2>1
      <3> QED BY <2>1, <2>3, <2>4, <3>1, TilesJoin
    <2>6. EndsServer(r, b, e) BY <2>1, <2>2 DEF EndsServer, MakeRange, End
    <2> QED BY <1>6, <2>5, <2>6
  <1> QED BY <1>7, <1>8, <1>9

(* The user name and the password: what ParseUserInfo makes of the text    *)
(* from b to e; the last one that there is ends where the text does.       *)
LEMMA UserTiles ==
    ASSUME NEW s, NEW b \in Nat, NEW e \in Nat, b <= e,
           NEW r, r = ParseUserInfo(s, MakeRange(b, e))
    PROVE  /\ Tiles(r, {"username", "password"}, s, b, e)
           /\ r.username.len # -1
           /\ r.password.len # -1 => End(r.password) = e
           /\ r.password.len = -1 => End(r.username) = e
  <1> DEFINE user == MakeRange(b, e)
             colon == FirstAt(s, {":"}, b, e)
  <1>1. user.begin = b /\ End(user) = e /\ r = ParseUserInfo(s, user)
    BY DEF MakeRange, End
  <1>2. user = MakeRange(b, e) OBVIOUS
  <1> HIDE DEF user
  <1>3. r = IF colon < e
            THEN [username |-> MakeRange(b, colon), password |-> MakeRange(colon + 1, e)]
            ELSE [username |-> user, password |-> Absent]
    BY <1>1 DEF ParseUserInfo
  <1>4. colon \in b..e /\ (colon < e => s[colon + 1] \in {":"})
    BY FirstAtIs
  <1> HIDE DEF colon
  <1>5. {"username"} \cup {"password"} = {"username", "password"} OBVIOUS
  <1>6. CASE colon < e
    <2>1. r.username = MakeRange(b, colon) /\ r.password = MakeRange(colon + 1, e)
      BY <1>3, <1>6
    <2>2. colon \in Nat /\ b <= colon /\ colon <= e /\ s[colon + 1] \in Delimiters
      BY <1>4, <1>6 DEF Delimiters
    <2>3. Tiles(r, {"username"}, s, b, colon) BY <2>1, <2>2, TilesOne
    <2>4. Tiles(r, {"password"}, s, colon, e) BY <1>6, <2>1, <2>2, TilesOne
    <2>5. Tiles(r, {"username"} \cup {"password"}, s, b, e)
      BY <2>2, <2>3, <2>4, TilesJoin
    <2>6. r.username.len # -1 /\ r.password.len # -1 /\ End(r.password) = e
      BY <1>6, <2>1, <2>2 DEF MakeRange, End
    <2> QED BY <1>5, <2>5, <2>6
  <1>7. CASE ~(colon < e)
    <2>1. r.username = MakeRange(b, e) /\ r.password = Absent BY <1>2, <1>3, <1>7
    <2>2. Tiles(r, {"username"}, s, b, e) /\ Tiles(r, {"password"}, s, e, e)
      <3>1. Tiles(r, {"username"}, s, b, e) BY <2>1, TilesOne
      <3>2. Tiles(r, {"password"}, s, e, e) BY <2>1, TilesOne
      <3> QED BY <3>1, <3>2
    <2>3. Tiles(r, {"username"} \cup {"password"}, s, b, e) BY <2>2, TilesJoin
    <2>4. r.username.len # -1 /\ r.password.len = -1 /\ End(r.username) = e
      BY <2>1 DEF MakeRange, End, Absent
    <2> QED BY <1>5, <2>3, <2>4
  <1> QED BY <1>6, <1>7

AuthorityParts == {"username", "password", "host", "port"}

(* The last component of an authority that there is ends where it does; a  *)
(* delimiter follows a user without a server.                              *)
EndsAuthority(r, b, e) ==
    /\ r.port.len # -1 => End(r.port) = e
    /\ r.port.len = -1 /\ r.host.len # -1 => End(r.host) = e
    /\ r.port.len = -1 /\ r.host.len = -1 =>
          /\ r.password.len # -1 => End(r.password) + 1 = e
          /\ r.password.len = -1 /\ r.username.len # -1 => End(r.username) + 1 = e
          /\ r.password.len = -1 /\ r.username.len = -1 => b = e

(* What ParseAuthority makes of the text from b to e.                      *)
LEMMA AuthorityTiles ==
    ASSUME NEW s, NEW b \in Nat, NEW e \in Nat, b <= e,
           NEW r, r = ParseAuthority(s, MakeRange(b, e))
    PROVE  Tiles(r, AuthorityParts, s, b, e) /\ EndsAuthority(r, b, e)
  <1> DEFINE auth == MakeRange(b, e)
             at == LastAt(s, {"@"}, b, e)
             user == IF at < 0 THEN [username |-> Absent, password |-> Absent]
                     ELSE ParseUserInfo(s, MakeRange(b, at))
             x == IF at < 0 THEN b ELSE at + 1
             m == IF at < 0 THEN b ELSE at
             server == ParseServerInfo(s, MakeRange(x, e))
  <1>1. auth.begin = b /\ End(auth) = e /\ r = ParseAuthority(s, auth) /\ auth = MakeRange(b, e)
    BY DEF MakeRange, End
  <1> HIDE DEF auth
  <1>2. r = [username |-> user.username, password |-> user.password,
             host |-> server.host, port |-> server.port]
    BY <1>1 DEF ParseAuthority
  <1>3. /\ at \in Int
        /\ at = -1 \/ (b <= at /\ at < e /\ s[at + 1] \in {"@"})
    BY LastAtIs
  <1> HIDE DEF at
  <1>4. m \in Nat /\ x \in Nat /\ b <= m /\ m <= x /\ x <= e
    BY <1>3
  <1>5. \A i \in m..x - 1 : s[i + 1] \in Delimiters
    <2> SUFFICES ASSUME NEW i \in m..x - 1 PROVE s[i + 1] \in Delimiters
      OBVIOUS
    <2>1. at >= 0 /\ i = at BY <1>3
    <2> QED BY <1>3, <2>1 DEF Delimiters
  <1>6. Tiles(server, {"host", "port"}, s, x, e) /\ EndsServer(server, x, e)
    <2> HIDE DEF x
    <2> QED BY <1>4, ServerTiles
  <1> HIDE DEF server
  <1>7. /\ Tiles(user, {"username", "password"}, s, b, m)
        /\ user.username.len = -1 => user.password.len = -1 /\ x = b
        /\ user.password.len # -1 => End(user.password) + 1 = x
        /\ user.password.len = -1 /\ user.username.len # -1 => End(user.username) + 1 = x
    <2>1. CASE at < 0
      <3>1. user = [username |-> Absent, password |-> Absent] /\ m = b /\ x = b BY <2>1
      <3> HIDE DEF user, m, x
      <3>2. user.username = Absent /\ user.password = Absent BY <3>1
      <3>3. Tiles(user, {"username"}, s, b, b) /\ Tiles(user, {"password"}, s, b, b)
        <4>1. Tiles(user, {"username"}, s, b, b) BY <3>2, TilesOne
        <4>2. Tiles(user, {"password"}, s, b, b) BY <3>2, TilesOne
        <4> QED BY <4>1, <4>2
      <3>4. Tiles(user, {"username"} \cup {"password"}, s, b, b) BY <3>3, TilesJoin
      <3>5. {"username"} \cup {"password"} = {"username", "password"} OBVIOUS
      <3>6. user.username.len = -1 /\ user.password.len = -1 BY <3>2 DEF Absent
      <3> QED BY <3>1, <3>4, <3>5, <3>6
    <2>2. CASE ~(at < 0)
      <3>1. user = ParseUserInfo(s, MakeRange(b, at)) /\ m = at /\ x = at + 1 BY <2>2
      <3>2. at \in Nat /\ b <= at BY <1>3, <2>2
      <3> HIDE DEF user, m, x
      <3>3. /\ Tiles(user, {"username", "password"}, s, b, at)
            /\ user.username.len # -1
            /\ user.password.len # -1 => End(user.password) = at
            /\ user.password.len = -1 => End(user.username) = at
        BY <3>1, <3>2, UserTiles
      <3> QED BY <3>1, <3>3
    <2> QED BY <2>1, <2>2
  <1> HIDE DEF user, m, x
  <1>8. /\ r.username = user.username /\ r.password = user.password
        /\ r.host = server.host /\ r.port = server.port
    BY <1>2
  <1>9. Tiles(r, {"username", "password"}, s, b, m)
    <2>1. \A c \in {"username", "password"} : r[c] = user[c] BY <1>8
    <2> QED BY <1>7, <2>1, TilesSame
  <1>10. Tiles(r, {"host", "port"}, s, x, e)
    <2>1. \A c \in {"host", "port"} : r[c] = server[c] BY <1>8
    <2> QED BY <1>6, <2>1, TilesSame
  <1>11. Tiles(r, {}, s, m, x)
    BY <1>4, <1>5, TilesRun
  <1>12. Tiles(r, ({"username", "password"} \cup {}) \cup {"host", "port"}, s, b, e)
    <2>1. Tiles(r, {"username", "password"} \cup {}, s, b, x)
      BY <1>4, <1>9, <1>11, TilesJoin
    <2>2. b <= x BY <1>4
    <2> QED BY <1>4, <1>10, <2>1, <2>2, TilesJoin
  <1>13. ({"username", "password"} \cup {}) \cup {"host", "port"} = AuthorityParts
    BY DEF AuthorityParts
  <1>14. EndsAuthority(r, b, e)
    BY <1>6, <1>7, <1>8 DEF EndsServer, EndsAuthority
  <1> QED BY <1>12, <1>13, <1>14

(* What TrimURL leaves is a range of the text.                             *)
LEMMA TrimURLIs ==
    ASSUME NEW s \in Seq(STRING)
    PROVE  TrimURL(s).begin \in Nat /\ TrimURL(s).begin <= End(TrimURL(s))
           /\ End(TrimURL(s)) \in Nat /\ End(TrimURL(s)) <= Len(s)
  <1> DEFINE n == Len(s)
             kept == {i \in 0..n - 1 : s[i + 1] \notin Blank}
             t == TrimURL(s)
  <1>1. n \in Nat OBVIOUS
  <1>2. t = IF kept = {} THEN MakeRange(n, n) ELSE MakeRange(Min(kept), Max(kept) + 1)
    BY DEF TrimURL
  <1>3. kept \subseteq 0..n - 1 OBVIOUS
  <1> HIDE DEF kept, n, t
  <1>4. CASE kept = {}
    <2>1. t = MakeRange(n, n) BY <1>2, <1>4
    <2>2. t.begin = n /\ End(t) = n BY <1>1, <2>1 DEF MakeRange, End
    <2> QED BY <1>1, <2>2 DEF n, t
  <1>5. CASE kept # {}
    <2>1. Min(kept) \in kept /\ \A i \in kept : Min(kept) <= i
      <3>1. 0 \in Int /\ n - 1 \in Int BY <1>1
      <3> QED BY <1>3, <1>5, <3>1, FirstOfRange
    <2>2. Max(kept) \in kept
      <3>1. 0 \in Int /\ n - 1 \in Int BY <1>1
      <3> QED BY <1>3, <1>5, <3>1, LastOfRange
    <2>3. Min(kept) \in 0..n - 1 /\ Max(kept) \in 0..n - 1 /\ Min(kept) <= Max(kept)
      BY <1>3, <2>1, <2>2
    <2>4. t = MakeRange(Min(kept), Max(kept) + 1) BY <1>2, <1>5
    <2>5. t.begin = Min(kept) /\ End(t) = Max(kept) + 1
      BY <2>3, <2>4 DEF MakeRange, End
    <2>6. t.begin \in Nat /\ t.begin <= End(t) /\ End(t) \in Nat /\ End(t) <= n
      BY <1>1, <2>3, <2>5
    <2> QED BY <2>6 DEF n, t
  <1> QED BY <1>4, <1>5

(* Where the text behind a scheme begins.                                  *)
AfterScheme(s, b, e) ==
    LET scheme == ExtractScheme(s, b, e)
    IN  IF scheme.len = -1 THEN b ELSE End(scheme) + 1

(* The scheme and its colon.                                               *)
LEMMA SchemeTiles ==
    ASSUME NEW s, NEW b \in Nat, NEW e \in Nat, b <= e,
           NEW p, p["scheme"] = ExtractScheme(s, b, e)
    PROVE  /\ AfterScheme(s, b, e) \in Nat
           /\ b <= AfterScheme(s, b, e) /\ AfterScheme(s, b, e) <= e
           /\ Tiles(p, {"scheme"}, s, b, AfterScheme(s, b, e))
  <1> DEFINE colon == FirstAt(s, {":"}, b, e)
             scheme == ExtractScheme(s, b, e)
             after == AfterScheme(s, b, e)
  <1>1. scheme = IF colon = e THEN Absent ELSE MakeRange(b, colon)
    BY DEF ExtractScheme
  <1>2. after = IF scheme.len = -1 THEN b ELSE End(scheme) + 1
    BY DEF AfterScheme
  <1>3. colon \in b..e /\ (colon < e => s[colon + 1] \in {":"})
    BY FirstAtIs
  <1>4. p["scheme"] = scheme OBVIOUS
  <1> HIDE DEF colon, scheme, after
  <1>5. CASE colon = e
    <2>1. scheme = Absent /\ after = b BY <1>1, <1>2, <1>5 DEF Absent
    <2>2. Tiles(p, {"scheme"}, s, b, b)
      <3> DEFINE c == "scheme"
      <3>1. p[c] = Absent BY <1>4, <2>1
      <3>2. b <= b OBVIOUS
      <3> HIDE DEF c
      <3>3. Tiles(p, {c}, s, b, b) BY <3>1, <3>2, TilesOne
      <3> QED BY <3>3 DEF c
    <2>3. after \in Nat /\ b <= after /\ after <= e /\ Tiles(p, {"scheme"}, s, b, after)
      BY <2>1, <2>2
    <2> QED BY <2>3 DEF after
  <1>6. CASE colon # e
    <2>1. scheme = MakeRange(b, colon) BY <1>1, <1>6
    <2>2. scheme.len # -1 /\ End(scheme) = colon
      BY <1>3, <2>1 DEF MakeRange, End
    <2>3. after = colon + 1 BY <1>2, <2>2
    <2>4. colon \in Nat /\ colon < e /\ b <= colon /\ s[colon + 1] \in Delimiters
      BY <1>3, <1>6 DEF Delimiters
    <2>5. Tiles(p, {"scheme"}, s, b, colon) BY <1>4, <2>1, <2>4, TilesOne
    <2>6. Tiles(p, {}, s, colon, after)
      <3>1. \A i \in colon..after - 1 : s[i + 1] \in Delimiters
        <4> SUFFICES ASSUME NEW i \in colon..after - 1 PROVE s[i + 1] \in Delimiters
          OBVIOUS
        <4>1. i = colon BY <2>3, <2>4
        <4> QED BY <2>4, <4>1
      <3>2. after \in Nat BY <2>3, <2>4
      <3> QED BY <2>4, <3>1, <3>2, TilesRun
    <2>7. after \in Nat /\ b <= after /\ after <= e /\ colon <= after BY <2>3, <2>4
    <2>8. Tiles(p, {"scheme"} \cup {}, s, b, after)
      BY <2>4, <2>5, <2>6, <2>7, TilesJoin
    <2>9. {"scheme"} \cup {} = {"scheme"} OBVIOUS
    <2> QED BY <2>7, <2>8, <2>9 DEF after
  <1> QED BY <1>5, <1>6

PathParts == {"path", "query", "ref"}

(* ParseStandardURL tiles the text it trims; the last component behind the *)
(* scheme ends where the text does.                                        *)
LEMMA StandardTiles ==
    ASSUME NEW s \in Seq(STRING), NEW r, r = ParseStandardURL(s),
           NEW t, t = TrimURL(s)
    PROVE  /\ Tiles(r, Components, s, t.begin, End(t))
           /\ \E stop, auth : EndsAuthority(r, auth, stop) /\ EndsPath(r, stop, End(t))
  <1> DEFINE b == t.begin
             e == End(t)
             scheme == ExtractScheme(s, b, e)
             after == AfterScheme(s, b, e)
             chars == {s[i] : i \in 1..Len(s)}
             auth == FirstAt(s, chars \ Slash, after, e)
             stop == FirstAt(s, IsAuthorityTerminator, auth, e)
             a == ParseAuthority(s, MakeRange(auth, stop))
             p == ParsePath(s, IF stop = e THEN Absent ELSE MakeRange(stop, e))
  <1>1. b \in Nat /\ e \in Nat /\ b <= e /\ e <= Len(s)
    BY TrimURLIs
  <1>2. r = [ParseAfterScheme(s, e, after) EXCEPT !.scheme = scheme]
    BY DEF ParseStandardURL, AfterScheme
  <1>3. /\ r.scheme = scheme
        /\ r.username = a.username /\ r.password = a.password
        /\ r.host = a.host /\ r.port = a.port
        /\ r.path = p.path /\ r.query = p.query /\ r.ref = p.ref
    <2> DEFINE q == ParseAfterScheme(s, e, after)
    <2>1. q = [NoComponents EXCEPT !.username = a.username, !.password = a.password,
                                   !.host = a.host, !.port = a.port,
                                   !.path = p.path, !.query = p.query, !.ref = p.ref]
      BY DEF ParseAfterScheme
    <2>2. r = [q EXCEPT !.scheme = scheme] BY <1>2
    <2>3. DOMAIN NoComponents = Components BY DEF NoComponents
    <2> HIDE DEF q, a, p, scheme
    <2>4. /\ q.username = a.username /\ q.password = a.password
          /\ q.host = a.host /\ q.port = a.port
          /\ q.path = p.path /\ q.query = p.query /\ q.ref = p.ref
          /\ DOMAIN q = Components
      BY <2>1, <2>3 DEF Components
    <2> QED BY <2>2, <2>4 DEF Components
  <1>4. /\ after \in Nat /\ b <= after /\ after <= e
        /\ Tiles(r, {"scheme"}, s, b, after)
    <2>1. r["scheme"] = ExtractScheme(s, b, e) BY <1>3
    <2> HIDE DEF b, e
    <2> QED BY <1>1, <2>1, SchemeTiles
  <1> HIDE DEF after, b, e, scheme
  <1>5. /\ auth \in after..e
        /\ \A i \in after..e : i < auth => s[i + 1] \notin chars \ Slash
    <2>1. after \in Int /\ e \in Int BY <1>1, <1>4
    <2> HIDE DEF chars
    <2> QED BY <1>4, <2>1, FirstAtIs
  <1> HIDE DEF auth
  <1>6. stop \in auth..e
    <2>1. auth \in Int /\ e \in Int /\ auth <= e BY <1>1, <1>4, <1>5
    <2> QED BY <2>1, FirstAtIs
  <1> HIDE DEF stop
  <1>7. auth \in Nat /\ stop \in Nat /\ after <= auth /\ auth <= stop /\ stop <= e
    BY <1>1, <1>4, <1>5, <1>6
  <1>8. Tiles(r, {}, s, after, auth)
    <2>1. ASSUME NEW i \in after..auth - 1 PROVE s[i + 1] \in Delimiters
      <3>1. i \in after..e /\ i < auth /\ i + 1 \in 1..Len(s)
        BY <1>1, <1>4, <1>7
      <3>2. s[i + 1] \in chars BY <3>1
      <3>3. s[i + 1] \in Slash BY <1>5, <3>1, <3>2
      <3> QED BY <3>3 DEF Delimiters
    <2> QED BY <1>4, <1>7, <2>1, TilesRun
  <1>9. Tiles(a, AuthorityParts, s, auth, stop) /\ EndsAuthority(a, auth, stop)
    BY <1>7, AuthorityTiles
  <1>10. Tiles(p, PathParts, s, stop, e) /\ EndsPath(p, stop, e)
    BY <1>1, <1>7, PathTiles DEF PathParts
  <1> HIDE DEF a, p
  <1>11. Tiles(r, AuthorityParts, s, auth, stop)
    <2>1. \A c \in AuthorityParts : r[c] = a[c] BY <1>3 DEF AuthorityParts
    <2> QED BY <1>9, <2>1, TilesSame
  <1>12. Tiles(r, PathParts, s, stop, e)
    <2>1. \A c \in PathParts : r[c] = p[c] BY <1>3 DEF PathParts
    <2> QED BY <1>10, <2>1, TilesSame
  <1>13. Tiles(r, (({"scheme"} \cup {}) \cup AuthorityParts) \cup PathParts, s, b, e)
    <2>1. Tiles(r, {"scheme"} \cup {}, s, b, auth)
      BY <1>1, <1>4, <1>7, <1>8, TilesJoin
    <2>2. Tiles(r, ({"scheme"} \cup {}) \cup AuthorityParts, s, b, stop)
      <3>1. b <= auth BY <1>1, <1>4, <1>7
      <3> QED BY <1>1, <1>7, <1>11, <2>1, <3>1, TilesJoin
    <2>3. b <= stop BY <1>1, <1>4, <1>7
    <2> QED BY <1>1, <1>7, <1>12, <2>2, <2>3, TilesJoin
  <1>14. (({"scheme"} \cup {}) \cup AuthorityParts) \cup PathParts = Components
    BY DEF AuthorityParts, PathParts, Components
  <1>15. EndsAuthority(r, auth, stop)
    BY <1>3, <1>9 DEF EndsAuthority
  <1>16. EndsPath(r, stop, e)
    BY <1>3, <1>10 DEF EndsPath
  <1>17. Tiles(r, Components, s, b, e)
    BY <1>13, <1>14
  <1> QED BY <1>15, <1>16, <1>17 DEF b, e

(* Absent components need no text.                                         *)
LEMMA TilesAbsent ==
    ASSUME NEW b \in Nat, NEW s, NEW C, NEW p, \A c \in C : p[c] = Absent
    PROVE  Tiles(p, C, s, b, b)
  <1>1. \A c \in C : IsPart(p[c], b, b) BY DEF IsPart
  <1>2. \A c \in C, i \in Int : ~Inside(i, p[c]) BY <1>1, InsidePart
  <1> QED BY <1>1, <1>2 DEF Tiles

MiddleParts == {"username", "password", "host", "port"}

(* ParsePathURL and ParseMailtoURL tile the text they trim, too.           *)
LEMMA PathURLTiles ==
    ASSUME NEW s \in Seq(STRING), NEW t, t = TrimURL(s),
           NEW r, r = ParsePathURL(s)
    PROVE  /\ Tiles(r, Components, s, t.begin, End(t))
           /\ DOMAIN r = Components /\ r.query = Absent
           /\ \E begin \in Nat : \E e \in Nat :
                 /\ e = End(t) /\ t.begin <= begin /\ begin <= e
                 /\ Tiles(r, {"scheme"} \cup MiddleParts, s, t.begin, begin)
                 /\ r.path = IF begin >= e THEN Absent ELSE MakeRange(begin, e)
                 /\ r.ref = Absent
  <1> DEFINE b == t.begin
             e == End(t)
             scheme == ExtractScheme(s, b, e)
             begin == AfterScheme(s, b, e)
             path == IF begin >= e THEN Absent ELSE MakeRange(begin, e)
  <1>1. b \in Nat /\ e \in Nat /\ b <= e
    BY TrimURLIs
  <1>2. r = [NoComponents EXCEPT !.scheme = scheme, !.path = path]
    BY DEF ParsePathURL, AfterScheme
  <1>3. DOMAIN NoComponents = Components /\ \A c \in Components : NoComponents[c] = Absent
    BY DEF NoComponents
  <1> HIDE DEF scheme, path
  <1>4. /\ r.scheme = scheme /\ r.path = path /\ DOMAIN r = Components
        /\ \A c \in MiddleParts : r[c] = Absent
        /\ r.query = Absent /\ r.ref = Absent
    BY <1>2, <1>3 DEF Components, MiddleParts
  <1>5. /\ begin \in Nat /\ b <= begin /\ begin <= e
        /\ Tiles(r, {"scheme"}, s, b, begin)
    <2>1. r["scheme"] = ExtractScheme(s, b, e) BY <1>4 DEF scheme
    <2> HIDE DEF b, e
    <2> QED BY <1>1, <2>1, SchemeTiles
  <1> HIDE DEF begin, b, e
  <1>6. Tiles(r, MiddleParts, s, begin, begin)
    BY <1>4, <1>5, TilesAbsent
  <1>7. Tiles(r, {"scheme"} \cup MiddleParts, s, b, begin)
    BY <1>1, <1>5, <1>6, TilesJoin
  <1>8. Tiles(r, {"path"}, s, begin, e)
    <2>1. r["path"] = MakeRange(begin, e) \/ (begin = e /\ r["path"] = Absent)
      BY <1>1, <1>4, <1>5 DEF path
    <2> DEFINE c == "path"
    <2>2. r[c] = MakeRange(begin, e) \/ (begin = e /\ r[c] = Absent) BY <2>1
    <2> HIDE DEF c
    <2>3. Tiles(r, {c}, s, begin, e) BY <1>1, <1>5, <2>2, TilesOne
    <2> QED BY <2>3 DEF c
  <1>9. Tiles(r, {"query", "ref"}, s, e, e)
    <2>1. \A c \in {"query", "ref"} : r[c] = Absent BY <1>4
    <2> QED BY <1>1, <2>1, TilesAbsent
  <1>10. Tiles(r, (({"scheme"} \cup MiddleParts) \cup {"path"}) \cup {"query", "ref"}, s, b, e)
    <2>1. Tiles(r, ({"scheme"} \cup MiddleParts) \cup {"path"}, s, b, e)
      BY <1>1, <1>5, <1>7, <1>8, TilesJoin
    <2> QED BY <1>1, <1>9, <2>1, TilesJoin
  <1>11. (({"scheme"} \cup MiddleParts) \cup {"path"}) \cup {"query", "ref"} = Components
    BY DEF MiddleParts, Components
  <1>12. Tiles(r, Components, s, b, e) BY <1>10, <1>11
  <1>13. r.path = IF begin >= e THEN Absent ELSE MakeRange(begin, e)
    BY <1>4 DEF path
  <1>14. b = t.begin /\ e = End(t) BY DEF b, e
  <1> QED BY <1>1, <1>4, <1>5, <1>7, <1>12, <1>13, <1>14

(* The same with the query of a mailto address.                           *)
LEMMA MailtoTiles ==
    ASSUME NEW s \in Seq(STRING), NEW t, t = TrimURL(s),
           NEW r, r = ParseMailtoURL(s)
    PROVE  Tiles(r, Components, s, t.begin, End(t))
  <1> DEFINE b == t.begin
             parsed == ParsePathURL(s)
             p == parsed.path
             question == FirstAt(s, {"?"}, p.begin, End(p))
  <1>1. b \in Nat
    BY TrimURLIs
  <1>2. /\ Tiles(parsed, Components, s, b, End(t))
        /\ DOMAIN parsed = Components /\ parsed.query = Absent
    BY PathURLTiles
  <1>3. PICK begin \in Nat : \E x \in Nat :
                 /\ x = End(t) /\ b <= begin /\ begin <= x
                 /\ Tiles(parsed, {"scheme"} \cup MiddleParts, s, b, begin)
                 /\ p = (IF begin >= x THEN Absent ELSE MakeRange(begin, x))
                 /\ parsed.ref = Absent
    BY PathURLTiles
  <1> DEFINE e == End(t)
  <1>4. /\ e \in Nat /\ b <= begin /\ begin <= e
        /\ Tiles(parsed, {"scheme"} \cup MiddleParts, s, b, begin)
        /\ p = (IF begin >= e THEN Absent ELSE MakeRange(begin, e))
        /\ parsed.ref = Absent
    BY <1>3
  <1>5. r = IF p.len = -1 \/ question = End(p) THEN parsed
            ELSE [parsed EXCEPT !.query = MakeRange(question + 1, End(p)),
                                !.path = IF question = p.begin THEN Absent
                                         ELSE MakeRange(p.begin, question)]
    BY DEF ParseMailtoURL
  <1> HIDE DEF b, parsed, question
  <1>6. CASE p.len = -1 \/ question = End(p)
    <2>1. r = parsed BY <1>5, <1>6
    <2> QED BY <1>2, <2>1 DEF b
  <1>7. CASE ~(p.len = -1 \/ question = End(p))
    <2>1. p.len # -1 /\ question # End(p) BY <1>7
    <2>2. begin < e /\ p = MakeRange(begin, e)
      <3>1. ~(begin >= e) BY <1>4, <2>1 DEF Absent
      <3> HIDE DEF e, p
      <3> QED BY <1>4, <3>1
    <2>3. p.begin = begin /\ End(p) = e
      <3> HIDE DEF e, p
      <3> QED BY <1>4, <2>2 DEF MakeRange, End
    <2> HIDE DEF e, p
    <2>4. question \in begin..e /\ (question < e => s[question + 1] \in {"?"})
      <3>1. question = FirstAt(s, {"?"}, begin, e) BY <2>3 DEF question, p, e
      <3>2. begin \in Int /\ e \in Int /\ begin <= e BY <1>4
      <3> QED BY <3>1, <3>2, FirstAtIs
    <2>5. question \in Nat /\ begin <= question /\ question < e /\ s[question + 1] \in Delimiters
      BY <1>4, <2>1, <2>3, <2>4 DEF Delimiters
    <2>6. r = [parsed EXCEPT !.query = MakeRange(question + 1, e),
                             !.path = IF question = begin THEN Absent
                                      ELSE MakeRange(begin, question)]
      BY <1>5, <1>7, <2>3
    <2>7. /\ r.query = MakeRange(question + 1, e)
          /\ r.path = IF question = begin THEN Absent ELSE MakeRange(begin, question)
          /\ r.ref = Absent
          /\ \A c \in {"scheme"} \cup MiddleParts : r[c] = parsed[c]
      BY <1>2, <1>4, <2>6 DEF Components, MiddleParts
    <2>8. Tiles(r, {"scheme"} \cup MiddleParts, s, b, begin)
      BY <1>4, <2>7, TilesSame
    <2>9. Tiles(r, {"path"}, s, begin, question)
      BY <2>5, <2>7, TilesOne
    <2>10. Tiles(r, {"query"}, s, question, e)
      <3> DEFINE c == "query"
      <3>1. r[c] = MakeRange(question + 1, e) BY <2>7
      <3>2. e \in Nat /\ question <= e BY <1>4, <2>5
      <3> HIDE DEF c
      <3>3. Tiles(r, {c}, s, question, e) BY <2>5, <3>1, <3>2, TilesOne
      <3> QED BY <3>3 DEF c
    <2>11. Tiles(r, {"ref"}, s, e, e)
      <3>1. \A c \in {"ref"} : r[c] = Absent BY <2>7
      <3> QED BY <1>4, <3>1, TilesAbsent
    <2>12. Tiles(r, ((({"scheme"} \cup MiddleParts) \cup {"path"}) \cup {"query"}) \cup {"ref"}, s, b, e)
      <3>1. Tiles(r, ({"scheme"} \cup MiddleParts) \cup {"path"}, s, b, question)
        BY <1>1, <1>4, <2>5, <2>8, <2>9, TilesJoin DEF b
      <3>2. b <= question /\ question <= e /\ b <= e /\ b \in Nat BY <1>1, <1>4, <2>5 DEF b
      <3>3. Tiles(r, (({"scheme"} \cup MiddleParts) \cup {"path"}) \cup {"query"}, s, b, e)
        BY <1>4, <2>5, <2>10, <3>1, <3>2, TilesJoin
      <3> QED BY <1>4, <2>11, <3>2, <3>3, TilesJoin
    <2>13. ((({"scheme"} \cup MiddleParts) \cup {"path"}) \cup {"query"}) \cup {"ref"} = Components
      BY DEF MiddleParts, Components
    <2> QED BY <2>12, <2>13 DEF b, e
  <1> QED BY <1>6, <1>7

(* An offset of tiled text is in one component, or has a delimiter.        *)
LEMMA TilesCover ==
    ASSUME NEW s, NEW b, NEW e, NEW p, Tiles(p, Components, s, b, e),
           NEW i \in b..e - 1, i \in Int
    PROVE  \/ Cardinality(Covers(p, i)) = 1
           \/ (Covers(p, i) = {} /\ s[i + 1] \in Delimiters)
  <1>1. \A c : c \in Covers(p, i) <=> c \in Components /\ Inside(i, p[c])
    BY DEF Covers, Inside
  <1>2. CASE \E c \in Components : Inside(i, p[c])
    <2>1. PICK c \in Components : Inside(i, p[c]) BY <1>2
    <2>2. \A d \in Components : Inside(i, p[d]) => d = c BY <2>1 DEF Tiles
    <2>3. Covers(p, i) = {c} BY <1>1, <2>1, <2>2
    <2> QED BY <2>3, FS_Singleton
  <1>3. CASE ~\E c \in Components : Inside(i, p[c])
    <2>1. Covers(p, i) = {} BY <1>1, <1>3
    <2>2. s[i + 1] \in Delimiters BY <1>3 DEF Tiles
    <2> QED BY <2>1, <2>2
  <1> QED BY <1>2, <1>3

(* Parsed::Length is where the last component behind the scheme ends, and  *)
(* that is the end of the text.                                            *)
LEMMA LengthIsEnd ==
    ASSUME NEW r, NEW b \in Nat, NEW e \in Nat, NEW stop, NEW auth,
           \A c \in Components : IsPart(r[c], b, e),
           EndsAuthority(r, auth, stop), EndsPath(r, stop, e),
           \E c \in Components \ {"scheme"} : r[c].len # -1
    PROVE  Length(r) = e
  <1> DEFINE After(c, d) == IF r[c].len = -1 THEN -1 ELSE End(r[c]) + d
             ends == <<After("scheme", 1), After("username", 1), After("password", 1),
                       After("host", 0), After("port", 0), After("path", 0), After("query", 0)>>
             S == {i \in 1..7 : ends[i] >= 0} \cup {0}
             last == Max(S)
  <1>1. Length(r) = IF r.ref.len # -1 THEN End(r.ref)
                    ELSE IF last = 0 THEN 0 ELSE ends[last]
    BY DEF Length, CountCharactersBeforeRef
  <1>2. \A c \in Components : r[c].len # -1 => End(r[c]) \in Nat
    BY DEF IsPart, End, Absent
  <1>3. /\ ends[1] = After("scheme", 1) /\ ends[2] = After("username", 1)
        /\ ends[3] = After("password", 1) /\ ends[4] = After("host", 0)
        /\ ends[5] = After("port", 0) /\ ends[6] = After("path", 0)
        /\ ends[7] = After("query", 0)
    OBVIOUS
  <1> HIDE DEF ends
  <1>4. ASSUME NEW k \in 1..7, ends[k] >= 0, \A j \in 1..7 : k < j => ~(ends[j] >= 0)
        PROVE  last = k
    <2>1. k \in S /\ S \subseteq Int BY <1>4
    <2>2. \A i \in S : i <= k BY <1>4
    <2> HIDE DEF S
    <2> QED BY <2>1, <2>2, MaxIs
  <1> HIDE DEF last
  <1>5. /\ {"username", "password", "host", "port", "path", "query", "ref"} \subseteq Components
        /\ \A c \in Components \ {"scheme"} :
              c \in {"username", "password", "host", "port", "path", "query", "ref"}
    BY DEF Components
  <1>6. /\ ends[2] = IF r.username.len = -1 THEN -1 ELSE End(r.username) + 1
        /\ ends[3] = IF r.password.len = -1 THEN -1 ELSE End(r.password) + 1
        /\ ends[4] = IF r.host.len = -1 THEN -1 ELSE End(r.host) + 0
        /\ ends[5] = IF r.port.len = -1 THEN -1 ELSE End(r.port) + 0
        /\ ends[6] = IF r.path.len = -1 THEN -1 ELSE End(r.path) + 0
        /\ ends[7] = IF r.query.len = -1 THEN -1 ELSE End(r.query) + 0
    BY <1>3
  <1>7. /\ r.username.len # -1 => End(r.username) \in Nat
        /\ r.password.len # -1 => End(r.password) \in Nat
        /\ r.host.len # -1 => End(r.host) \in Nat
        /\ r.port.len # -1 => End(r.port) \in Nat
        /\ r.path.len # -1 => End(r.path) \in Nat
        /\ r.query.len # -1 => End(r.query) \in Nat
    BY <1>2, <1>5
  <1>8. CASE r.ref.len # -1
    BY <1>1, <1>8 DEF EndsPath
  <1>9. CASE r.ref.len = -1 /\ r.query.len # -1
    <2>1. ends[7] = e BY <1>6, <1>7, <1>9 DEF EndsPath
    <2>2. last = 7 BY <1>4, <2>1
    <2> QED BY <1>1, <1>9, <2>1, <2>2
  <1>10. CASE r.ref.len = -1 /\ r.query.len = -1 /\ r.path.len # -1
    <2>1. ends[7] = -1 /\ ends[6] = e BY <1>6, <1>7, <1>10 DEF EndsPath
    <2>2. last = 6 BY <1>4, <2>1
    <2> QED BY <1>1, <1>10, <2>1, <2>2
  <1>11. CASE r.ref.len = -1 /\ r.query.len = -1 /\ r.path.len = -1
    <2>1. stop = e /\ ends[7] = -1 /\ ends[6] = -1 BY <1>6, <1>11 DEF EndsPath
    <2>2. CASE r.port.len # -1
      <3>1. ends[5] = e BY <1>6, <1>7, <2>1, <2>2 DEF EndsAuthority
      <3>2. last = 5 BY <1>4, <2>1, <3>1
      <3> QED BY <1>1, <1>11, <3>1, <3>2
    <2>3. CASE r.port.len = -1 /\ r.host.len # -1
      <3>1. ends[5] = -1 /\ ends[4] = e BY <1>6, <1>7, <2>1, <2>3 DEF EndsAuthority
      <3>2. last = 4 BY <1>4, <2>1, <3>1
      <3> QED BY <1>1, <1>11, <3>1, <3>2
    <2>4. CASE r.port.len = -1 /\ r.host.len = -1 /\ r.password.len # -1
      <3>1. ends[5] = -1 /\ ends[4] = -1 /\ ends[3] = e
        BY <1>6, <1>7, <2>1, <2>4 DEF EndsAuthority
      <3>2. last = 3 BY <1>4, <2>1, <3>1
      <3> QED BY <1>1, <1>11, <3>1, <3>2
    <2>5. CASE r.port.len = -1 /\ r.host.len = -1 /\ r.password.len = -1
      <3>1. r.username.len # -1
        <4>1. PICK c \in Components \ {"scheme"} : r[c].len # -1 OBVIOUS
        <4>2. c \in {"username", "password", "host", "port", "path", "query", "ref"}
          BY <1>5
        <4> QED BY <1>11, <2>5, <4>1, <4>2
      <3>2. /\ ends[5] = -1 /\ ends[4] = -1 /\ ends[3] = -1 /\ ends[2] = e
        BY <1>6, <1>7, <2>1, <2>5, <3>1 DEF EndsAuthority
      <3>3. last = 2 BY <1>4, <2>1, <3>2
      <3> QED BY <1>1, <1>11, <3>2, <3>3
    <2> QED BY <2>2, <2>3, <2>4, <2>5
  <1> QED BY <1>8, <1>9, <1>10, <1>11

-----------------------------------------------------------------------------
(* A behaviour keeps its input.                                            *)

IsText ==
    /\ job \in {"request", "number", "port", "file", "command"} => text \in Seq(STRING)
    /\ job = "file" => pattern \in Seq(STRING)
    /\ job = "message" => text \in Messages

(* No step changes the input.                                             *)
LEMMA TextKept == Spec => []IsText
  <1>1. Init => IsText
    BY ParsingAssumption DEF Init, Input, IsText
  <1>2. IsText /\ [Next]_vars => IsText'
    BY DEF IsText, Next, NextParameter, NextWord, vars
  <1> QED BY <1>1, <1>2, PTL DEF Spec

(* Whatever the request, ParseStandardURL and the parsers of the other     *)
(* schemes give every character of it to one component, delimiters apart,  *)
(* and Parsed::Length is its end.                                          *)
LEMMA NothingLostOf ==
    ASSUME IsText PROVE NothingLost
  <1> SUFFICES ASSUME job = "request" PROVE NothingLost
    BY DEF NothingLost
  <1> DEFINE t == TrimURL(text)
             standard == ParseStandardURL(text)
             b == t.begin
             e == End(t)
  <1>1. text \in Seq(STRING) BY DEF IsText
  <1>2. b \in Nat /\ e \in Nat BY <1>1, TrimURLIs
  <1>3. Tiles(standard, Components, text, b, e)
    BY <1>1, StandardTiles
  <1>4. Tiles(ParsePathURL(text), Components, text, b, e)
    BY <1>1, PathURLTiles
  <1>5. Tiles(ParseMailtoURL(text), Components, text, b, e)
    BY <1>1, MailtoTiles
  <1>6. PICK stop, auth : EndsAuthority(standard, auth, stop) /\ EndsPath(standard, stop, e)
    BY <1>1, StandardTiles
  <1> HIDE DEF b, e, standard
  <1>7. ASSUME NEW p \in {standard, ParsePathURL(text), ParseMailtoURL(text)},
               NEW i \in b..e - 1
        PROVE  \/ Cardinality(Covers(p, i)) = 1
               \/ (Covers(p, i) = {} /\ text[i + 1] \in Delimiters)
    <2>1. Tiles(p, Components, text, b, e) BY <1>3, <1>4, <1>5
    <2>2. i \in Int BY <1>2
    <2> QED BY <2>1, <2>2, TilesCover
  <1>8. ASSUME \E c \in Components \ {"scheme"} : standard[c].len # -1
        PROVE  Length(standard) = e
    <2>1. \A c \in Components : IsPart(standard[c], b, e) BY <1>3 DEF Tiles
    <2> QED BY <1>2, <1>6, <1>8, <2>1, LengthIsEnd
  <1> QED BY <1>7, <1>8 DEF NothingLost, b, e, standard

(* NothingLost holds of every request text.                                 *)
THEOREM RequestsAreTiled == Spec => []NothingLost
  BY TextKept, NothingLostOf, PTL

(* A query to read.                                                        *)
QueryInText == job = "request" => IsPart(query, 0, Len(text))

(* A turn of the loop over a query takes the first pair off it, whatever   *)
(* the query is, and leaves a part of the text.                            *)
TakesPair(s, q, turn) ==
    LET P(c) == Piece(s, c.begin, End(c))
    IN  /\ turn.query.len < q.len
        /\ IsPart(turn.query, 0, Len(s))
        /\ Range(P(turn.key)) \cap {"&", "="} = {}
        /\ "&" \notin Range(P(turn.value))
        /\ \E eq \in {<<>>, <<"=">>}, amp \in {<<>>, <<"&">>} :
              /\ P(q) = P(turn.key) \o eq \o P(turn.value) \o amp \o P(turn.query)
              /\ amp = <<>> => P(turn.query) = <<>>

(* That is what ExtractQueryKeyValue does.                                 *)
LEMMA TurnTakesPair ==
    ASSUME NEW s \in Seq(STRING), NEW q, IsPart(q, 0, Len(s)), q.len > 0,
           NEW turn, turn = ExtractQueryKeyValue(s, q)
    PROVE  TakesPair(s, q, turn)
  <1> DEFINE e == End(q)
             b == q.begin
             keyEnd == FirstAt(s, {"&", "="}, b, e)
             begin == IF keyEnd < e /\ s[keyEnd + 1] = "=" THEN keyEnd + 1 ELSE keyEnd
             valueEnd == FirstAt(s, {"&"}, begin, e)
             next == IF valueEnd < e THEN valueEnd + 1 ELSE valueEnd
             eq == Piece(s, keyEnd, begin)
             amp == Piece(s, valueEnd, next)
  <1>1. b \in Nat /\ e \in Nat /\ b < e /\ e <= Len(s) /\ q.len = e - b
    BY LenProperties DEF IsPart, Absent, End
  <1>2. turn = [key |-> MakeRange(b, keyEnd), value |-> MakeRange(begin, valueEnd),
                query |-> MakeRange(next, e)]
    BY DEF ExtractQueryKeyValue
  <1> HIDE DEF b, e
  <1>3. /\ keyEnd \in b..e
        /\ \A i \in b..e : i < keyEnd => s[i + 1] \notin {"&", "="}
        /\ keyEnd < e => s[keyEnd + 1] \in {"&", "="}
    BY <1>1, FirstAtIs
  <1> HIDE DEF keyEnd
  <1>4. begin \in keyEnd..e /\ begin <= keyEnd + 1 /\ (begin # keyEnd => s[keyEnd + 1] = "=")
    BY <1>1, <1>3
  <1>5. begin = keyEnd /\ keyEnd < e => s[begin + 1] = "&"
    BY <1>1, <1>3
  <1> HIDE DEF begin
  <1>6. /\ valueEnd \in begin..e
        /\ \A i \in begin..e : i < valueEnd => s[i + 1] \notin {"&"}
        /\ valueEnd < e => s[valueEnd + 1] \in {"&"}
    <2>1. begin \in Int /\ e \in Int /\ begin <= e BY <1>1, <1>3, <1>4
    <2> QED BY <2>1, FirstAtIs
  <1> HIDE DEF valueEnd
  <1>7. next \in valueEnd..e /\ (next = valueEnd => next = e)
        /\ (next # valueEnd => next = valueEnd + 1 /\ valueEnd < e)
    BY <1>1, <1>3, <1>4, <1>6
  <1> HIDE DEF next
  <1>8. /\ keyEnd \in Nat /\ begin \in Nat /\ valueEnd \in Nat /\ next \in Nat
        /\ b <= keyEnd /\ keyEnd <= begin /\ begin <= valueEnd /\ valueEnd <= next /\ next <= e
        /\ Len(s) \in Nat
    BY <1>1, <1>3, <1>4, <1>6, <1>7, LenProperties
  <1>9. b < next
    <2>1. CASE keyEnd = b /\ begin = b
      <3>1. keyEnd < e /\ begin = keyEnd BY <1>1, <2>1
      <3>2. s[b + 1] = "&" BY <1>5, <2>1, <3>1
      <3>3. valueEnd = b => valueEnd < e BY <1>1
      <3>4. valueEnd = b => next # valueEnd BY <1>1, <1>7
      <3> QED BY <1>1, <1>7, <1>8, <2>1, <3>4
    <2>2. CASE keyEnd # b \/ begin # b
      BY <1>1, <1>8, <2>2
    <2> QED BY <2>1, <2>2
  <1>10. /\ turn.key.begin = b /\ End(turn.key) = keyEnd
         /\ turn.value.begin = begin /\ End(turn.value) = valueEnd
         /\ turn.query.begin = next /\ End(turn.query) = e /\ turn.query.len = e - next
    <2>1. /\ turn.key = MakeRange(b, keyEnd) /\ turn.value = MakeRange(begin, valueEnd)
          /\ turn.query = MakeRange(next, e)
      BY <1>2
    <2> QED BY <1>1, <1>8, <2>1 DEF MakeRange, End
  <1>11. Range(Piece(s, b, keyEnd)) \cap {"&", "="} = {}
    <2>1. \A i \in b..keyEnd - 1 : s[i + 1] \notin {"&", "="}
      <3> SUFFICES ASSUME NEW i \in b..keyEnd - 1 PROVE s[i + 1] \notin {"&", "="} OBVIOUS
      <3>1. i \in b..e /\ i < keyEnd BY <1>1, <1>8
      <3> QED BY <1>3, <3>1
    <2>2. keyEnd <= Len(s) BY <1>1, <1>8
    <2> QED BY <1>1, <1>8, <2>1, <2>2, PieceWithout
  <1>12. Range(Piece(s, begin, valueEnd)) \cap {"&"} = {}
    <2>1. \A i \in begin..valueEnd - 1 : s[i + 1] \notin {"&"}
      <3> SUFFICES ASSUME NEW i \in begin..valueEnd - 1 PROVE s[i + 1] \notin {"&"} OBVIOUS
      <3>1. i \in begin..e /\ i < valueEnd BY <1>1, <1>8
      <3> QED BY <1>6, <3>1
    <2>2. valueEnd <= Len(s) BY <1>1, <1>8
    <2> QED BY <1>1, <1>8, <2>1, <2>2, PieceWithout
  <1>13. eq \in {<<>>, <<"=">>}
    <2>1. CASE begin = keyEnd
      <3>1. keyEnd <= Len(s) BY <1>1, <1>8
      <3>2. Piece(s, keyEnd, keyEnd) = <<>> BY <1>8, <3>1, PieceSmall
      <3> QED BY <2>1, <3>2
    <2>2. CASE begin # keyEnd
      <3>1. begin = keyEnd + 1 /\ keyEnd < Len(s) /\ s[keyEnd + 1] = "="
        BY <1>1, <1>4, <1>8, <2>2
      <3>2. keyEnd <= Len(s) BY <1>8, <3>1
      <3>3. Piece(s, keyEnd, keyEnd + 1) = <<s[keyEnd + 1]>> BY <1>8, <3>1, <3>2, PieceSmall
      <3> QED BY <3>1, <3>3
    <2> QED BY <2>1, <2>2
  <1>14. /\ amp \in {<<>>, <<"&">>}
         /\ amp = <<>> => Piece(s, next, e) = <<>>
    <2>1. CASE next = valueEnd
      <3>1. valueEnd <= Len(s) /\ e <= Len(s) /\ next = e BY <1>1, <1>7, <1>8, <2>1
      <3>2. Piece(s, valueEnd, valueEnd) = <<>> /\ Piece(s, e, e) = <<>>
        BY <1>1, <1>8, <3>1, PieceSmall
      <3> QED BY <2>1, <3>1, <3>2
    <2>2. CASE next # valueEnd
      <3>1. next = valueEnd + 1 /\ valueEnd < Len(s) /\ s[valueEnd + 1] = "&"
        BY <1>1, <1>6, <1>7, <1>8, <2>2
      <3>2. valueEnd <= Len(s) BY <1>8, <3>1
      <3>3. Piece(s, valueEnd, valueEnd + 1) = <<s[valueEnd + 1]>>
        BY <1>8, <3>1, <3>2, PieceSmall
      <3>4. amp = <<"&">> BY <3>1, <3>3
      <3>5. <<"&">> # <<>> OBVIOUS
      <3> QED BY <3>4, <3>5
    <2> QED BY <2>1, <2>2
  <1>15. Piece(s, b, keyEnd) \o eq \o Piece(s, begin, valueEnd) \o amp \o Piece(s, next, e)
           = Piece(s, b, e)
    <2>1. begin <= Len(s) /\ valueEnd <= Len(s) /\ next <= Len(s) BY <1>1, <1>8
    <2>2. Piece(s, b, keyEnd) \o eq = Piece(s, b, begin)
      BY SMTT(30), <1>1, <1>8, <2>1, PieceConcat
    <2>3. Piece(s, b, begin) \o Piece(s, begin, valueEnd) = Piece(s, b, valueEnd)
      <3>1. b <= begin BY <1>1, <1>8
      <3> QED BY SMTT(30), <1>1, <1>8, <2>1, <3>1, PieceConcat
    <2>4. Piece(s, b, valueEnd) \o amp = Piece(s, b, next)
      <3>1. b <= valueEnd BY <1>1, <1>8
      <3> QED BY SMTT(30), <1>1, <1>8, <2>1, <3>1, PieceConcat
    <2>5. Piece(s, b, next) \o Piece(s, next, e) = Piece(s, b, e)
      <3>1. b <= next BY <1>1, <1>8
      <3> QED BY <1>1, <1>8, <3>1, PieceConcat
    <2> HIDE DEF eq, amp
    <2> QED BY <2>2, <2>3, <2>4, <2>5
  <1>16. turn.query.len < q.len /\ IsPart(turn.query, 0, Len(s))
    <2>1. e - next < e - b BY <1>1, <1>8, <1>9
    <2>2. turn.query.begin \in 0..Len(s) /\ turn.query.len \in Nat BY <1>1, <1>8, <1>10
    <2> QED BY <1>1, <1>10, <2>1, <2>2 DEF IsPart
  <1> HIDE DEF eq, amp
  <1>17. q.begin = b /\ End(q) = e BY DEF b, e
  <1>18. "&" \notin Range(Piece(s, begin, valueEnd)) BY <1>12
  <1> QED BY <1>10, <1>11, <1>13, <1>14, <1>15, <1>16, <1>17, <1>18 DEF TakesPair

(* The query that is left is always a part of the text.                    *)
LEMMA QueryKept == Spec => []QueryInText
  <1>1. Init => QueryInText
    <2> SUFFICES ASSUME Init, job = "request" PROVE QueryInText
      BY DEF QueryInText
    <2>1. text \in Seq(STRING) /\ query = ParseStandardURL(text).query
      BY ParsingAssumption DEF Init, Input
    <2> DEFINE t == TrimURL(text)
               r == ParseStandardURL(text)
    <2>2. Tiles(r, Components, text, t.begin, End(t)) BY <2>1, StandardTiles
    <2>3. IsPart(r["query"], t.begin, End(t)) BY <2>2 DEF Tiles, Components
    <2>4. t.begin \in Nat /\ End(t) \in Nat /\ End(t) <= Len(text) /\ Len(text) \in Nat
      BY <2>1, TrimURLIs, LenProperties
    <2>5. query = r["query"] BY <2>1
    <2> HIDE DEF t, r
    <2>6. IsPart(query, 0, Len(text)) BY <2>3, <2>4, <2>5 DEF IsPart, End
    <2> QED BY <2>6 DEF QueryInText
  <1>2. IsText /\ QueryInText /\ [Next]_vars => QueryInText'
    <2> SUFFICES ASSUME IsText, QueryInText, [Next]_vars, job' = "request"
                 PROVE  QueryInText'
      BY DEF QueryInText
    <2>1. job = job' /\ text' = text BY DEF Next, NextParameter, NextWord, vars
    <2>2. CASE NextParameter
      <3>1. /\ text \in Seq(STRING) /\ IsPart(query, 0, Len(text)) /\ query.len > 0
            /\ query' = ExtractQueryKeyValue(text, query).query
        BY <2>2 DEF NextParameter, IsText, QueryInText, IsNonempty
      <3>2. TakesPair(text, query, ExtractQueryKeyValue(text, query))
        BY <3>1, TurnTakesPair
      <3>3. IsPart(query', 0, Len(text)) BY <3>1, <3>2 DEF TakesPair
      <3> QED BY <2>1, <3>3 DEF QueryInText
    <2>3. CASE query' = query
      BY <2>1, <2>3 DEF QueryInText
    <2> QED BY <2>2, <2>3 DEF Next, NextWord, vars
  <1> QED BY <1>1, <1>2, TextKept, PTL DEF Spec

(* For every request, each turn of the parameter loop takes one pair and   *)
(* leaves less: the loop ends and skips nothing (QueryConsumed).           *)
THEOREM QueryIsConsumed == Spec => QueryConsumed
  <1>1. IsText /\ QueryInText /\ [Next]_vars => [PairTaken]_query
    <2> SUFFICES ASSUME IsText, QueryInText, [Next]_vars, query' # query
                 PROVE  PairTaken
      OBVIOUS
    <2>1. NextParameter BY DEF Next, NextWord, vars
    <2>2. /\ text \in Seq(STRING) /\ IsPart(query, 0, Len(text)) /\ query.len > 0
          /\ query' = ExtractQueryKeyValue(text, query).query
      BY <2>1 DEF NextParameter, IsText, QueryInText, IsNonempty
    <2>3. TakesPair(text, query, ExtractQueryKeyValue(text, query))
      BY <2>2, TurnTakesPair
    <2> QED BY <2>2, <2>3 DEF TakesPair, PairTaken, Piece
  <1> QED BY <1>1, TextKept, QueryKept, PTL DEF Spec, QueryConsumed

-----------------------------------------------------------------------------
(* The file name.                                                          *)

(* ExtractFileName of a path that is not empty: before its last semicolon, *)
(* and behind the last slash before that.                                  *)
FileNameOf(s, path, name) ==
    LET P(begin, end) == Piece(s, begin, end)
        before == P(path.begin, name.begin)
        file == P(name.begin, End(name))
        parameter == P(End(name), End(path))
    IN  /\ P(path.begin, End(path)) = before \o file \o parameter
        /\ Range(file) \cap Slash = {}
        /\ before = <<>> \/ Last(before) \in Slash
        /\ IF parameter = <<>> THEN ";" \notin Range(Tail(before \o file))
           ELSE Head(parameter) = ";" /\ ";" \notin Range(Tail(parameter))

(* That is what the loops of ExtractFileName find.                         *)
LEMMA FileNameIsCut ==
    ASSUME NEW s \in Seq(STRING), NEW path, IsPart(path, 0, Len(s)), path.len > 0,
           NEW name, name = ExtractFileName(s, path)
    PROVE  FileNameOf(s, path, name)
  <1> DEFINE b == path.begin
             e == End(path)
             first == b + 1
             semicolon == LastAt(s, {";"}, first, e)
             end == IF semicolon < 0 THEN e ELSE semicolon
             slash == LastAt(s, Slash, b, end)
             start == IF slash < 0 THEN b ELSE slash + 1
             before == Piece(s, b, start)
             file == Piece(s, start, end)
             parameter == Piece(s, end, e)
  <1>1. /\ b \in Nat /\ e \in Nat /\ b < e /\ e <= Len(s) /\ Len(s) \in Nat
        /\ ~(path.len <= 0)
    BY LenProperties DEF IsPart, Absent, End
  <1>2. name = MakeRange(start, end)
    BY <1>1 DEF ExtractFileName
  <1>3. b = path.begin /\ e = End(path) OBVIOUS
  <1> HIDE DEF b, e
  <1>4. /\ semicolon \in Int
        /\ \/ semicolon = -1
           \/ first <= semicolon /\ semicolon < e /\ s[semicolon + 1] \in {";"}
        /\ \A i \in first..e - 1 : semicolon < i => s[i + 1] \notin {";"}
    <2>1. first \in Nat /\ e \in Int BY <1>1
    <2> HIDE DEF first
    <2> QED BY <2>1, LastAtIs
  <1> HIDE DEF semicolon
  <1>5. semicolon \in Int /\ (semicolon = -1 \/ (b < semicolon /\ semicolon < e))
    <2>1. semicolon \in Int /\ (semicolon = -1 \/ (first <= semicolon /\ semicolon < e))
      <3> HIDE DEF first
      <3> QED BY <1>4
    <2>2. first = b + 1 OBVIOUS
    <2> HIDE DEF first
    <2> QED BY <1>1, <2>1, <2>2
  <1>6. semicolon # -1 => s[semicolon + 1] = ";"
    BY <1>4
  <1>7. /\ end \in Nat /\ b < end /\ end <= e
        /\ end < e => end = semicolon /\ semicolon # -1
        /\ end = e => semicolon < 0
    BY <1>1, <1>5
  <1> HIDE DEF end
  <1>8. /\ slash \in Int
        /\ slash = -1 \/ (b <= slash /\ slash < end /\ s[slash + 1] \in Slash)
        /\ \A i \in b..end - 1 : slash < i => s[i + 1] \notin Slash
    <2>1. end \in Int BY <1>7
    <2> QED BY <1>1, <2>1, LastAtIs
  <1> HIDE DEF slash
  <1>9. /\ start \in Nat /\ b <= start /\ start <= end
        /\ start # b => slash = start - 1 /\ slash >= 0
        /\ slash < start
    BY <1>1, <1>7, <1>8
  <1> HIDE DEF start
  <1>10. name.begin = start /\ End(name) = end
    BY <1>2, <1>7, <1>9 DEF MakeRange, End
  <1>11. end <= Len(s) /\ start <= Len(s) /\ b <= end /\ start <= e /\ b <= e
    BY <1>1, <1>7, <1>9
  <1>12. before \o file = Piece(s, b, end)
    BY <1>1, <1>7, <1>9, <1>11, PieceConcat
  <1>13. before \o file \o parameter = Piece(s, b, e)
    <2>1. Piece(s, b, end) \o parameter = Piece(s, b, e)
      BY <1>1, <1>7, <1>11, PieceConcat
    <2> QED BY <1>12, <2>1
  <1>14. Range(file) \cap Slash = {}
    <2>1. \A i \in start..end - 1 : s[i + 1] \notin Slash
      <3> SUFFICES ASSUME NEW i \in start..end - 1 PROVE s[i + 1] \notin Slash OBVIOUS
      <3>1. i \in b..end - 1 /\ slash < i BY <1>1, <1>7, <1>8, <1>9
      <3> QED BY <1>8, <3>1
    <2> QED BY <1>7, <1>9, <1>11, <2>1, PieceWithout
  <1>15. before = <<>> \/ Last(before) \in Slash
    <2>1. CASE start = b
      <3>1. Piece(s, b, b) = <<>> BY <1>1, PieceSmall
      <3> QED BY <2>1, <3>1
    <2>2. CASE start # b
      <3>1. /\ Len(before) = start - b
            /\ \A i \in 1..start - b : before[i] = s[b + i]
        BY <1>1, <1>9, <1>11, PieceIs
      <3>2. start - b \in 1..start - b /\ b + (start - b) = start BY <1>1, <1>9, <2>2
      <3>3. before[start - b] = s[start] BY <3>1, <3>2
      <3>4. s[start] \in Slash
        <4>1. slash + 1 = start /\ slash # -1 BY <1>9, <2>2
        <4> QED BY <1>8, <4>1
      <3> HIDE DEF before
      <3> QED BY <3>1, <3>3, <3>4 DEF Last
    <2> QED BY <2>1, <2>2
  <1>16. ASSUME NEW x \in Nat, b + 1 <= x, semicolon < x, x <= e
         PROVE  ";" \notin Range(Piece(s, x, e))
    <2>1. \A i \in x..e - 1 : s[i + 1] \notin {";"}
      <3> SUFFICES ASSUME NEW i \in x..e - 1 PROVE s[i + 1] \notin {";"} OBVIOUS
      <3>1. i \in first..e - 1 /\ semicolon < i BY <1>1, <1>16, <1>5
      <3> QED BY <1>4, <3>1
    <2>2. Range(Piece(s, x, e)) \cap {";"} = {}
      BY <1>1, <1>16, <2>1, PieceWithout
    <2> QED BY <2>2
  <1>17. IF parameter = <<>> THEN ";" \notin Range(Tail(before \o file))
         ELSE Head(parameter) = ";" /\ ";" \notin Range(Tail(parameter))
    <2>1. CASE end = e
      <3>1. parameter = <<>>
        <4>1. Piece(s, e, e) = <<>> BY <1>1, PieceSmall
        <4> QED BY <2>1, <4>1
      <3>2. Tail(Piece(s, b, e)) = Piece(s, b + 1, e)
        BY <1>1, PieceHead
      <3>3. ";" \notin Range(Piece(s, b + 1, e))
        <4>1. b + 1 \in Nat /\ b + 1 <= b + 1 /\ semicolon < b + 1 /\ b + 1 <= e
          BY <1>1, <1>7, <1>5, <2>1
        <4> QED BY <1>16, <4>1
      <3>4. ";" \notin Range(Tail(before \o file))
        BY <1>12, <2>1, <3>2, <3>3
      <3> HIDE DEF parameter, before, file
      <3> QED BY <3>1, <3>4
    <2>2. CASE end # e
      <3>1. end < e /\ end = semicolon BY <1>1, <1>7, <2>2
      <3>2. /\ parameter # <<>> /\ Head(parameter) = s[end + 1]
            /\ Tail(parameter) = Piece(s, end + 1, e)
        BY <1>1, <1>7, <3>1, PieceHead
      <3>3. s[end + 1] = ";" BY <1>7, <1>6, <3>1
      <3>4. ";" \notin Range(Piece(s, end + 1, e))
        <4>1. end + 1 \in Nat /\ b + 1 <= end + 1 /\ semicolon < end + 1 /\ end + 1 <= e
          BY <1>1, <1>7, <3>1
        <4> QED BY <1>16, <4>1
      <3> HIDE DEF parameter, before, file
      <3> QED BY <3>2, <3>3, <3>4
    <2> QED BY <2>1, <2>2
  <1> HIDE DEF parameter, before, file
  <1>18. /\ before = Piece(s, path.begin, name.begin)
         /\ file = Piece(s, name.begin, End(name))
         /\ parameter = Piece(s, End(name), End(path))
    BY <1>3, <1>10 DEF before, file, parameter
  <1>19. Piece(s, path.begin, End(path)) = before \o file \o parameter
    BY <1>3, <1>13
  <1> QED BY <1>14, <1>15, <1>17, <1>18, <1>19 DEF FileNameOf

(* So FileNameBeforeParameter holds of a text.                             *)
LEMMA FileNameBeforeParameterOf ==
    ASSUME IsText PROVE FileNameBeforeParameter
  <1> SUFFICES ASSUME job = "request" PROVE FileNameBeforeParameter
    BY DEF FileNameBeforeParameter
  <1> DEFINE t == TrimURL(text)
             r == ParseStandardURL(text)
             path == r.path
             name == ExtractFileName(text, path)
  <1>1. text \in Seq(STRING) BY DEF IsText
  <1>2. t.begin \in Nat /\ End(t) \in Nat /\ End(t) <= Len(text) /\ Len(text) \in Nat
    BY <1>1, TrimURLIs, LenProperties
  <1>3. IsPart(path, 0, Len(text))
    <2>1. Tiles(r, Components, text, t.begin, End(t)) BY <1>1, StandardTiles
    <2>2. IsPart(r["path"], t.begin, End(t)) BY <2>1 DEF Tiles, Components
    <2> HIDE DEF t, r
    <2> QED BY <1>2, <2>2 DEF IsPart, End
  <1>4. path.len <= 0 => name = Absent
    <2> HIDE DEF r
    <2> QED BY DEF ExtractFileName
  <1>5. path.len \in Int BY <1>3 DEF IsPart, Absent
  <1>6. ~(path.len <= 0) => FileNameOf(text, path, name)
    <2> HIDE DEF r
    <2>1. ~(path.len <= 0) => path.len > 0 BY <1>5
    <2> QED BY <1>1, <1>3, <2>1, FileNameIsCut
  <1> HIDE DEF path
  <1> QED BY <1>4, <1>6 DEF FileNameBeforeParameter, FileNameOf, Piece, path

(* FileNameBeforeParameter holds of every request text: the file name that *)
(* ExtractFileName finds in a path ends at the last semicolon of the path, *)
(* or at its end, and begins behind the last slash before that, however    *)
(* the slashes, backslashes and semicolons are placed.                     *)
THEOREM FileNamesEndAtParameter == Spec => []FileNameBeforeParameter
  BY TextKept, FileNameBeforeParameterOf, PTL

-----------------------------------------------------------------------------
(* Numbers in the memory of a message.                                     *)

(* d holds a value divided by 256 again and again.                         *)
Quotients(d, value, w) ==
    /\ d \in [0..w -> Nat]
    /\ d[0] = value
    /\ \A k \in 1..w : d[k] = d[k - 1] \div 256

(* Every value has them.                                                   *)
LEMMA QuotientsExist ==
    ASSUME NEW value \in Nat, NEW w \in Nat
    PROVE  \E d : Quotients(d, value, w)
  <1> DEFINE g == [x \in (1..w) \X Nat |-> x[2] \div 256]
             p == [k \in 1..w |-> k - 1]
  <1>1. g \in [(1..w) \X Nat -> Nat]
    <2>1. \A x \in (1..w) \X Nat : x[2] \in Nat OBVIOUS
    <2>2. \A y \in Nat : y \div 256 \in Nat OBVIOUS
    <2> QED BY <2>1, <2>2
  <1>2. \A k \in 1..w : p[k] = k - 1 /\ p[k] \in 0..k - 1 OBVIOUS
  <1>3. \A k \in 1..w, y \in Nat : g[<<k, y>>] = y \div 256 OBVIOUS
  <1> HIDE DEF g, p
  <1>4. PICK d : Recursion(d, value, g, p, w, Nat)
    BY <1>1, <1>2, RecursionExists
  <1>5. d \in [0..w -> Nat] /\ d[0] = value BY <1>4 DEF Recursion
  <1>6. ASSUME NEW k \in 1..w PROVE d[k] = d[k - 1] \div 256
    <2>1. k - 1 \in 0..w /\ p[k] = k - 1 BY <1>2
    <2>2. d[k - 1] \in Nat BY <1>5, <2>1
    <2>3. d[k] = g[<<k, d[k - 1]>>] BY <1>4, <2>1 DEF Recursion
    <2> QED BY <1>3, <2>2, <2>3
  <1> QED BY <1>5, <1>6 DEF Quotients

(* A byte of a value is the remainder of one of them.                      *)
LEMMA ByteOfIs ==
    ASSUME NEW value \in Nat, NEW w \in Nat, NEW d, Quotients(d, value, w),
           NEW k \in 0..w
    PROVE  ByteOf(value, k) = d[k] % 256
  <1> DEFINE Is(r) == r = [i \in 0..k |-> IF i = 0 THEN value ELSE r[i - 1] \div 256]
             chosen == CHOOSE r : Is(r)
             e == [i \in 0..k |-> d[i]]
  <1>1. ByteOf(value, k) = chosen[k] % 256
    BY DEF ByteOf, Byte
  <1>2. Is(e)
    <2>1. ASSUME NEW i \in 0..k
          PROVE  d[i] = IF i = 0 THEN value ELSE e[i - 1] \div 256
      <3>1. CASE i = 0 BY <3>1 DEF Quotients
      <3>2. CASE i # 0
        <4>1. i \in 1..w /\ i - 1 \in 0..k BY <3>2
        <4>2. e[i - 1] = d[i - 1] BY <4>1
        <4>3. d[i] = d[i - 1] \div 256 BY <4>1 DEF Quotients
        <4> QED BY <3>2, <4>2, <4>3
      <3> QED BY <3>1, <3>2
    <2> QED BY <2>1
  <1>3. Is(chosen)
    <2> HIDE DEF Is, e
    <2> QED BY <1>2
  <1> HIDE DEF chosen
  <1>4. /\ chosen[0] = value
        /\ \A i \in 1..k : chosen[i] = chosen[i - 1] \div 256
    BY <1>3
  <1> DEFINE S == {i \in Nat : chosen[i] = d[i]}
  <1>5. \A i \in 0..k : i \in S
    <2>1. 0 \in S BY <1>4 DEF Quotients
    <2>2. ASSUME NEW i \in 1..k, i - 1 \in S PROVE i \in S
      <3>1. chosen[i - 1] = d[i - 1] /\ i \in 1..w BY <2>2
      <3>2. d[i] = d[i - 1] \div 256 BY <3>1 DEF Quotients
      <3> QED BY <1>4, <3>1, <3>2
    <2>3. k \in Nat OBVIOUS
    <2> HIDE DEF S
    <2> QED BY <2>1, <2>2, <2>3, InductionUpTo
  <1>6. chosen[k] = d[k] BY <1>5
  <1> QED BY <1>1, <1>6

(* A byte is one.                                                          *)
LEMMA ByteOfRange ==
    ASSUME NEW value \in Nat, NEW k \in Nat
    PROVE  ByteOf(value, k) \in 0..255
  <1>1. PICK d : Quotients(d, value, k) BY QuotientsExist
  <1>2. ByteOf(value, k) = d[k] % 256
    BY <1>1, ByteOfIs
  <1>3. d[k] \in Nat BY <1>1 DEF Quotients
  <1> QED BY <1>2, <1>3

(* The first byte of a number that fits into one is the number.            *)
LEMMA ByteOfFirst ==
    ASSUME NEW value \in 0..255
    PROVE  ByteOf(value, 0) = value
  <1>1. value \in Nat /\ 0 \in Nat OBVIOUS
  <1>2. PICK d : Quotients(d, value, 0) BY <1>1, QuotientsExist
  <1>3. ByteOf(value, 0) = d[0] % 256
    BY <1>1, <1>2, ByteOfIs
  <1>4. d[0] = value BY <1>2 DEF Quotients
  <1>5. value % 256 = value OBVIOUS
  <1> QED BY <1>3, <1>4, <1>5

(* What Get reads is a sum that starts with the most significant byte.     *)
LEMMA GetIs ==
    ASSUME NEW m, NEW at \in Nat, NEW w \in Nat, NEW t \in [0..w -> Int],
           t[0] = 0, \A k \in 1..w : t[k] = t[k - 1] * 256 + m[at + w - k]
    PROVE  Get(m, at, w) = t[w]
  <1> DEFINE Is(r) == r = [k \in 0..w |-> IF k = 0 THEN 0
                                          ELSE r[k - 1] * 256 + m[at + w - k]]
             top == CHOOSE r : Is(r)
  <1>1. Get(m, at, w) = top[w]
    BY DEF Get, Byte
  <1>2. Is(t)
    <2>1. ASSUME NEW k \in 0..w
          PROVE  t[k] = IF k = 0 THEN 0 ELSE t[k - 1] * 256 + m[at + w - k]
      <3>1. CASE k = 0 BY <3>1
      <3>2. CASE k # 0
        <4>1. k \in 1..w BY <3>2
        <4> QED BY <3>2, <4>1
      <3> QED BY <3>1, <3>2
    <2> QED BY <2>1
  <1>3. Is(top)
    <2> HIDE DEF Is
    <2> QED BY <1>2
  <1> HIDE DEF top
  <1>4. /\ top[0] = 0
        /\ \A k \in 1..w : top[k] = top[k - 1] * 256 + m[at + w - k]
    BY <1>3
  <1> DEFINE S == {k \in Nat : top[k] = t[k]}
  <1>5. \A k \in 0..w : k \in S
    <2>1. 0 \in S BY <1>4
    <2>2. ASSUME NEW k \in 1..w, k - 1 \in S PROVE k \in S
      <3>1. top[k - 1] = t[k - 1] BY <2>2
      <3> QED BY <1>4, <3>1
    <2> HIDE DEF S
    <2> QED BY <2>1, <2>2, InductionUpTo
  <1> QED BY <1>1, <1>5

(* The memory m holds the bytes of a value from an offset on.              *)
Holds(m, at, w, value) == \A i \in at..at + w - 1 : m[i] = ByteOf(value, i - at)

(* A value fits into w bytes.                                              *)
Fits(value, w) == value \in Nat /\ \A d : Quotients(d, value, w) => d[w] = 0

(* What is read is what was written, if it fits.                           *)
LEMMA GetHeld ==
    ASSUME NEW m, NEW at \in Nat, NEW w \in Nat, NEW value, Fits(value, w),
           Holds(m, at, w, value)
    PROVE  Get(m, at, w) = value
  <1>1. value \in Nat BY DEF Fits
  <1>2. PICK d : Quotients(d, value, w) BY <1>1, QuotientsExist
  <1> DEFINE t == [k \in 0..w |-> d[w - k]]
  <1>3. d \in [0..w -> Nat] /\ d[0] = value BY <1>2 DEF Quotients
  <1>4. t \in [0..w -> Int]
    <2>1. \A k \in 0..w : w - k \in 0..w OBVIOUS
    <2> QED BY <1>3, <2>1
  <1>5. t[0] = 0
    <2>1. d[w] = 0 BY <1>2 DEF Fits
    <2> QED BY <2>1
  <1>6. ASSUME NEW k \in 1..w PROVE t[k] = t[k - 1] * 256 + m[at + w - k]
    <2> DEFINE j == w - k
    <2>1. j \in 0..w /\ j + 1 \in 1..w /\ w - (k - 1) = j + 1 /\ k - 1 \in 0..w OBVIOUS
    <2>2. t[k] = d[j] /\ t[k - 1] = d[j + 1] BY <2>1
    <2>3. d[j + 1] = d[j] \div 256
      <3>1. d[j + 1] = d[j + 1 - 1] \div 256 BY <1>2, <2>1 DEF Quotients
      <3>2. j + 1 - 1 = j BY <2>1
      <3> QED BY <3>1, <3>2
    <2>4. m[at + w - k] = ByteOf(value, j)
      <3>1. at + w - k \in at..at + w - 1 /\ at + w - k - at = j OBVIOUS
      <3> QED BY <3>1 DEF Holds
    <2>5. ByteOf(value, j) = d[j] % 256
      BY <1>1, <1>2, <2>1, ByteOfIs
    <2>6. d[j] \in Nat BY <1>3, <2>1
    <2> HIDE DEF t, j
    <2>7. d[j] = ((d[j] \div 256) * 256) + (d[j] % 256) BY <2>6
    <2> QED BY <2>2, <2>3, <2>4, <2>5, <2>7
  <1> HIDE DEF t
  <1>7. Get(m, at, w) = t[w] BY SMTT(30), <1>4, <1>5, <1>6, GetIs
  <1>8. t[w] = value BY <1>3 DEF t
  <1> QED BY <1>7, <1>8

(* c holds the powers of 256.                                              *)
Powers(c, n) ==
    /\ c \in [0..n -> Nat]
    /\ c[0] = 1
    /\ \A k \in 1..n : c[k] = 256 * c[k - 1]

(* Dividing by 256 takes one power away.                                   *)
LEMMA DivisionBound ==
    ASSUME NEW v \in Nat, NEW c \in Nat, v < 256 * c
    PROVE  v \div 256 < c
  OBVIOUS

(* A value below 256 to the power of n fits into n bytes, and into more.   *)
LEMMA FitsBelow ==
    ASSUME NEW value \in Nat, NEW w \in Nat, NEW n \in 0..w,
           NEW c, Powers(c, n), value < c[n]
    PROVE  Fits(value, w)
  <1>1. ASSUME NEW d, Quotients(d, value, w) PROVE d[w] = 0
    <2>1. /\ d \in [0..w -> Nat] /\ d[0] = value
          /\ \A k \in 1..w : d[k] = d[k - 1] \div 256
      BY <1>1 DEF Quotients
    <2>2. /\ c \in [0..n -> Nat] /\ c[0] = 1
          /\ \A k \in 1..n : c[k] = 256 * c[k - 1]
      BY DEF Powers
    <2> DEFINE S == {k \in Nat : d[k] < c[n - k]}
               T == {k \in Nat : n + k <= w => d[n + k] = 0}
    <2>3. \A k \in 0..n : k \in S
      <3>1. 0 \in S
        <4>1. n - 0 = n OBVIOUS
        <4> QED BY <2>1, <4>1
      <3>2. ASSUME NEW k \in 1..n, k - 1 \in S PROVE k \in S
        <4> DEFINE e == n - k
        <4>1. e \in 0..n /\ e + 1 \in 1..n /\ n - (k - 1) = e + 1 /\ k \in 1..w
              /\ k - 1 \in 0..w /\ e + 1 - 1 = e
          OBVIOUS
        <4>2. d[k - 1] < c[e + 1] BY <3>2, <4>1
        <4>3. c[e + 1] = 256 * c[e]
          <5> HIDE DEF e
          <5> DEFINE b == e + 1
          <5>1. b \in 1..n /\ b - 1 = e BY <4>1
          <5> HIDE DEF b
          <5>2. c[b] = 256 * c[e] BY <2>2, <5>1
          <5> QED BY <5>2 DEF b
        <4>4. d[k] = d[k - 1] \div 256 BY <2>1, <4>1
        <4>5. d[k - 1] \in Nat /\ c[e] \in Nat BY <2>1, <2>2, <4>1
        <4>6. d[k - 1] < 256 * c[e] BY <4>2, <4>3
        <4> HIDE DEF e
        <4>7. d[k - 1] \div 256 < c[e] BY <4>5, <4>6, DivisionBound
        <4>8. d[k] < c[e] BY <4>4, <4>7
        <4> QED BY <4>8 DEF e
      <3> HIDE DEF S
      <3> QED BY <3>1, <3>2, InductionUpTo
    <2>4. d[n] = 0
      <3>1. d[n] < c[n - n] BY <2>3
      <3>2. n - n = 0 /\ d[n] \in Nat BY <2>1
      <3> QED BY <2>2, <3>1, <3>2
    <2>5. \A k \in Nat : k \in T
      <3>1. 0 \in T
        <4>1. n + 0 = n OBVIOUS
        <4> QED BY <2>4, <4>1
      <3>2. ASSUME NEW k \in Nat, k \in T PROVE k + 1 \in T
        <4>1. SUFFICES ASSUME n + (k + 1) <= w PROVE d[n + (k + 1)] = 0 OBVIOUS
        <4> DEFINE e == n + k
        <4>2. e \in Nat /\ e + 1 \in 1..w /\ e + 1 - 1 = e /\ n + (k + 1) = e + 1 BY <4>1
        <4>3. d[e] = 0 BY <3>2, <4>1
        <4> HIDE DEF e
        <4> DEFINE b == e + 1
        <4>4. b \in 1..w /\ b - 1 = e BY <4>2
        <4> HIDE DEF b
        <4>5. d[b] = d[e] \div 256 BY <2>1, <4>4
        <4>6. 0 \div 256 = 0 OBVIOUS
        <4>7. d[b] = 0 BY <4>3, <4>5, <4>6
        <4> QED BY <4>2, <4>7 DEF b
      <3> HIDE DEF T
      <3> QED BY <3>1, <3>2, InductionOver
    <2>6. w - n \in Nat /\ n + (w - n) = w OBVIOUS
    <2>7. w - n \in T BY <2>5, <2>6
    <2> QED BY <2>6, <2>7
  <1> QED BY <1>1 DEF Fits

(* The numbers of uint16_t are those that fit into two bytes ...           *)
LEMMA FitsTwo == ASSUME NEW value \in Nat, value <= 65535 PROVE Fits(value, 2)
  <1> DEFINE c == [k \in 0..2 |-> IF k = 0 THEN 1 ELSE IF k = 1 THEN 256 ELSE 65536]
             n == 2
  <1>1. Powers(c, n)
    <2>1. c[0] = 1 /\ c[1] = 256 /\ c[2] = 65536 OBVIOUS
    <2>2. c \in [0..2 -> Nat] OBVIOUS
    <2> HIDE DEF c
    <2>3. \A k \in 1..2 : k = 1 \/ k = 2 OBVIOUS
    <2>4. \A k \in 1..2 : c[k] = 256 * c[k - 1] BY <2>1, <2>3, SMT
    <2> QED BY <2>1, <2>2, <2>4 DEF Powers
  <1>2. value < c[n] BY SMT
  <1> HIDE DEF c, n
  <1>3. n \in Nat /\ n \in 0..n BY DEF n
  <1>4. Fits(value, n) BY <1>1, <1>2, <1>3, FitsBelow
  <1> QED BY <1>4 DEF n

(* ... and those of uint32_t fit into four and eight.                      *)
LEMMA FitsFour ==
    ASSUME NEW value \in Nat, value <= 4294967295
    PROVE  Fits(value, 4) /\ Fits(value, 8)
  <1> DEFINE c == [k \in 0..4 |-> IF k = 0 THEN 1 ELSE IF k = 1 THEN 256
                     ELSE IF k = 2 THEN 65536 ELSE IF k = 3 THEN 16777216 ELSE 4294967296]
             n == 4
             w == 8
  <1>1. Powers(c, n)
    <2>1. c[0] = 1 /\ c[1] = 256 /\ c[2] = 65536 /\ c[3] = 16777216 /\ c[4] = 4294967296
      BY SMT
    <2>2. c \in [0..4 -> Nat] BY SMT
    <2> HIDE DEF c
    <2>3. \A k \in 1..4 : k = 1 \/ k = 2 \/ k = 3 \/ k = 4 OBVIOUS
    <2>4. \A k \in 1..4 : c[k] = 256 * c[k - 1] BY <2>1, <2>3, SMT
    <2> QED BY <2>1, <2>2, <2>4 DEF Powers
  <1>2. value < c[n] BY SMT
  <1> HIDE DEF c, n, w
  <1>3. n \in Nat /\ n \in 0..n /\ w \in Nat /\ n \in 0..w BY DEF n, w
  <1>4. Fits(value, n) BY <1>1, <1>2, <1>3, FitsBelow
  <1>5. Fits(value, w) BY <1>1, <1>2, <1>3, FitsBelow
  <1> QED BY <1>4, <1>5 DEF n, w

-----------------------------------------------------------------------------
(* The memory of a message.                                                *)

(* n bytes.                                                                *)
Memory(m, n) == m \in [0..n - 1 -> 0..255]

(* New memory is that, whatever it holds.                                  *)
LEMMA MemoryIs ==
    ASSUME NEW n \in Nat, NEW garbage \in 0..255
    PROVE  Memory(zmq_msg_init_size(n, garbage), n)
  BY DEF Memory, zmq_msg_init_size

(* p is m but for the bytes from an offset on.                             *)
SameBut(p, m, n, at, w) == \A i \in 0..n - 1 : i < at \/ i >= at + w => p[i] = m[i]

(* What Put writes, and what it leaves alone.                              *)
LEMMA PutIs ==
    ASSUME NEW n \in Nat, NEW m, Memory(m, n), NEW at \in Nat, NEW w \in Nat,
           at + w <= n, NEW value \in Nat
    PROVE  /\ Memory(Put(m, at, w, value), n)
           /\ Holds(Put(m, at, w, value), at, w, value)
           /\ SameBut(Put(m, at, w, value), m, n, at, w)
  <1> DEFINE p == Put(m, at, w, value)
  <1>1. p = [i \in 0..n - 1 |-> IF i \in at..at + w - 1 THEN ByteOf(value, i - at) ELSE m[i]]
    BY DEF Put, Memory
  <1> HIDE DEF p
  <1>2. Memory(p, n)
    <2>1. ASSUME NEW i \in 0..n - 1
          PROVE  (IF i \in at..at + w - 1 THEN ByteOf(value, i - at) ELSE m[i]) \in 0..255
      <3>1. CASE i \in at..at + w - 1
        <4>1. i - at \in Nat BY <3>1
        <4> DEFINE k == i - at
        <4>2. k \in Nat BY <4>1
        <4> HIDE DEF k
        <4>3. ByteOf(value, k) \in 0..255 BY <4>2, ByteOfRange
        <4> QED BY <3>1, <4>3 DEF k
      <3>2. CASE i \notin at..at + w - 1
        BY <3>2 DEF Memory
      <3> QED BY <3>1, <3>2
    <2> QED BY <1>1, <2>1 DEF Memory
  <1>3. Holds(p, at, w, value)
    <2>1. \A i \in at..at + w - 1 : i \in 0..n - 1 OBVIOUS
    <2>2. \A i \in at..at + w - 1 : p[i] = ByteOf(value, i - at) BY <1>1, <2>1
    <2> QED BY <2>2 DEF Holds
  <1>4. ASSUME NEW i \in 0..n - 1, i < at \/ i >= at + w PROVE p[i] = m[i]
    <2>1. i \notin at..at + w - 1 BY <1>4
    <2> QED BY <1>1, <2>1
  <1>5. p = Put(m, at, w, value) BY DEF p
  <1>6. SameBut(p, m, n, at, w) BY <1>4 DEF SameBut
  <1> QED BY <1>2, <1>3, <1>5, <1>6

(* What memory holds it holds after a write to another place.              *)
LEMMA PutKeeps ==
    ASSUME NEW n \in Nat, NEW m, Memory(m, n), NEW at \in Nat, NEW w \in Nat,
           at + w <= n, NEW value \in Nat,
           NEW a \in Nat, NEW v \in Nat, NEW x, a + v <= n, Holds(m, a, v, x),
           a + v <= at \/ at + w <= a
    PROVE  Holds(Put(m, at, w, value), a, v, x)
  <1> DEFINE p == Put(m, at, w, value)
  <1>1. \A i \in 0..n - 1 : i < at \/ i >= at + w => p[i] = m[i]
    BY PutIs DEF SameBut
  <1> HIDE DEF p
  <1>2. ASSUME NEW i \in a..a + v - 1 PROVE p[i] = ByteOf(x, i - a)
    <2>1. i \in 0..n - 1 /\ (i < at \/ i >= at + w) OBVIOUS
    <2>2. p[i] = m[i] BY <1>1, <2>1
    <2> QED BY <2>2 DEF Holds
  <1>3. Holds(p, a, v, x) BY <1>2 DEF Holds
  <1> QED BY <1>3 DEF p

(* The header names the length of the block.                               *)
LEMMA HeaderIs ==
    ASSUME NEW n \in Nat, 8 <= n, NEW m, Memory(m, n), NEW blockLength \in Nat,
           NEW templateId \in Nat
    PROVE  /\ Memory(WriteHeader(m, blockLength, templateId), n)
           /\ Holds(WriteHeader(m, blockLength, templateId), 0, 2, blockLength)
  <1> DEFINE m1 == Put(m, 0, 2, blockLength)
             m2 == Put(m1, 2, 2, templateId)
             m3 == Put(m2, 4, 2, 1)
             m4 == Put(m3, 6, 2, 0)
  <1>1. WriteHeader(m, blockLength, templateId) = m4
    BY DEF WriteHeader, SchemaId, SchemaVersion
  <1> HIDE DEF m4
  <1>2. Memory(m1, n) /\ Holds(m1, 0, 2, blockLength) BY PutIs
  <1> HIDE DEF m1
  <1>3. Memory(m2, n) BY <1>2, PutIs
  <1>4. Holds(m2, 0, 2, blockLength) BY <1>2, PutKeeps
  <1> HIDE DEF m2
  <1>5. Memory(m3, n) BY <1>3, PutIs
  <1>6. Holds(m3, 0, 2, blockLength) BY <1>3, <1>4, PutKeeps
  <1> HIDE DEF m3
  <1>7. Memory(m4, n) BY <1>5, PutIs DEF m4
  <1>8. Holds(m4, 0, 2, blockLength) BY <1>5, <1>6, PutKeeps DEF m4
  <1> QED BY <1>1, <1>7, <1>8

(* The cursor behind a block.                                              *)
LEMMA CursorIs ==
    ASSUME NEW m, NEW b \in Nat, b <= 65535, Holds(m, 0, 2, b)
    PROVE  wrapForDecode(m) = 8 + b
  <1>1. Fits(b, 2) BY FitsTwo
  <1>2. Get(m, 0, 2) = b BY <1>1, GetHeld
  <1> QED BY <1>2 DEF wrapForDecode, BlockLength, HeaderSize

(* The fields of both blocks, by what the codecs call them.                *)
LEMMA FieldsAre ==
    /\ RequestField.handle[1] = 0 /\ RequestField.handle[2] = 8
    /\ RequestField.rwfVersion[1] = 8 /\ RequestField.rwfVersion[2] = 2
    /\ RequestField.token[1] = 10 /\ RequestField.token[2] = 4
    /\ RequestField.serviceId[1] = 14 /\ RequestField.serviceId[2] = 2
    /\ ReplyField.handle[1] = 0 /\ ReplyField.handle[2] = 8
    /\ ReplyField.token[1] = 8 /\ ReplyField.token[2] = 4
  BY DEF RequestField, ReplyField

(* A request whose numbers fit into their fields.                          *)
RequestFits(r) ==
    /\ Fits(r.handle, 8) /\ Fits(r.rwfVersion, 2) /\ Fits(r.token, 4) /\ Fits(r.serviceId, 2)
    /\ r.attrib \in BOOLEAN
    /\ r.itemName \in Seq(0..255) /\ Len(r.itemName) < 256

(* A message that holds the header and the numbers of a request ...        *)
HoldsRequest(m, r) ==
    /\ Holds(m, 0, 2, 17) /\ Holds(m, 8, 8, r.handle) /\ Holds(m, 16, 2, r.rwfVersion)
    /\ Holds(m, 18, 4, r.token) /\ Holds(m, 22, 2, r.serviceId)

(* ... and of a reply.                                                     *)
HoldsReply(m, r) ==
    Holds(m, 0, 2, 12) /\ Holds(m, 8, 8, r.handle) /\ Holds(m, 16, 4, r.token)

(* The block of a request keeps the header and the fields before it.       *)
LEMMA BlockIs ==
    ASSUME NEW n \in Nat, 25 <= n, NEW m, Memory(m, n), Holds(m, 0, 2, 17),
           NEW r, RequestFits(r)
    PROVE  Memory(PutBlock(m, r), n) /\ HoldsRequest(PutBlock(m, r), r)
  <1> DEFINE h == r.handle
             f == r.rwfVersion
             t == r.token
             s == r.serviceId
             m1 == Put(m, 8, 8, h)
             m2 == Put(m1, 16, 2, f)
             m3 == Put(m2, 18, 4, t)
             m4 == Put(m3, 22, 2, s)
  <1>1. PutBlock(m, r) = m4
    <2>1. /\ 8 + RequestField.handle[1] = 8 /\ 8 + RequestField.rwfVersion[1] = 16
          /\ 8 + RequestField.token[1] = 18 /\ 8 + RequestField.serviceId[1] = 22
      BY FieldsAre
    <2> QED BY <2>1, FieldsAre DEF PutBlock, PutField, HeaderSize
  <1>2. /\ h \in Nat /\ f \in Nat /\ t \in Nat /\ s \in Nat
        /\ 8 + 8 <= n /\ 16 + 2 <= n /\ 18 + 4 <= n /\ 22 + 2 <= n
        /\ 2 \in Nat /\ 4 \in Nat /\ 8 \in Nat /\ 16 \in Nat /\ 18 \in Nat /\ 22 \in Nat
    BY DEF RequestFits, Fits
  <1> HIDE DEF m4, h, f, t, s
  <1>3. Memory(m1, n) /\ Holds(m1, 8, 8, h) BY <1>2, PutIs
  <1>4. Holds(m1, 0, 2, 17) BY <1>2, PutKeeps
  <1> HIDE DEF m1
  <1>5. Memory(m2, n) /\ Holds(m2, 16, 2, f) BY <1>2, <1>3, PutIs
  <1>6. Holds(m2, 0, 2, 17) BY <1>2, <1>3, <1>4, PutKeeps
  <1>7. Holds(m2, 8, 8, h) BY <1>2, <1>3, PutKeeps
  <1> HIDE DEF m2
  <1>8. Memory(m3, n) /\ Holds(m3, 18, 4, t) BY <1>2, <1>5, PutIs
  <1>9. Holds(m3, 0, 2, 17) BY <1>2, <1>5, <1>6, PutKeeps
  <1>10. Holds(m3, 8, 8, h) BY SMTT(30), <1>2, <1>5, <1>7, PutKeeps
  <1>11. Holds(m3, 16, 2, f) BY <1>2, <1>5, PutKeeps
  <1> HIDE DEF m3
  <1>12. Memory(m4, n) /\ Holds(m4, 22, 2, s) BY <1>2, <1>8, PutIs DEF m4
  <1>13. Holds(m4, 0, 2, 17) BY <1>2, <1>8, <1>9, PutKeeps DEF m4
  <1>14. Holds(m4, 8, 8, h) BY SMTT(30), <1>2, <1>8, <1>10, PutKeeps DEF m4
  <1>15. Holds(m4, 16, 2, f) BY SMTT(30), <1>2, <1>8, <1>11, PutKeeps DEF m4
  <1>16. Holds(m4, 18, 4, t) BY <1>2, <1>8, PutKeeps DEF m4
  <1> QED
    BY <1>1, <1>12, <1>13, <1>14, <1>15, <1>16 DEF HoldsRequest, h, f, t, s

(* That of a reply does.                                                   *)
LEMMA ReplyBlockIs ==
    ASSUME NEW n \in Nat, 20 <= n, NEW m, Memory(m, n), Holds(m, 0, 2, 12),
           NEW r, Fits(r.handle, 8), Fits(r.token, 4)
    PROVE  LET p == PutField(PutField(m, ReplyField.handle, r.handle), ReplyField.token, r.token)
           IN  Memory(p, n) /\ HoldsReply(p, r)
  <1> DEFINE h == r.handle
             t == r.token
             m1 == Put(m, 8, 8, h)
             m2 == Put(m1, 16, 4, t)
  <1>1. PutField(PutField(m, ReplyField.handle, r.handle), ReplyField.token, r.token) = m2
    <2>1. 8 + ReplyField.handle[1] = 8 /\ 8 + ReplyField.token[1] = 16
      BY FieldsAre
    <2> QED BY <2>1, FieldsAre DEF PutField, HeaderSize
  <1>2. /\ h \in Nat /\ t \in Nat /\ 8 + 8 <= n /\ 16 + 4 <= n
        /\ 4 \in Nat /\ 8 \in Nat /\ 16 \in Nat
        /\ 0 \in Nat /\ 2 \in Nat /\ 0 + 2 <= n /\ 0 + 2 <= 8
    BY DEF Fits
  <1> HIDE DEF m2, h, t
  <1>3. Memory(m1, n) /\ Holds(m1, 8, 8, h) BY <1>2, PutIs
  <1>4. Holds(m1, 0, 2, 12) BY <1>2, PutKeeps
  <1> HIDE DEF m1
  <1>5. Memory(m2, n) /\ Holds(m2, 16, 4, t) BY <1>2, <1>3, PutIs DEF m2
  <1>6. Holds(m2, 0, 2, 12) BY <1>2, <1>3, <1>4, PutKeeps DEF m2
  <1>7. Holds(m2, 8, 8, h) BY <1>2, <1>3, PutKeeps DEF m2
  <1> QED BY <1>1, <1>5, <1>6, <1>7 DEF HoldsReply, h, t

(* A byte written where the flags are.                                     *)
FlagsWritten(p, m, n, b) == Memory(p, n) /\ p[24] = b /\ \A i \in 0..23 : p[i] = m[i]

(* Put at 24 (the flag byte is the 25th of a reply) writes that byte and   *)
(* leaves the ones before it alone.                                        *)
LEMMA FlagsPut ==
    ASSUME NEW n \in Nat, 25 <= n, NEW m, Memory(m, n), NEW b \in 0..255
    PROVE  FlagsWritten(Put(m, 24, 1, b), m, n, b)
  <1> DEFINE p == Put(m, 24, 1, b)
  <1>1. Memory(p, n) /\ Holds(p, 24, 1, b) /\ SameBut(p, m, n, 24, 1)
    BY PutIs
  <1> HIDE DEF p
  <1>2. p[24] = ByteOf(b, 0)
    <2>1. 24 \in 24..24 + 1 - 1 /\ 24 - 24 = 0 OBVIOUS
    <2> QED BY <1>1, <2>1 DEF Holds
  <1>3. ByteOf(b, 0) = b BY ByteOfFirst
  <1>4. \A i \in 0..23 : i \in 0..n - 1 /\ i < 24 OBVIOUS
  <1>5. FlagsWritten(p, m, n, b)
    BY <1>1, <1>2, <1>3, <1>4 DEF SameBut, FlagsWritten
  <1> QED BY <1>5 DEF p

(* The flags are cleared before they are set.                              *)
LEMMA FlagsCleared ==
    ASSUME NEW n \in Nat, 25 <= n, NEW m, Memory(m, n)
    PROVE  FlagsWritten(ClearFlags(m), m, n, 0)
  <1>1. 8 + 16 = 24 /\ 0 \in 0..255 OBVIOUS
  <1>2. ClearFlags(m) = Put(m, 24, 1, 0)
    BY <1>1 DEF ClearFlags, HeaderSize, FlagsOffset
  <1> QED BY <1>1, <1>2, FlagsPut

(* A flag is set where none was.                                           *)
LEMMA FlagSet ==
    ASSUME NEW n \in Nat, 25 <= n, NEW m, Memory(m, n), m[24] = 0,
           NEW bit \in {1, 2}, NEW value \in BOOLEAN
    PROVE  FlagsWritten(SetFlag(m, bit, value), m, n, IF value THEN bit ELSE 0)
  <1>1. 8 + 16 = 24 OBVIOUS
  <1>2. FlagsOf(m) = 0 BY <1>1 DEF FlagsOf, HeaderSize, FlagsOffset
  <1>3. ~HasFlag(m, bit) /\ HasFlag(m, bit) \in BOOLEAN
    <2>1. (0 \div bit) % 2 = 0
      <3>1. CASE bit = 1 BY <3>1
      <3>2. CASE bit = 2 BY <3>2
      <3> QED BY <3>1, <3>2
    <2> QED BY <1>2, <2>1 DEF HasFlag
  <1>4. CASE ~value
    <2>1. HasFlag(m, bit) = value BY <1>3, <1>4
    <2>2. SetFlag(m, bit, value) = m BY <2>1 DEF SetFlag
    <2> QED BY <1>4, <2>2 DEF FlagsWritten
  <1>5. CASE value
    <2>1. SetFlag(m, bit, value) = Put(m, 24, 1, bit)
      <3>1. 0 + bit = bit OBVIOUS
      <3>2. HasFlag(m, bit) # value BY <1>3, <1>5
      <3> QED BY <1>1, <1>2, <1>5, <3>1, <3>2 DEF SetFlag, HeaderSize, FlagsOffset
    <2>2. bit \in 0..255 OBVIOUS
    <2>3. FlagsWritten(Put(m, 24, 1, bit), m, n, bit)
      BY <2>2, FlagsPut
    <2> QED BY <1>5, <2>1, <2>3
  <1> QED BY <1>4, <1>5

(* p is m with a text from pos to its end, and that is what is read of it. *)
TextWritten(p, m, n, pos, s) ==
    /\ Memory(p, n)
    /\ \A i \in 0..pos - 1 : p[i] = m[i]
    /\ TakeText(p, pos).text = s
    /\ TakeText(p, pos).end = n
    /\ ~Throws(p, n)

(* A text of at most 255 bytes is read as it was written, to the last byte *)
(* of the memory.                                                          *)
LEMMA TextIs ==
    ASSUME NEW n \in Nat, NEW m, Memory(m, n), NEW pos \in Nat,
           NEW s \in Seq(0..255), Len(s) < 256, n = pos + 1 + Len(s)
    PROVE  TextWritten(PutText(m, pos, s), m, n, pos, s)
  <1> DEFINE l == Len(s)
             p == PutText(m, pos, s)
  <1>1. l \in 0..255 /\ l % 256 = l /\ n = pos + 1 + l
    <2>1. l \in Nat BY LenProperties
    <2>2. l < 256 /\ n = pos + 1 + l OBVIOUS
    <2> HIDE DEF l
    <2>3. l \in 0..255 BY <2>1, <2>2
    <2>4. l % 256 = l BY <2>3
    <2> QED BY <2>3, <2>4, <2>2
  <1>2. \A i \in 1..l : s[i] \in 0..255 BY ElementOfSeq
  <1>3. p = [i \in 0..n - 1 |-> IF i = pos THEN l % 256
                                ELSE IF i \in pos + 1..pos + l THEN s[i - pos] ELSE m[i]]
    BY DEF PutText, LengthSize, Byte, Memory
  <1>4. \A k \in 1..l : s[k] = s[k + pos - pos] OBVIOUS
  <1>5. s = [i \in 1..l |-> s[i]] OBVIOUS
  <1> HIDE DEF l, p
  <1>6. Memory(p, n)
    <2>1. ASSUME NEW i \in 0..n - 1
          PROVE  (IF i = pos THEN l % 256
                  ELSE IF i \in pos + 1..pos + l THEN s[i - pos] ELSE m[i]) \in 0..255
      <3>1. CASE i = pos BY <1>1, <3>1
      <3>2. CASE i # pos /\ i \in pos + 1..pos + l
        <4>1. i - pos \in 1..l BY <1>1, <3>2
        <4> QED BY <1>2, <3>2, <4>1
      <3>3. CASE i # pos /\ i \notin pos + 1..pos + l
        BY <3>3 DEF Memory
      <3> QED BY <3>1, <3>2, <3>3
    <2> QED BY <1>3, <2>1 DEF Memory
  <1>7. ASSUME NEW i \in 0..pos - 1 PROVE p[i] = m[i]
    <2>1. i \in 0..n - 1 /\ i # pos /\ i \notin pos + 1..pos + l BY <1>1
    <2> QED BY <1>3, <2>1
  <1>8. p[pos] = l
    <2>1. pos \in 0..n - 1 BY <1>1
    <2> QED BY <1>1, <1>3, <2>1
  <1>9. ASSUME NEW i \in 1..l PROVE p[pos + i] = s[i]
    <2> DEFINE j == pos + i
    <2>1. j \in 0..n - 1 /\ j # pos /\ j \in pos + 1..pos + l /\ j - pos = i BY <1>1
    <2> HIDE DEF j
    <2>2. p[j] = s[j - pos] BY <1>3, <2>1
    <2> QED BY <2>1, <2>2 DEF j
  <1>10. TakeText(p, pos).text = s
    <2>1. TakeText(p, pos).text = [i \in 1..p[pos] |-> p[pos + i]]
      BY DEF TakeText
    <2>2. [i \in 1..l |-> p[pos + i]] = [i \in 1..l |-> s[i]] BY <1>9
    <2> QED BY <1>5, <1>8, <2>1, <2>2
  <1>11. TakeText(p, pos).end = n
    <2>1. TakeText(p, pos).end = pos + 1 + p[pos] BY DEF TakeText, LengthSize
    <2> QED BY <1>1, <1>8, <2>1
  <1>12. ~Throws(p, n)
    <2>1. DOMAIN p = 0..n - 1 BY <1>3
    <2>2. Cardinality(0..n - 1) = n
      <3> DEFINE b == n - 1
      <3>1. b \in Int /\ 0 \in Int OBVIOUS
      <3> HIDE DEF b
      <3>2. Cardinality(0..b) = IF 0 > b THEN 0 ELSE b - 0 + 1
        BY <3>1, FS_Interval
      <3>3. (IF 0 > b THEN 0 ELSE b - 0 + 1) = n BY DEF b
      <3> QED BY <3>2, <3>3 DEF b
    <2> QED BY <2>1, <2>2 DEF Throws
  <1>13. TextWritten(p, m, n, pos, s)
    BY <1>6, <1>7, <1>10, <1>11, <1>12 DEF TextWritten
  <1> QED BY <1>13 DEF p

(* Equal memory holds the same.                                            *)
LEMMA HoldsSame ==
    ASSUME NEW m, NEW p, NEW b \in Nat, \A i \in 0..b - 1 : p[i] = m[i],
           NEW a \in Nat, NEW v \in Nat, a + v <= b, NEW x, Holds(m, a, v, x)
    PROVE  Holds(p, a, v, x)
  <1>1. \A i \in a..a + v - 1 : i \in 0..b - 1 OBVIOUS
  <1> QED BY <1>1 DEF Holds

(* What a worker makes of a request: no field is another than it was.      *)
TaskIs(task, r) ==
    /\ task.kind = "request"
    /\ task.handle = r.handle /\ task.rwfVersion = r.rwfVersion /\ task.token = r.token
    /\ task.serviceId = r.serviceId /\ task.attrib = r.attrib /\ task.itemName = r.itemName

(* A finished message, read.                                               *)
LEMMA RequestRead ==
    ASSUME NEW n \in Nat, NEW p, NEW r, RequestFits(r), HoldsRequest(p, r),
           p[24] = IF r.attrib THEN 2 ELSE 0,
           TakeText(p, 25).text = r.itemName, TakeText(p, 25).end = n, ~Throws(p, n)
    PROVE  TaskIs(TakeTask(p), r)
  <1>1. wrapForDecode(p) = 25
    <2>1. wrapForDecode(p) = 8 + 17
      <3> DEFINE b == 17
      <3>1. b \in Nat /\ b <= 65535 /\ Holds(p, 0, 2, b) BY SMT DEF HoldsRequest
      <3> HIDE DEF b
      <3>2. wrapForDecode(p) = 8 + b BY <3>1, CursorIs
      <3> QED BY <3>2 DEF b
    <2> QED BY <2>1
  <1>2. FlagsOf(p) = p[24]
    <2>1. 8 + 16 = 24 OBVIOUS
    <2> QED BY <2>1 DEF FlagsOf, HeaderSize, FlagsOffset
  <1>3. ~HasFlag(p, AbortBit)
    <2>1. (0 \div 1) % 2 = 0 /\ (2 \div 1) % 2 = 0 OBVIOUS
    <2>2. p[24] = 2 \/ p[24] = 0 OBVIOUS
    <2>3. (p[24] \div 1) % 2 = 0 BY <2>1, <2>2
    <2> QED BY <1>2, <2>3 DEF HasFlag, AbortBit
  <1>4. HasFlag(p, AttribBit) = r.attrib
    <2>1. (0 \div 2) % 2 = 0 /\ (2 \div 2) % 2 = 1 OBVIOUS
    <2>2. r.attrib \in BOOLEAN BY DEF RequestFits
    <2>3. CASE r.attrib
      BY <1>2, <2>1, <2>3 DEF HasFlag, AttribBit
    <2>4. CASE ~r.attrib
      <3>1. p[24] = 0 BY <2>4
      <3>2. HasFlag(p, AttribBit) = FALSE
        BY <1>2, <2>1, <3>1 DEF HasFlag, AttribBit
      <3> QED BY <2>2, <2>4, <3>2
    <2> QED BY <2>2, <2>3, <2>4
  <1>5. GetField(p, RequestField.handle) = r.handle
    <2>1. GetField(p, RequestField.handle) = Get(p, 8, 8)
      <3>1. 8 + RequestField.handle[1] = 8 BY FieldsAre
      <3> QED BY <3>1, FieldsAre DEF GetField, HeaderSize
    <2>2. Holds(p, 8, 8, r.handle) /\ Fits(r.handle, 8) BY DEF HoldsRequest, RequestFits
    <2> QED BY <2>1, <2>2, GetHeld
  <1>6. GetField(p, RequestField.rwfVersion) = r.rwfVersion
    <2>1. GetField(p, RequestField.rwfVersion) = Get(p, 16, 2)
      <3>1. 8 + RequestField.rwfVersion[1] = 16 BY FieldsAre
      <3> QED BY <3>1, FieldsAre DEF GetField, HeaderSize
    <2>2. Holds(p, 16, 2, r.rwfVersion) /\ Fits(r.rwfVersion, 2)
      BY DEF HoldsRequest, RequestFits
    <2> QED BY <2>1, <2>2, GetHeld
  <1>7. GetField(p, RequestField.token) = r.token
    <2>1. GetField(p, RequestField.token) = Get(p, 18, 4)
      <3>1. 8 + RequestField.token[1] = 18 BY FieldsAre
      <3> QED BY <3>1, FieldsAre DEF GetField, HeaderSize
    <2>2. Holds(p, 18, 4, r.token) /\ Fits(r.token, 4) BY DEF HoldsRequest, RequestFits
    <2> QED BY <2>1, <2>2, GetHeld
  <1>8. GetField(p, RequestField.serviceId) = r.serviceId
    <2>1. GetField(p, RequestField.serviceId) = Get(p, 22, 2)
      <3>1. 8 + RequestField.serviceId[1] = 22 BY FieldsAre
      <3> QED BY <3>1, FieldsAre DEF GetField, HeaderSize
    <2>2. Holds(p, 22, 2, r.serviceId) /\ Fits(r.serviceId, 2)
      BY DEF HoldsRequest, RequestFits
    <2> QED BY <2>1, <2>2, GetHeld
  <1> DEFINE task == [kind |-> "request",
                      handle |-> GetField(p, RequestField.handle),
                      rwfVersion |-> GetField(p, RequestField.rwfVersion),
                      token |-> GetField(p, RequestField.token),
                      serviceId |-> GetField(p, RequestField.serviceId),
                      attrib |-> HasFlag(p, AttribBit),
                      itemName |-> TakeText(p, 25).text]
  <1>9. TakeTask(p) = task
    BY <1>1, <1>3 DEF TakeTask
  <1>10. TaskIs(task, r)
    BY <1>4, <1>5, <1>6, <1>7, <1>8 DEF TaskIs
  <1> QED BY <1>9, <1>10

(* Equal memory holds the same request.                                    *)
LEMMA RequestSame ==
    ASSUME NEW m, NEW p, NEW r, HoldsRequest(m, r), \A i \in 0..23 : p[i] = m[i]
    PROVE  HoldsRequest(p, r)
  <1> DEFINE b == 24
  <1>1. \A i \in 0..b - 1 : p[i] = m[i]
    <2>1. b - 1 = 23 OBVIOUS
    <2> QED BY <2>1
  <1>2. /\ b \in Nat /\ 0 + 2 <= b /\ 8 + 8 <= b /\ 16 + 2 <= b /\ 18 + 4 <= b /\ 22 + 2 <= b
        /\ 0 \in Nat /\ 2 \in Nat /\ 4 \in Nat /\ 8 \in Nat /\ 16 \in Nat /\ 18 \in Nat
        /\ 22 \in Nat
    OBVIOUS
  <1>3. /\ Holds(m, 0, 2, 17) /\ Holds(m, 8, 8, r.handle) /\ Holds(m, 16, 2, r.rwfVersion)
        /\ Holds(m, 18, 4, r.token) /\ Holds(m, 22, 2, r.serviceId)
    BY DEF HoldsRequest
  <1> HIDE DEF b
  <1>4. Holds(p, 0, 2, 17) BY <1>1, <1>2, <1>3, HoldsSame
  <1>5. Holds(p, 8, 8, r.handle) BY <1>1, <1>2, <1>3, HoldsSame
  <1>6. Holds(p, 16, 2, r.rwfVersion) BY <1>1, <1>2, <1>3, HoldsSame
  <1>7. Holds(p, 18, 4, r.token) BY <1>1, <1>2, <1>3, HoldsSame
  <1>8. Holds(p, 22, 2, r.serviceId) BY <1>1, <1>2, <1>3, HoldsSame
  <1> QED BY <1>4, <1>5, <1>6, <1>7, <1>8 DEF HoldsRequest

(* The memory of a request before its text is written.                     *)
LEMMA RequestWritten ==
    ASSUME NEW r, RequestFits(r), NEW garbage \in 0..255, NEW n \in Nat, 25 <= n
    PROVE  LET block == PutBlock(WriteHeader(zmq_msg_init_size(n, garbage), 17, 1), r)
               p == SetFlag(SetFlag(ClearFlags(block), 1, FALSE), 2, r.attrib)
           IN  Memory(p, n) /\ HoldsRequest(p, r) /\ p[24] = IF r.attrib THEN 2 ELSE 0
  <1> DEFINE m == zmq_msg_init_size(n, garbage)
             m1 == WriteHeader(m, 17, 1)
             m2 == PutBlock(m1, r)
             m3 == ClearFlags(m2)
             m4 == SetFlag(m3, 1, FALSE)
             a == r.attrib
             m5 == SetFlag(m4, 2, a)
  <1>1. Memory(m, n) BY MemoryIs
  <1> HIDE DEF m
  <1>2. Memory(m1, n) /\ Holds(m1, 0, 2, 17)
    <2>1. 8 <= n OBVIOUS
    <2> QED BY <1>1, <2>1, HeaderIs
  <1> HIDE DEF m1
  <1>3. Memory(m2, n) /\ HoldsRequest(m2, r) BY <1>2, BlockIs
  <1> HIDE DEF m2
  <1>4. FlagsWritten(m3, m2, n, 0) BY <1>3, FlagsCleared
  <1> HIDE DEF m3
  <1>5. FlagsWritten(m4, m3, n, 0)
    <2>1. Memory(m3, n) /\ m3[24] = 0 BY <1>4 DEF FlagsWritten
    <2> DEFINE bit == 1
               value == FALSE
               q == SetFlag(m3, bit, value)
    <2>2. bit \in {1, 2} /\ value \in BOOLEAN OBVIOUS
    <2>3. (IF value THEN bit ELSE 0) = 0 OBVIOUS
    <2>4. m4 = q BY DEF m4
    <2> HIDE DEF bit, value
    <2>5. FlagsWritten(q, m3, n, IF value THEN bit ELSE 0) BY <2>1, <2>2, FlagSet
    <2> HIDE DEF q
    <2> QED BY <2>3, <2>4, <2>5
  <1> HIDE DEF m4
  <1>6. FlagsWritten(m5, m4, n, IF a THEN 2 ELSE 0)
    <2>1. Memory(m4, n) /\ m4[24] = 0 BY <1>5 DEF FlagsWritten
    <2>2. a \in BOOLEAN BY DEF RequestFits
    <2> DEFINE bit == 2
    <2>3. bit \in {1, 2} OBVIOUS
    <2> HIDE DEF a, bit
    <2>4. FlagsWritten(SetFlag(m4, bit, a), m4, n, IF a THEN bit ELSE 0)
      BY <2>1, <2>2, <2>3, FlagSet
    <2> QED BY <2>4 DEF bit
  <1> HIDE DEF m5
  <1>7. Memory(m5, n) /\ m5[24] = IF a THEN 2 ELSE 0 BY <1>6 DEF FlagsWritten
  <1>8. \A i \in 0..23 : m5[i] = m2[i] BY <1>4, <1>5, <1>6 DEF FlagsWritten
  <1>9. HoldsRequest(m5, r) BY <1>3, <1>8, RequestSame
  <1> QED BY <1>7, <1>9 DEF m5, m4, m3, m2, m1, m, a

(* What hitsuji_t::OnRequest puts into a message, whatever its memory held,*)
(* is what worker_t::OnTask takes out of it: for every request whose       *)
(* numbers fit into their fields.                                          *)
THEOREM RequestArrives ==
    ASSUME NEW r, RequestFits(r), NEW garbage \in 0..255
    PROVE  TaskIs(TakeTask(EncodeRequest(r, garbage)), r)
  <1> DEFINE s == r.itemName
             n == 26 + Len(s)
             m == SetFlag(SetFlag(ClearFlags(PutBlock(
                      WriteHeader(zmq_msg_init_size(n, garbage), 17, 1), r)), 1, FALSE),
                          2, r.attrib)
             p == PutText(m, 25, s)
  <1>1. s \in Seq(0..255) /\ Len(s) < 256 BY DEF RequestFits
  <1>2. Len(s) \in Nat BY <1>1, LenProperties
  <1>3. n \in Nat /\ 25 <= n /\ n = 25 + 1 + Len(s) BY <1>2
  <1>4. EncodeRequest(r, garbage) = p
    <2>1. 8 + 17 + 1 + Len(s) = n /\ 8 + 17 = 25 BY <1>2
    <2> HIDE DEF n
    <2> QED
      BY <2>1 DEF EncodeRequest, HeaderSize, RequestBlock, RequestTemplate, LengthSize, AbortBit,
                  AttribBit
  <1> HIDE DEF n
  <1>5. Memory(m, n) /\ HoldsRequest(m, r) /\ m[24] = IF r.attrib THEN 2 ELSE 0
    BY <1>3, RequestWritten
  <1> HIDE DEF m, s
  <1>6. TextWritten(p, m, n, 25, s)
    <2> DEFINE pos == 25
    <2>1. pos \in Nat /\ n = pos + 1 + Len(s) BY <1>3
    <2> HIDE DEF pos
    <2>2. TextWritten(PutText(m, pos, s), m, n, pos, s) BY <1>1, <1>3, <1>5, <2>1, TextIs
    <2> QED BY <2>2 DEF pos
  <1> HIDE DEF p
  <1>7. \A i \in 0..24 : p[i] = m[i]
    <2>1. 25 - 1 = 24 OBVIOUS
    <2> QED BY <1>6, <2>1 DEF TextWritten
  <1>8. p[24] = IF r.attrib THEN 2 ELSE 0
    <2>1. 24 \in 0..24 OBVIOUS
    <2> QED BY <1>5, <1>7, <2>1
  <1>9. HoldsRequest(p, r)
    <2>1. \A i \in 0..23 : p[i] = m[i] BY <1>7
    <2> QED BY <1>5, <2>1, RequestSame
  <1>10. TakeText(p, 25).text = r.itemName /\ TakeText(p, 25).end = n /\ ~Throws(p, n)
    BY <1>6 DEF TextWritten, s
  <1>11. TaskIs(TakeTask(p), r) BY <1>3, <1>8, <1>9, <1>10, RequestRead
  <1> QED BY <1>4, <1>11

(* An abort is one: its first flag is all that is written and all that is  *)
(* read.                                                                   *)
THEOREM AbortArrives ==
    ASSUME NEW garbage \in 0..255
    PROVE  TakeTask(EncodeAbort(garbage)).kind = "abort"
  <1> DEFINE n == 25
             m == zmq_msg_init_size(n, garbage)
             m1 == WriteHeader(m, 17, 1)
             m2 == ClearFlags(m1)
             p == SetFlag(m2, 1, TRUE)
  <1>1. EncodeAbort(garbage) = p
    <2>1. 8 + 17 = 25 OBVIOUS
    <2> QED BY <2>1 DEF EncodeAbort, HeaderSize, RequestBlock, RequestTemplate, AbortBit
  <1>2. n \in Nat /\ 25 <= n /\ 8 <= n OBVIOUS
  <1> HIDE DEF n
  <1>3. Memory(m, n) BY <1>2, MemoryIs
  <1> HIDE DEF m
  <1>4. Memory(m1, n) BY <1>2, <1>3, HeaderIs
  <1> HIDE DEF m1
  <1>5. FlagsWritten(m2, m1, n, 0) BY <1>2, <1>4, FlagsCleared
  <1> HIDE DEF m2
  <1>6. p[24] = 1
    <2>1. Memory(m2, n) /\ m2[24] = 0 BY <1>5 DEF FlagsWritten
    <2> DEFINE bit == 1
               value == TRUE
               q == SetFlag(m2, bit, value)
    <2>2. bit \in {1, 2} /\ value \in BOOLEAN OBVIOUS
    <2>3. (IF value THEN bit ELSE 0) = 1 OBVIOUS
    <2>4. p = q BY DEF p
    <2> HIDE DEF bit, value
    <2>5. FlagsWritten(q, m2, n, IF value THEN bit ELSE 0) BY <1>2, <2>1, <2>2, FlagSet
    <2> HIDE DEF q
    <2> QED BY <2>3, <2>4, <2>5 DEF FlagsWritten
  <1> HIDE DEF p
  <1>7. HasFlag(p, AbortBit)
    <2>1. 8 + 16 = 24 /\ (1 \div 1) % 2 = 1 OBVIOUS
    <2> QED BY <1>6, <2>1 DEF HasFlag, AbortBit, FlagsOf, HeaderSize, FlagsOffset
  <1>8. TakeTask(p) = [kind |-> "abort"] BY <1>7 DEF TakeTask
  <1> QED BY <1>1, <1>8

(* A reply whose numbers fit into their fields.                            *)
ReplyFits(r) ==
    /\ Fits(r.handle, 8) /\ Fits(r.token, 4)
    /\ r.rsslBuffer \in Seq(0..255) /\ Len(r.rsslBuffer) < 256

(* What the event thread makes of it.                                      *)
AnswerIs(answer, r) ==
    /\ answer.kind = "reply"
    /\ answer.handle = r.handle /\ answer.token = r.token /\ answer.rsslBuffer = r.rsslBuffer

(* A finished reply, read.                                                 *)
LEMMA ReplyRead ==
    ASSUME NEW n \in Nat, NEW p, NEW r, ReplyFits(r), HoldsReply(p, r),
           TakeText(p, 20).text = r.rsslBuffer, TakeText(p, 20).end = n, ~Throws(p, n)
    PROVE  AnswerIs(TakeReply(p), r)
  <1>1. wrapForDecode(p) = 20
    <2> DEFINE b == 12
    <2>1. b \in Nat /\ b <= 65535 /\ Holds(p, 0, 2, b) BY SMT DEF HoldsReply
    <2> HIDE DEF b
    <2>2. wrapForDecode(p) = 8 + b BY <2>1, CursorIs
    <2> QED BY <2>2 DEF b
  <1>2. GetField(p, ReplyField.handle) = r.handle
    <2>1. GetField(p, ReplyField.handle) = Get(p, 8, 8)
      <3>1. 8 + ReplyField.handle[1] = 8 BY FieldsAre
      <3> QED BY <3>1, FieldsAre DEF GetField, HeaderSize
    <2>2. Holds(p, 8, 8, r.handle) /\ Fits(r.handle, 8) BY DEF HoldsReply, ReplyFits
    <2> QED BY <2>1, <2>2, GetHeld
  <1>3. GetField(p, ReplyField.token) = r.token
    <2>1. GetField(p, ReplyField.token) = Get(p, 16, 4)
      <3>1. 8 + ReplyField.token[1] = 16 BY FieldsAre
      <3> QED BY <3>1, FieldsAre DEF GetField, HeaderSize
    <2>2. Holds(p, 16, 4, r.token) /\ Fits(r.token, 4) BY DEF HoldsReply, ReplyFits
    <2> QED BY <2>1, <2>2, GetHeld
  <1> DEFINE answer == [kind |-> "reply",
                        handle |-> GetField(p, ReplyField.handle),
                        token |-> GetField(p, ReplyField.token),
                        rsslBuffer |-> TakeText(p, 20).text]
  <1>4. TakeReply(p) = answer BY <1>1 DEF TakeReply
  <1>5. AnswerIs(answer, r) BY <1>2, <1>3 DEF AnswerIs
  <1> QED BY <1>4, <1>5

(* What worker_t::SendReply puts into a message is what hitsuji_t::OnReply *)
(* takes out of it, whatever the memory held, for every encoded reply of   *)
(* at most 255 bytes.                                                      *)
THEOREM ReplyArrives ==
    ASSUME NEW r, ReplyFits(r), NEW garbage \in 0..255
    PROVE  AnswerIs(TakeReply(EncodeReply(r, garbage)), r)
  <1> DEFINE s == r.rsslBuffer
             n == 21 + Len(s)
             m == zmq_msg_init_size(n, garbage)
             m1 == WriteHeader(m, 12, 2)
             m2 == PutField(PutField(m1, ReplyField.handle, r.handle), ReplyField.token, r.token)
             p == PutText(m2, 20, s)
  <1>1. s \in Seq(0..255) /\ Len(s) < 256 BY DEF ReplyFits
  <1>2. Len(s) \in Nat BY <1>1, LenProperties
  <1>3. n \in Nat /\ 20 <= n /\ 8 <= n /\ n = 20 + 1 + Len(s) BY <1>2
  <1>4. EncodeReply(r, garbage) = p
    <2>1. 8 + 12 + 1 + Len(s) = n /\ 8 + 12 = 20 BY <1>2
    <2> HIDE DEF n
    <2> QED BY <2>1 DEF EncodeReply, HeaderSize, ReplyBlock, ReplyTemplate, LengthSize
  <1> HIDE DEF n
  <1>5. Memory(m, n) BY <1>3, MemoryIs
  <1> HIDE DEF m
  <1>6. Memory(m1, n) /\ Holds(m1, 0, 2, 12) BY <1>3, <1>5, HeaderIs
  <1> HIDE DEF m1
  <1>7. Memory(m2, n) /\ HoldsReply(m2, r)
    <2>1. Fits(r.handle, 8) /\ Fits(r.token, 4) BY DEF ReplyFits
    <2> QED BY <1>3, <1>6, <2>1, ReplyBlockIs
  <1> HIDE DEF m2, s
  <1>8. TextWritten(p, m2, n, 20, s)
    <2> DEFINE pos == 20
    <2>1. pos \in Nat /\ n = pos + 1 + Len(s) BY <1>3
    <2> HIDE DEF pos
    <2>2. TextWritten(PutText(m2, pos, s), m2, n, pos, s) BY <1>1, <1>3, <1>7, <2>1, TextIs
    <2> QED BY <2>2 DEF pos
  <1> HIDE DEF p
  <1>9. HoldsReply(p, r)
    <2> DEFINE b == 20
    <2>1. \A i \in 0..b - 1 : p[i] = m2[i] BY <1>8 DEF TextWritten
    <2>2. /\ b \in Nat /\ 0 + 2 <= b /\ 8 + 8 <= b /\ 16 + 4 <= b
          /\ 0 \in Nat /\ 2 \in Nat /\ 4 \in Nat /\ 8 \in Nat /\ 16 \in Nat
      OBVIOUS
    <2>3. Holds(m2, 0, 2, 12) /\ Holds(m2, 8, 8, r.handle) /\ Holds(m2, 16, 4, r.token)
      BY <1>7 DEF HoldsReply
    <2> HIDE DEF b
    <2>4. Holds(p, 0, 2, 12) BY <2>1, <2>2, <2>3, HoldsSame
    <2>5. Holds(p, 8, 8, r.handle) BY <2>1, <2>2, <2>3, HoldsSame
    <2>6. Holds(p, 16, 4, r.token) BY <2>1, <2>2, <2>3, HoldsSame
    <2> QED BY <2>4, <2>5, <2>6 DEF HoldsReply
  <1>10. TakeText(p, 20).text = r.rsslBuffer /\ TakeText(p, 20).end = n /\ ~Throws(p, n)
    BY <1>8 DEF TextWritten, s
  <1>11. AnswerIs(TakeReply(p), r) BY <1>3, <1>9, <1>10, ReplyRead
  <1> QED BY <1>4, <1>11

(* So MessagesArrive holds of a name or a reply.                           *)
LEMMA MessagesArriveOf ==
    ASSUME IsText PROVE MessagesArrive
  <1> SUFFICES ASSUME job = "message",
                      NEW handle \in {1, 2147483647}, NEW token \in {1, 16909060},
                      NEW garbage \in {0, 255}, NEW attrib \in BOOLEAN
               PROVE  LET request == [handle |-> handle, rwfVersion |-> 3585, token |-> token,
                                      serviceId |-> 65535, attrib |-> attrib, itemName |-> text]
                          reply == [handle |-> handle, token |-> token, rsslBuffer |-> text]
                          task == TakeTask(EncodeRequest(request, garbage))
                          answer == TakeReply(EncodeReply(reply, garbage))
                      IN  /\ task.kind = "request"
                          /\ \A f \in DOMAIN request : task[f] = request[f]
                          /\ TakeTask(EncodeAbort(garbage)).kind = "abort"
                          /\ answer.kind = "reply"
                          /\ \A f \in DOMAIN reply : answer[f] = reply[f]
    BY DEF MessagesArrive
  <1> DEFINE request == [handle |-> handle, rwfVersion |-> 3585, token |-> token,
                         serviceId |-> 65535, attrib |-> attrib, itemName |-> text]
             reply == [handle |-> handle, token |-> token, rsslBuffer |-> text]
             task == TakeTask(EncodeRequest(request, garbage))
             answer == TakeReply(EncodeReply(reply, garbage))
  <1>1. text \in Seq(0..255) /\ Len(text) < 256
    <2>1. Byte - 1 = 255 BY DEF Byte
    <2>2. text \in Messages BY DEF IsText
    <2>3. text \in Seq(0..Byte - 1) /\ Len(text) < Byte BY <2>2, ParsingAssumption
    <2> QED BY <2>1, <2>3 DEF Byte
  <1>2. garbage \in 0..255 OBVIOUS
  <1>3. Fits(handle, 8)
    <2>1. handle \in Nat /\ handle <= 4294967295 BY SMT
    <2> QED BY <2>1, FitsFour
  <1>4. Fits(token, 4)
    <2>1. token \in Nat /\ token <= 4294967295 BY SMT
    <2> QED BY <2>1, FitsFour
  <1>5. Fits(3585, 2) /\ Fits(65535, 2)
    <2> DEFINE version == 3585
               service == 65535
    <2>1. /\ version \in Nat /\ version <= 65535
          /\ service \in Nat /\ service <= 65535
      BY SMT
    <2> HIDE DEF version, service
    <2>2. Fits(version, 2) /\ Fits(service, 2) BY <2>1, FitsTwo
    <2> QED BY <2>2 DEF version, service
  <1>6. TaskIs(task, request)
    <2>1. RequestFits(request) BY <1>1, <1>3, <1>4, <1>5 DEF RequestFits
    <2> HIDE DEF request
    <2> QED BY <1>2, <2>1, RequestArrives
  <1>7. AnswerIs(answer, reply)
    <2>1. ReplyFits(reply) BY <1>1, <1>3, <1>4 DEF ReplyFits
    <2> HIDE DEF reply
    <2> QED BY <1>2, <2>1, ReplyArrives
  <1>8. TakeTask(EncodeAbort(garbage)).kind = "abort" BY <1>2, AbortArrives
  <1>9. \A f \in DOMAIN request : task[f] = request[f]
    <2>1. DOMAIN request =
              {"handle", "rwfVersion", "token", "serviceId", "attrib", "itemName"}
      OBVIOUS
    <2> HIDE DEF task, request
    <2> QED BY <1>6, <2>1 DEF TaskIs
  <1>10. \A f \in DOMAIN reply : answer[f] = reply[f]
    <2>1. DOMAIN reply = {"handle", "token", "rsslBuffer"} OBVIOUS
    <2> HIDE DEF answer, reply
    <2> QED BY <1>7, <2>1 DEF AnswerIs
  <1> HIDE DEF task, answer, request, reply
  <1>11. task.kind = "request" /\ answer.kind = "reply"
    BY <1>6, <1>7 DEF TaskIs, AnswerIs
  <1> QED BY <1>8, <1>9, <1>10, <1>11 DEF task, answer, request, reply

(* MessagesArrive holds of every name and every reply of at most 255       *)
(* bytes, whatever the memory of the message held.                         *)
THEOREM MessagesAreExact == Spec => []MessagesArrive
  BY TextKept, MessagesArriveOf, PTL

-----------------------------------------------------------------------------
(* Digits and the numbers they write.                                      *)

(* No two digits are written alike.                                        *)
LEMMA DigitsDiffer ==
    \A d \in 0..9, e \in 0..9 : kDigits[d + 1] = kDigits[e + 1] => d = e
  <1> TAKE d \in 0..9, e \in 0..9
  <1>1. /\ kDigits[1] = "0" /\ kDigits[2] = "1" /\ kDigits[3] = "2" /\ kDigits[4] = "3"
        /\ kDigits[5] = "4" /\ kDigits[6] = "5" /\ kDigits[7] = "6" /\ kDigits[8] = "7"
        /\ kDigits[9] = "8" /\ kDigits[10] = "9"
    BY DEF kDigits
  <1>2. /\ d = 0 \/ d = 1 \/ d = 2 \/ d = 3 \/ d = 4 \/ d = 5 \/ d = 6 \/ d = 7 \/ d = 8 \/ d = 9
        /\ e = 0 \/ e = 1 \/ e = 2 \/ e = 3 \/ e = 4 \/ e = 5 \/ e = 6 \/ e = 7 \/ e = 8 \/ e = 9
    OBVIOUS
  <1> QED BY <1>1, <1>2

(* The digit a character is, 0 for any other.                              *)
Figure(ch) == IF CharToDigit(ch, 10) = {} THEN 0 ELSE CHOOSE d \in CharToDigit(ch, 10) : TRUE

(* Both conversions know the same digits.                                  *)
LEMMA FigureIs ==
    ASSUME NEW ch
    PROVE  /\ Figure(ch) \in 0..9
           /\ CharToDigit(ch, 10) # {} => kDigits[Figure(ch) + 1] = ch
           /\ IsDigit(ch) <=> CharToDigit(ch, 10) # {}
           /\ IsDigit(ch) => DigitValue(ch) = Figure(ch)
  <1>1. \A d : d \in CharToDigit(ch, 10) <=> d \in 0..9 /\ kDigits[d + 1] = ch
    <2>1. 10 - 1 = 9 OBVIOUS
    <2> QED BY <2>1 DEF CharToDigit
  <1>2. CharToDigit(ch, 10) # {} => Figure(ch) \in CharToDigit(ch, 10)
    BY DEF Figure
  <1>3. CharToDigit(ch, 10) = {} => Figure(ch) = 0 BY DEF Figure
  <1>4. Figure(ch) \in 0..9
    <2>1. 0 \in 0..9 OBVIOUS
    <2> QED BY <1>1, <1>2, <1>3, <2>1
  <1>5. PortDigits = kDigits BY DEF PortDigits, kDigits
  <1>6. IsDigit(ch) <=> \E d \in 0..9 : ch = kDigits[d + 1] BY <1>5 DEF IsDigit
  <1>7. IsDigit(ch) <=> CharToDigit(ch, 10) # {} BY <1>1, <1>6
  <1>8. ASSUME IsDigit(ch) PROVE DigitValue(ch) = Figure(ch)
    <2>1. DigitValue(ch) \in 0..9 /\ ch = kDigits[DigitValue(ch) + 1]
      BY <1>5, <1>6, <1>8 DEF DigitValue
    <2>2. Figure(ch) \in 0..9 /\ kDigits[Figure(ch) + 1] = ch BY <1>1, <1>2, <1>7, <1>8
    <2> DEFINE d == DigitValue(ch)
               e == Figure(ch)
    <2> HIDE DEF d, e
    <2>3. d \in 0..9 /\ e \in 0..9 /\ kDigits[d + 1] = kDigits[e + 1] BY <2>1, <2>2 DEF d, e
    <2>4. d = e BY <2>3, DigitsDiffer
    <2> QED BY <2>4 DEF d, e
  <1> QED BY <1>1, <1>2, <1>4, <1>7, <1>8

(* The character of a digit is that digit, and no sign.                    *)
LEMMA FigureRead ==
    ASSUME NEW d \in 0..9
    PROVE  /\ CharToDigit(kDigits[d + 1], 10) # {} /\ Figure(kDigits[d + 1]) = d
           /\ kDigits[d + 1] \notin {"-", "+"}
  <1> DEFINE ch == kDigits[d + 1]
  <1>1. d \in CharToDigit(ch, 10)
    <2>1. 10 - 1 = 9 OBVIOUS
    <2> QED BY <2>1 DEF CharToDigit
  <1>2. ch \notin {"-", "+"}
    <2>1. d = 0 \/ d = 1 \/ d = 2 \/ d = 3 \/ d = 4 \/ d = 5 \/ d = 6 \/ d = 7 \/ d = 8 \/ d = 9
      OBVIOUS
    <2> QED BY <2>1 DEF kDigits
  <1>3. Figure(ch) \in 0..9 /\ kDigits[Figure(ch) + 1] = ch
    <2> HIDE DEF ch
    <2> QED BY <1>1, FigureIs
  <1>4. Figure(ch) = d
    <2> DEFINE e == Figure(ch)
    <2> HIDE DEF e
    <2>1. e \in 0..9 /\ kDigits[e + 1] = kDigits[d + 1] BY <1>3 DEF e
    <2>2. e = d BY <2>1, DigitsDiffer
    <2> QED BY <2>2 DEF e
  <1> QED BY <1>1, <1>2, <1>4

(* A space is none.                                                        *)
LEMMA SpaceIsNoDigit == CharToDigit(" ", 10) = {}
  <1>1. \A d \in 0..9 : kDigits[d + 1] # " "
    <2> TAKE d \in 0..9
    <2>1. d = 0 \/ d = 1 \/ d = 2 \/ d = 3 \/ d = 4 \/ d = 5 \/ d = 6 \/ d = 7 \/ d = 8 \/ d = 9
      OBVIOUS
    <2> DEFINE c == " "
    <2>2. /\ kDigits[1] # c /\ kDigits[2] # c /\ kDigits[3] # c /\ kDigits[4] # c
          /\ kDigits[5] # c /\ kDigits[6] # c /\ kDigits[7] # c /\ kDigits[8] # c
          /\ kDigits[9] # c /\ kDigits[10] # c
      BY DEF kDigits
    <2> HIDE DEF c
    <2>3. kDigits[d + 1] # c BY <2>1, <2>2
    <2> QED BY <2>3 DEF c
  <1>2. 10 - 1 = 9 OBVIOUS
  <1> QED BY <1>1, <1>2 DEF CharToDigit

(* v is what a text is worth as a number, from character to character.     *)
Sums(v, s) ==
    /\ v \in [0..Len(s) -> Nat]
    /\ v[0] = 0
    /\ \A k \in 1..Len(s) : v[k] = (10 * v[k - 1]) + Figure(s[k])

(* Every text has it.                                                      *)
LEMMA SumsExist ==
    ASSUME NEW C, NEW s \in Seq(C)
    PROVE  \E v : Sums(v, s)
  <1> DEFINE n == Len(s)
             g == [x \in (1..n) \X Nat |-> (10 * x[2]) + Figure(s[x[1]])]
             p == [k \in 1..n |-> k - 1]
  <1>1. n \in Nat BY LenProperties
  <1> HIDE DEF n
  <1>2. g \in [(1..n) \X Nat -> Nat]
    <2>1. ASSUME NEW x \in (1..n) \X Nat PROVE (10 * x[2]) + Figure(s[x[1]]) \in Nat
      <3>1. x[2] \in Nat OBVIOUS
      <3>2. Figure(s[x[1]]) \in 0..9 BY FigureIs
      <3> DEFINE a == x[2]
                 b == Figure(s[x[1]])
      <3> HIDE DEF a, b
      <3>3. a \in Nat /\ b \in 0..9 BY <3>1, <3>2 DEF a, b
      <3>4. (10 * a) + b \in Nat BY <3>3
      <3> QED BY <3>4 DEF a, b
    <2> QED BY <2>1
  <1>3. \A k \in 1..n : p[k] = k - 1 /\ p[k] \in 0..k - 1 BY <1>1
  <1>4. \A k \in 1..n, y \in Nat : g[<<k, y>>] = (10 * y) + Figure(s[k]) OBVIOUS
  <1>5. 0 \in Nat OBVIOUS
  <1> HIDE DEF g, p
  <1>6. PICK v : Recursion(v, 0, g, p, n, Nat) BY <1>1, <1>2, <1>3, <1>5, RecursionExists
  <1>7. v \in [0..n -> Nat] /\ v[0] = 0 BY <1>6 DEF Recursion
  <1>8. ASSUME NEW k \in 1..n PROVE v[k] = (10 * v[k - 1]) + Figure(s[k])
    <2>1. p[k] = k - 1 /\ k - 1 \in 0..n BY <1>1, <1>3
    <2>2. v[k - 1] \in Nat BY <1>7, <2>1
    <2>3. v[k] = g[<<k, v[k - 1]>>] BY <1>6, <2>1 DEF Recursion
    <2> QED BY <1>4, <2>2, <2>3
  <1> QED BY <1>7, <1>8 DEF Sums, n

(* atoi of the digits of a text is what it is worth.                       *)
LEMMA DecimalIs ==
    ASSUME NEW C, NEW s \in Seq(C), NEW v, Sums(v, s),
           NEW ds, ds = [i \in 1..Len(s) |-> Figure(s[i])]
    PROVE  Decimal(ds) = v[Len(s)]
  <1> DEFINE n == Len(s)
             Is(r) == r = [k \in 0..n |-> IF k = 0 THEN 0 ELSE 10 * r[k - 1] + ds[k]]
             chosen == CHOOSE r : Is(r)
  <1>1. n \in Nat BY LenProperties
  <1>2. Len(ds) = n
    <2> HIDE DEF n
    <2> DEFINE F(i) == Figure(s[i])
    <2>1. ds = [i \in 1..n |-> F(i)] BY DEF n
    <2>2. \A i \in 1..n : F(i) \in 0..9 BY FigureIs
    <2> HIDE DEF F
    <2>3. ds \in Seq(0..9) /\ Len(ds) = n BY <1>1, <2>1, <2>2, IsASeq
    <2> QED BY <2>3
  <1>3. /\ v \in [0..n -> Nat] /\ v[0] = 0
        /\ \A k \in 1..n : v[k] = (10 * v[k - 1]) + Figure(s[k])
    BY DEF Sums
  <1>4. \A k \in 1..n : ds[k] = Figure(s[k]) OBVIOUS
  <1>5. Decimal(ds) = chosen[n]
    <2> HIDE DEF n
    <2> QED BY <1>2 DEF Decimal
  <1> HIDE DEF n
  <1>6. Is(v)
    <2>1. ASSUME NEW k \in 0..n
          PROVE  v[k] = IF k = 0 THEN 0 ELSE 10 * v[k - 1] + ds[k]
      <3>1. CASE k = 0 BY <1>3, <3>1
      <3>2. CASE k # 0
        <4>1. k \in 1..n BY <3>2
        <4> QED BY <1>3, <1>4, <3>2, <4>1
      <3> QED BY <3>1, <3>2
    <2> QED BY <1>3, <2>1
  <1>7. Is(chosen)
    <2> HIDE DEF Is
    <2> QED BY <1>6
  <1> HIDE DEF chosen
  <1>8. chosen[0] = 0 /\ \A k \in 1..n : chosen[k] = 10 * chosen[k - 1] + ds[k]
    <2>1. chosen[0] = 0
      <3>1. 0 \in 0..n BY <1>1
      <3> QED BY <1>7, <3>1
    <2>2. ASSUME NEW k \in 1..n PROVE chosen[k] = 10 * chosen[k - 1] + ds[k]
      <3>1. k \in 0..n /\ k # 0 BY <1>1
      <3> QED BY <1>7, <3>1
    <2> QED BY <2>1, <2>2
  <1> DEFINE S == {k \in Nat : chosen[k] = v[k]}
  <1>9. \A k \in 0..n : k \in S
    <2>1. 0 \in S BY <1>3, <1>8
    <2>2. ASSUME NEW k \in 1..n, k - 1 \in S PROVE k \in S
      <3>1. chosen[k - 1] = v[k - 1] /\ k \in Nat BY <1>1, <2>2
      <3>2. chosen[k] = (10 * v[k - 1]) + Figure(s[k]) BY <1>4, <1>8, <3>1
      <3>3. chosen[k] = v[k] BY <1>3, <3>2
      <3> QED BY <3>1, <3>3
    <2> HIDE DEF S
    <2> QED BY <1>1, <2>1, <2>2, InductionUpTo
  <1>10. chosen[n] = v[n] BY <1>1, <1>9
  <1> QED BY <1>5, <1>10 DEF n

(* So is the value the properties speak of.                                *)
LEMMA ValueIs ==
    ASSUME NEW C, NEW s \in Seq(C), NEW v, Sums(v, s), AllDigits(s)
    PROVE  Value(s) = v[Len(s)]
  <1> DEFINE ds == [i \in 1..Len(s) |-> Figure(s[i])]
  <1>1. Value(s) = Decimal(ds)
    <2>1. \A i \in 1..Len(s) : CharToDigit(s[i], 10) # {} BY DEF AllDigits
    <2>2. \A i \in 1..Len(s) : Figure(s[i]) = CHOOSE d \in CharToDigit(s[i], 10) : TRUE
      BY <2>1 DEF Figure
    <2>3. [i \in 1..Len(s) |-> CHOOSE d \in CharToDigit(s[i], 10) : TRUE] = ds
      BY <2>2
    <2> QED BY <2>3 DEF Value
  <1> HIDE DEF ds
  <1>2. Decimal(ds) = v[Len(s)]
    <2>1. ds = [i \in 1..Len(s) |-> Figure(s[i])] BY DEF ds
    <2> QED BY <2>1, DecimalIs
  <1> QED BY <1>1, <1>2

(* A number brought into a range.                                          *)
Clamp(x, lo, hi) == Max({lo, Min({hi, x})})

(* The maximum and minimum that NumericResult is written with clamp: what  *)
(* is above hi becomes hi, what is below lo becomes lo, the rest stays.    *)
LEMMA ClampIs ==
    ASSUME NEW lo \in Int, NEW hi \in Int, lo <= hi, NEW x \in Int
    PROVE  Clamp(x, lo, hi) = IF x > hi THEN hi ELSE IF x < lo THEN lo ELSE x
  <1> DEFINE m == IF hi <= x THEN hi ELSE x
             M == IF m <= lo THEN lo ELSE m
  <1>1. Min({hi, x}) = m
    <2>1. m \in {hi, x} /\ m <= hi /\ m <= x /\ m \in Int OBVIOUS
    <2>2. \A y \in {hi, x} : (\A z \in {hi, x} : y <= z) => y = m OBVIOUS
    <2>3. m \in {hi, x} /\ \A z \in {hi, x} : m <= z BY <2>1
    <2> HIDE DEF m
    <2> QED BY <2>2, <2>3 DEF Min
  <1>2. m \in Int OBVIOUS
  <1>3. Max({lo, m}) = M
    <2> HIDE DEF m
    <2>1. {lo, m} \subseteq Int /\ M \in {lo, m} /\ \A y \in {lo, m} : y <= M BY <1>2
    <2> HIDE DEF M
    <2> QED BY <2>1, MaxIs
  <1>4. M = IF x > hi THEN hi ELSE IF x < lo THEN lo ELSE x OBVIOUS
  <1> HIDE DEF m, M
  <1> QED BY <1>1, <1>3, <1>4 DEF Clamp

(* A number with its sign.                                                 *)
Signed(sign, v) == IF sign = 1 THEN v ELSE -v

(* t is what a conversion has that has come to x.                          *)
Appended(t, x, sign, lo, hi) ==
    t = IF x \in lo..hi THEN [ok |-> TRUE, value |-> x]
        ELSE [ok |-> FALSE, value |-> IF sign = 1 THEN hi ELSE lo]

(* One digit more is taken if the number stays in the range of the type,   *)
(* whichever it is, and only then: the tests before the multiplication     *)
(* decide what the product would, and nothing wraps.                       *)
LEMMA AppendIs ==
    ASSUME NEW lo \in Int, NEW hi \in Int, lo <= -9, 9 < hi, NEW sign \in {1, -1},
           NEW v \in Nat, Signed(sign, v) \in lo..hi, NEW d \in 0..9,
           NEW first \in BOOLEAN, first => v = 0
    PROVE  Appended(AppendDigit(Signed(sign, v), d, first, sign, lo, hi, 10),
                    Signed(sign, (10 * v) + d), sign, lo, hi)
  <1> DEFINE w == Signed(sign, v)
             x == Signed(sign, (10 * v) + d)
             over == ~first /\ (IF sign = 1 THEN TooLarge(w, d, hi, 10) ELSE TooSmall(w, d, lo, 10))
             sum == (IF first THEN 0 ELSE w * 10) + sign * d
  <1>1. AppendDigit(w, d, first, sign, lo, hi, 10) =
            IF over THEN [ok |-> FALSE, value |-> IF sign = 1 THEN hi ELSE lo]
            ELSE [ok |-> TRUE, value |-> Wrap(sum, lo, hi)]
    BY DEF AppendDigit
  <1>2. sum = x
    <2>1. CASE sign = 1 BY <2>1 DEF Signed
    <2>2. CASE sign = -1 BY <2>2 DEF Signed
    <2> QED BY <2>1, <2>2
  <1>3. x \in Int
    <2>1. (10 * v) + d \in Int OBVIOUS
    <2> QED BY <2>1 DEF Signed
  <1>4. over <=> x \notin lo..hi
    <2>1. CASE first
      <3>1. x \in lo..hi BY <2>1 DEF Signed
      <3> QED BY <2>1, <3>1
    <2>2. CASE ~first /\ sign = 1
      <3> DEFINE q == hi \div 10
      <3>1. hi >= 0 /\ hi = (10 * q) + (hi % 10) /\ q \in Nat /\ hi % 10 \in 0..9 OBVIOUS
      <3>2. Quotient(hi, 10) = q BY <3>1 DEF Quotient
      <3> HIDE DEF q
      <3>3. Remainder(hi, 10) = hi - (10 * q) BY <3>2 DEF Remainder
      <3>4. over <=> v > q \/ (v = q /\ d > hi - (10 * q))
        BY <2>2, <3>2, <3>3 DEF TooLarge, Signed
      <3>5. x = (10 * v) + d BY <2>2 DEF Signed
      <3> HIDE DEF over
      <3>6. hi - (10 * q) \in 0..9 BY <3>1
      <3>7. (v > q \/ (v = q /\ d > hi - (10 * q))) <=> (10 * v) + d > hi
        BY <3>1, <3>6
      <3>8. x \notin lo..hi <=> (10 * v) + d > hi BY <3>5
      <3> QED BY <3>4, <3>7, <3>8
    <2>3. CASE ~first /\ sign = -1
      <3> DEFINE q == (-lo) \div 10
      <3>1. ~(lo >= 0) /\ -lo = (10 * q) + ((-lo) % 10) /\ q \in Nat /\ (-lo) % 10 \in 0..9
        OBVIOUS
      <3>2. Quotient(lo, 10) = -q BY <3>1 DEF Quotient
      <3> HIDE DEF q
      <3>3. Remainder(lo, 10) = lo - (10 * (-q)) BY <3>2 DEF Remainder
      <3>4. 0 - Remainder(lo, 10) = (-lo) - (10 * q) BY <3>1, <3>3
      <3>5. over <=> -v < -q \/ (-v = -q /\ d > (-lo) - (10 * q))
        BY <2>3, <3>2, <3>4 DEF TooSmall, Signed
      <3>6. x = -((10 * v) + d) BY <2>3 DEF Signed
      <3> HIDE DEF over
      <3>7. (-lo) - (10 * q) \in 0..9 BY <3>1
      <3>8. (-v < -q \/ (-v = -q /\ d > (-lo) - (10 * q))) <=> (10 * v) + d > -lo
        BY <3>1, <3>7
      <3>9. x \notin lo..hi <=> (10 * v) + d > -lo BY <3>6
      <3> QED BY <3>5, <3>8, <3>9
    <2> QED BY <2>1, <2>2, <2>3
  <1>5. x \in lo..hi => Wrap(sum, lo, hi) = x
    <2> SUFFICES ASSUME x \in lo..hi PROVE Wrap(sum, lo, hi) = x OBVIOUS
    <2> DEFINE a == x - lo
               b == hi - lo + 1
    <2>1. a \in Nat /\ b \in Nat /\ a < b /\ x = lo + a BY <1>3
    <2> HIDE DEF a, b
    <2>2. a % b = a BY <2>1
    <2>3. lo + (a % b) = x BY <2>1, <2>2
    <2> HIDE DEF sum
    <2> QED BY <1>2, <2>3 DEF Wrap, a, b
  <1> HIDE DEF over, sum, w, x
  <1>6. Appended(AppendDigit(w, d, first, sign, lo, hi, 10), x, sign, lo, hi)
    BY <1>1, <1>4, <1>5 DEF Appended
  <1> QED BY <1>6 DEF w, x

(* What the conversion has after some characters, and one turn of its loop.*)
Conversion == [ok : BOOLEAN, value : Int]

Turn(y, ch, first, sign, lo, hi) ==
    IF ~y.ok THEN y
    ELSE IF CharToDigit(ch, 10) = {} THEN [ok |-> FALSE, value |-> y.value]
    ELSE AppendDigit(y.value, Figure(ch), first, sign, lo, hi, 10)

(* It is right for a text that is worth v: all says that there have been   *)
(* only digits.                                                            *)
Right(y, v, all, sign, lo, hi) ==
    /\ y.value \in lo..hi
    /\ y.ok <=> (all /\ Signed(sign, v) \in lo..hi)
    /\ all => y.value = Clamp(Signed(sign, v), lo, hi)

(* A turn has a result.                                                    *)
LEMMA TurnType ==
    ASSUME NEW lo \in Int, NEW hi \in Int, lo <= hi, NEW sign \in {1, -1},
           NEW y \in Conversion, NEW ch, NEW first \in BOOLEAN
    PROVE  Turn(y, ch, first, sign, lo, hi) \in Conversion
  <1>1. y.value \in Int BY DEF Conversion
  <1>2. Figure(ch) \in 0..9 BY FigureIs
  <1> DEFINE d == Figure(ch)
             w == y.value
             sum == (IF first THEN 0 ELSE w * 10) + sign * d
             b == hi - lo + 1
             a == sum - lo
  <1>3. sum \in Int
    <2>1. d \in Int /\ w \in Int BY <1>1, <1>2
    <2> HIDE DEF d, w
    <2>2. sign * d \in Int BY <2>1
    <2> QED BY <2>1, <2>2
  <1>4. Wrap(sum, lo, hi) \in Int
    <2>1. a \in Int /\ b \in Nat /\ b > 0 BY <1>3
    <2> HIDE DEF sum, a, b
    <2>2. a % b \in Int BY <2>1
    <2>3. lo + (a % b) \in Int BY <2>2
    <2> QED BY <2>3 DEF Wrap, a, b
  <1>5. AppendDigit(w, d, first, sign, lo, hi, 10) \in Conversion
    <2>1. AppendDigit(w, d, first, sign, lo, hi, 10) =
              [ok |-> FALSE, value |-> IF sign = 1 THEN hi ELSE lo]
          \/ AppendDigit(w, d, first, sign, lo, hi, 10) = [ok |-> TRUE, value |-> Wrap(sum, lo, hi)]
      BY DEF AppendDigit
    <2> DEFINE q == Wrap(sum, lo, hi)
    <2>2. [ok |-> TRUE, value |-> q] \in Conversion
      <3> HIDE DEF q
      <3>1. q \in Int BY <1>4 DEF q
      <3> QED BY <3>1 DEF Conversion
    <2>3. [ok |-> FALSE, value |-> IF sign = 1 THEN hi ELSE lo] \in Conversion
      BY DEF Conversion
    <2> QED BY <2>1, <2>2, <2>3
  <1>6. [ok |-> FALSE, value |-> y.value] \in Conversion BY <1>1 DEF Conversion
  <1> QED BY <1>5, <1>6 DEF Turn

(* ... that is right if what it began with was.                            *)
LEMMA TurnIsRight ==
    ASSUME NEW lo \in Int, NEW hi \in Int, lo <= -9, 9 < hi, NEW sign \in {1, -1},
           NEW y \in Conversion, NEW ch, NEW first \in BOOLEAN,
           NEW v \in Nat, NEW all \in BOOLEAN, Right(y, v, all, sign, lo, hi),
           first => v = 0
    PROVE  Right(Turn(y, ch, first, sign, lo, hi), (10 * v) + Figure(ch),
                 all /\ CharToDigit(ch, 10) # {}, sign, lo, hi)
  <1> DEFINE d == Figure(ch)
             z == Signed(sign, v)
             x == Signed(sign, (10 * v) + d)
             t == Turn(y, ch, first, sign, lo, hi)
             figure == CharToDigit(ch, 10) # {}
  <1>1. d \in 0..9 BY FigureIs
  <1>2. y.ok \in BOOLEAN /\ y.value \in Int BY DEF Conversion
  <1>3. /\ y.value \in lo..hi
        /\ y.ok <=> (all /\ z \in lo..hi)
        /\ all => y.value = Clamp(z, lo, hi)
    BY DEF Right
  <1> HIDE DEF d
  <1>4. z \in Int /\ x \in Int
    <2>1. v \in Int /\ (10 * v) + d \in Int BY <1>1
    <2> QED BY <2>1 DEF Signed
  <1>5. lo <= hi OBVIOUS
  <1>6. Clamp(z, lo, hi) = IF z > hi THEN hi ELSE IF z < lo THEN lo ELSE z
    <2> HIDE DEF z
    <2> QED BY <1>4, <1>5, ClampIs
  <1>7. Clamp(x, lo, hi) = IF x > hi THEN hi ELSE IF x < lo THEN lo ELSE x
    <2> HIDE DEF x
    <2> QED BY <1>4, <1>5, ClampIs
  <1>8. (z > hi => x > hi) /\ (z < lo => x < lo)
    <2>1. CASE sign = 1 BY <1>1, <2>1 DEF Signed
    <2>2. CASE sign = -1 BY <1>1, <2>2 DEF Signed
    <2> QED BY <2>1, <2>2
  <1>9. IF sign = 1 THEN ~(x < lo) ELSE ~(x > hi)
    BY <1>1 DEF Signed
  <1> HIDE DEF z, x
  <1>10. CASE ~y.ok
    <2>1. t = y BY <1>10 DEF Turn
    <2>2. ~(all /\ z \in lo..hi) BY <1>3, <1>10
    <2>3. all => ~(x \in lo..hi) /\ y.value = Clamp(x, lo, hi)
      <3>1. SUFFICES ASSUME all PROVE ~(x \in lo..hi) /\ y.value = Clamp(x, lo, hi) OBVIOUS
      <3>2. z > hi \/ z < lo BY <1>4, <2>2, <3>1
      <3>3. CASE z > hi BY <1>3, <1>4, <1>6, <1>7, <1>8, <3>1, <3>3
      <3>4. CASE z < lo BY <1>3, <1>4, <1>6, <1>7, <1>8, <3>1, <3>4
      <3> QED BY <3>2, <3>3, <3>4
    <2> HIDE DEF t
    <2>4. ~t.ok /\ t.value = y.value BY <1>10, <2>1
    <2> QED BY <1>3, <2>3, <2>4 DEF Right, d, x, t
  <1>11. CASE y.ok /\ ~figure
    <2>1. t = [ok |-> FALSE, value |-> y.value] BY <1>11 DEF Turn
    <2>2. ~t.ok /\ t.value = y.value BY <2>1
    <2> HIDE DEF t
    <2> QED BY <1>3, <1>11, <2>2 DEF Right, d, x, t
  <1>12. CASE y.ok /\ figure
    <2>1. all /\ z \in lo..hi BY <1>3, <1>12
    <2>2. y.value = z BY <1>3, <1>4, <1>6, <2>1
    <2>3. t = AppendDigit(z, d, first, sign, lo, hi, 10)
      BY <1>12, <2>2 DEF Turn, d
    <2>4. AppendDigit(z, d, first, sign, lo, hi, 10) =
              IF x \in lo..hi THEN [ok |-> TRUE, value |-> x]
              ELSE [ok |-> FALSE, value |-> IF sign = 1 THEN hi ELSE lo]
      <3>1. Signed(sign, v) \in lo..hi BY <2>1 DEF z
      <3>2. Appended(AppendDigit(Signed(sign, v), d, first, sign, lo, hi, 10),
                     Signed(sign, (10 * v) + d), sign, lo, hi)
        BY <1>1, <3>1, AppendIs
      <3> QED BY <3>2 DEF z, x, Appended
    <2> HIDE DEF t
    <2>5. t.ok <=> x \in lo..hi BY <2>3, <2>4
    <2>6. t.value = Clamp(x, lo, hi)
      <3>1. CASE x \in lo..hi BY <1>4, <1>7, <2>3, <2>4, <3>1
      <3>2. CASE x \notin lo..hi
        <4>1. t.value = IF sign = 1 THEN hi ELSE lo BY <2>3, <2>4, <3>2
        <4>2. x > hi \/ x < lo BY <1>4, <3>2
        <4> QED BY <1>4, <1>7, <1>9, <4>1, <4>2
      <3> QED BY <3>1, <3>2
    <2>7. t.value \in lo..hi BY <1>4, <1>7, <2>6
    <2> QED BY <1>12, <2>1, <2>5, <2>6, <2>7 DEF Right, d, x, t
  <1> QED BY <1>2, <1>10, <1>11, <1>12

(* f is what the conversion of a text has after each of its characters.    *)
Conversions(f, s, sign, lo, hi) ==
    /\ f \in [0..Len(s) -> Conversion]
    /\ f[0] = [ok |-> TRUE, value |-> 0]
    /\ \A k \in 1..Len(s) : f[k] = Turn(f[k - 1], s[k], k = 1, sign, lo, hi)

(* Every text has it.                                                      *)
LEMMA ConversionsExist ==
    ASSUME NEW lo \in Int, NEW hi \in Int, lo <= hi, NEW sign \in {1, -1},
           NEW C, NEW s \in Seq(C)
    PROVE  \E f : Conversions(f, s, sign, lo, hi)
  <1> DEFINE n == Len(s)
             g == [x \in (1..n) \X Conversion |-> Turn(x[2], s[x[1]], x[1] = 1, sign, lo, hi)]
             p == [k \in 1..n |-> k - 1]
             base == [ok |-> TRUE, value |-> 0]
  <1>1. n \in Nat BY LenProperties
  <1> HIDE DEF n
  <1>2. g \in [(1..n) \X Conversion -> Conversion]
    <2>1. ASSUME NEW x \in (1..n) \X Conversion
          PROVE  Turn(x[2], s[x[1]], x[1] = 1, sign, lo, hi) \in Conversion
      <3> DEFINE y == x[2]
                 ch == s[x[1]]
                 first == x[1] = 1
      <3>1. y \in Conversion /\ first \in BOOLEAN OBVIOUS
      <3> HIDE DEF y, ch, first
      <3>2. Turn(y, ch, first, sign, lo, hi) \in Conversion BY <3>1, TurnType
      <3> QED BY <3>2 DEF y, ch, first
    <2> QED BY <2>1
  <1>3. \A k \in 1..n : p[k] = k - 1 /\ p[k] \in 0..k - 1 BY <1>1
  <1>4. \A k \in 1..n, y \in Conversion : g[<<k, y>>] = Turn(y, s[k], k = 1, sign, lo, hi)
    OBVIOUS
  <1>5. base \in Conversion BY DEF Conversion
  <1> HIDE DEF g, p, base
  <1>6. PICK f : Recursion(f, base, g, p, n, Conversion)
    BY <1>1, <1>2, <1>3, <1>5, RecursionExists
  <1>7. f \in [0..n -> Conversion] /\ f[0] = base BY <1>6 DEF Recursion
  <1>8. ASSUME NEW k \in 1..n PROVE f[k] = Turn(f[k - 1], s[k], k = 1, sign, lo, hi)
    <2>1. p[k] = k - 1 /\ k - 1 \in 0..n BY <1>1, <1>3
    <2>2. f[k - 1] \in Conversion BY <1>7, <2>1
    <2>3. f[k] = g[<<k, f[k - 1]>>] BY <1>6, <2>1 DEF Recursion
    <2> QED BY <1>4, <2>2, <2>3
  <1> QED BY <1>7, <1>8 DEF Conversions, n, base

(* DigitsToNumber answers its last.                                        *)
LEMMA DigitsToNumberIs ==
    ASSUME NEW lo \in Int, NEW hi \in Int, NEW sign, NEW C, NEW s \in Seq(C), s # <<>>,
           NEW f, Conversions(f, s, sign, lo, hi)
    PROVE  DigitsToNumber(s, sign, lo, hi, 10) = f[Len(s)]
  <1> DEFINE n == Len(s)
             base == [ok |-> TRUE, value |-> 0]
             Next1(r, i) == IF i = 0 THEN base
                            ELSE IF ~r[i - 1].ok THEN r[i - 1]
                            ELSE IF CharToDigit(s[i], 10) = {}
                                 THEN [ok |-> FALSE, value |-> r[i - 1].value]
                            ELSE LET d == CHOOSE d \in CharToDigit(s[i], 10) : TRUE
                                 IN  AppendDigit(r[i - 1].value, d, i = 1, sign, lo, hi, 10)
             Is(r) == r = [i \in 0..n |-> Next1(r, i)]
             chosen == CHOOSE r : Is(r)
  <1>1. n \in Nat BY LenProperties
  <1>2. DigitsToNumber(s, sign, lo, hi, 10) = chosen[n] BY DEF DigitsToNumber
  <1>3. /\ f \in [0..n -> Conversion] /\ f[0] = base
        /\ \A k \in 1..n : f[k] = Turn(f[k - 1], s[k], k = 1, sign, lo, hi)
    BY DEF Conversions
  <1> HIDE DEF n, base
  <1>4. \A r, i : i # 0 => Next1(r, i) = Turn(r[i - 1], s[i], i = 1, sign, lo, hi)
    BY DEF Turn, Figure
  <1>5. \A r : Next1(r, 0) = base OBVIOUS
  <1> HIDE DEF Next1
  <1>6. Is(f)
    <2>1. ASSUME NEW k \in 0..n PROVE f[k] = Next1(f, k)
      <3>1. CASE k = 0 BY <1>3, <1>5, <3>1
      <3>2. CASE k # 0
        <4>1. k \in 1..n BY <1>1, <3>2
        <4>2. Next1(f, k) = Turn(f[k - 1], s[k], k = 1, sign, lo, hi) BY <1>4, <3>2
        <4>3. f[k] = Turn(f[k - 1], s[k], k = 1, sign, lo, hi) BY <1>3, <4>1
        <4> QED BY <4>2, <4>3
      <3> QED BY <3>1, <3>2
    <2> QED BY <1>3, <2>1
  <1>7. Is(chosen)
    <2> HIDE DEF Is
    <2> QED BY <1>6
  <1> HIDE DEF chosen
  <1>8. chosen[0] = base
    <2>1. 0 \in 0..n BY <1>1
    <2> QED BY <1>5, <1>7, <2>1
  <1>9. ASSUME NEW k \in 1..n
        PROVE  chosen[k] = Turn(chosen[k - 1], s[k], k = 1, sign, lo, hi)
    <2>1. k \in 0..n /\ k # 0 BY <1>1
    <2> QED BY ZenonT(40), <1>4, <1>7, <2>1
  <1> DEFINE S == {k \in Nat : chosen[k] = f[k]}
  <1>10. \A k \in 0..n : k \in S
    <2>1. 0 \in S BY <1>3, <1>8
    <2>2. ASSUME NEW k \in 1..n, k - 1 \in S PROVE k \in S
      <3>1. chosen[k - 1] = f[k - 1] /\ k \in Nat BY <1>1, <2>2
      <3>2. chosen[k] = f[k] BY <1>3, <1>9, <3>1
      <3> QED BY <3>1, <3>2
    <2> HIDE DEF S
    <2> QED BY <1>1, <2>1, <2>2, InductionUpTo
  <1>11. chosen[n] = f[n] BY <1>1, <1>10
  <1> QED BY <1>2, <1>11 DEF n

(* It is right for every text and every range that has room for a digit.   *)
LEMMA DigitsRead ==
    ASSUME NEW lo \in Int, NEW hi \in Int, lo <= -9, 9 < hi, NEW sign \in {1, -1},
           NEW C, NEW s \in Seq(C), s # <<>>, NEW v, Sums(v, s)
    PROVE  /\ DigitsToNumber(s, sign, lo, hi, 10) \in Conversion
           /\ Right(DigitsToNumber(s, sign, lo, hi, 10), v[Len(s)], AllDigits(s), sign, lo, hi)
  <1> DEFINE n == Len(s)
             All(k) == \A i \in 1..k : CharToDigit(s[i], 10) # {}
  <1>1. n \in Nat BY LenProperties
  <1>2. lo <= hi OBVIOUS
  <1>3. PICK f : Conversions(f, s, sign, lo, hi) BY <1>2, ConversionsExist
  <1>4. DigitsToNumber(s, sign, lo, hi, 10) = f[n] BY <1>3, DigitsToNumberIs
  <1>5. /\ f \in [0..n -> Conversion] /\ f[0] = [ok |-> TRUE, value |-> 0]
        /\ \A k \in 1..n : f[k] = Turn(f[k - 1], s[k], k = 1, sign, lo, hi)
    BY <1>3 DEF Conversions
  <1>6. /\ v \in [0..n -> Nat] /\ v[0] = 0
        /\ \A k \in 1..n : v[k] = (10 * v[k - 1]) + Figure(s[k])
    BY DEF Sums
  <1>7. AllDigits(s) <=> All(n) BY DEF AllDigits
  <1> HIDE DEF n
  <1> DEFINE S == {k \in Nat : Right(f[k], v[k], All(k), sign, lo, hi)}
  <1>8. \A k \in 0..n : k \in S
    <2>1. 0 \in S
      <3> DEFINE z == Signed(sign, 0)
      <3>1. All(0) OBVIOUS
      <3>2. z = 0
        <4> DEFINE zero == 0
        <4>1. zero \in Int /\ zero = 0 OBVIOUS
        <4> HIDE DEF zero
        <4>2. -zero \in Int /\ -zero <= 0 /\ 0 <= -zero BY <4>1
        <4> DEFINE minus == -zero
        <4>3. minus \in Int /\ minus <= 0 /\ 0 <= minus BY <4>2
        <4> HIDE DEF minus
        <4>4. minus = 0 BY <4>3
        <4>5. Signed(sign, zero) = 0 BY <4>1, <4>4 DEF Signed, minus
        <4> QED BY <4>1, <4>5
      <3> HIDE DEF z, All
      <3>3. z \in Int /\ z \in lo..hi BY <3>2
      <3>4. Clamp(z, lo, hi) = IF z > hi THEN hi ELSE IF z < lo THEN lo ELSE z
        BY <1>2, <3>3, ClampIs
      <3>5. Clamp(z, lo, hi) = 0 BY <3>2, <3>3, <3>4
      <3>6. f[0].ok /\ f[0].value = 0 BY <1>5
      <3>7. Right(f[0], 0, All(0), sign, lo, hi)
        BY <3>1, <3>2, <3>3, <3>5, <3>6 DEF Right, z
      <3> QED BY <1>6, <3>7
    <2>2. ASSUME NEW k \in 1..n, k - 1 \in S PROVE k \in S
      <3> DEFINE y == f[k - 1]
                 u == v[k - 1]
                 ch == s[k]
                 all == All(k - 1)
                 first == k = 1
      <3>1. k - 1 \in 0..n /\ k \in Nat BY <1>1
      <3>2. y \in Conversion /\ u \in Nat BY <1>5, <1>6, <3>1
      <3>3. first => u = 0 BY <1>6
      <3>4. Right(y, u, all, sign, lo, hi) BY <2>2
      <3>5. all \in BOOLEAN /\ first \in BOOLEAN OBVIOUS
      <3>6. All(k) <=> all /\ CharToDigit(ch, 10) # {}
        <4>1. \A i \in 1..k : i \in 1..k - 1 \/ i = k BY <1>1
        <4>2. \A i \in 1..k - 1 : i \in 1..k BY <1>1
        <4>3. k \in 1..k BY <1>1
        <4> QED BY <4>1, <4>2, <4>3
      <3>7. f[k] = Turn(y, ch, first, sign, lo, hi) BY <1>5
      <3>8. v[k] = (10 * u) + Figure(ch) BY <1>6
      <3> HIDE DEF y, u, ch, all, first, All
      <3>9. Right(Turn(y, ch, first, sign, lo, hi), (10 * u) + Figure(ch),
                  all /\ CharToDigit(ch, 10) # {}, sign, lo, hi)
        BY <3>2, <3>3, <3>4, <3>5, TurnIsRight
      <3>10. Right(f[k], v[k], all /\ CharToDigit(ch, 10) # {}, sign, lo, hi)
        BY <3>7, <3>8, <3>9
      <3>11. Right(f[k], v[k], All(k), sign, lo, hi)
        BY <3>6, <3>10 DEF Right
      <3> QED BY <3>1, <3>11
    <2> HIDE DEF S
    <2> QED BY <1>1, <2>1, <2>2, InductionUpTo
  <1>9. Right(f[n], v[n], All(n), sign, lo, hi) /\ f[n] \in Conversion
    <2>1. n \in 0..n BY <1>1
    <2>2. n \in S
      <3> HIDE DEF S
      <3> QED BY <1>8, <2>1
    <2> HIDE DEF All
    <2> QED BY <1>5, <2>1, <2>2
  <1> HIDE DEF All
  <1>10. Right(f[n], v[n], AllDigits(s), sign, lo, hi) BY <1>7, <1>9 DEF Right
  <1> QED BY <1>4, <1>9, <1>10 DEF n

(* ... the empty one included.                                             *)
LEMMA AnyDigitsRead ==
    ASSUME NEW lo \in Int, NEW hi \in Int, lo <= -9, 9 < hi, NEW sign \in {1, -1},
           NEW C, NEW s \in Seq(C), NEW v, Sums(v, s)
    PROVE  /\ DigitsToNumber(s, sign, lo, hi, 10) \in Conversion
           /\ Right(DigitsToNumber(s, sign, lo, hi, 10), v[Len(s)], AllDigits(s), sign, lo, hi)
  <1>1. CASE s # <<>> BY <1>1, DigitsRead
  <1>2. CASE s = <<>>
    <2> DEFINE m == DigitsToNumber(s, sign, lo, hi, 10)
    <2>1. m = [ok |-> FALSE, value |-> 0] BY <1>2 DEF DigitsToNumber
    <2>2. ~AllDigits(s) BY <1>2 DEF AllDigits
    <2> HIDE DEF m
    <2>3. m \in Conversion BY <2>1 DEF Conversion
    <2>4. ~m.ok /\ m.value = 0 BY <2>1
    <2>5. 0 \in lo..hi OBVIOUS
    <2>6. Right(m, v[Len(s)], AllDigits(s), sign, lo, hi) BY <2>2, <2>4, <2>5 DEF Right
    <2> QED BY <2>3, <2>6 DEF m
  <1> QED BY <1>1, <1>2

(* A text, its sign and its digits.                                        *)
HasSign(s) == s # <<>> /\ s[1] \in {"-", "+"}

SignOf(s) == IF s # <<>> /\ s[1] = "-" THEN -1 ELSE 1

DigitsOf(s) == IF HasSign(s) THEN Tail(s) ELSE s

(* The texts stay texts.                                                   *)
LEMMA DigitsOfIs ==
    ASSUME NEW C, NEW s \in Seq(C)
    PROVE  DigitsOf(s) \in Seq(C) /\ SignOf(s) \in {1, -1}
  BY DEF DigitsOf, SignOf, HasSign

(* What the conversion reads begins with the first character that is no    *)
(* space; the conversion fails if that is not the first of all.            *)
LEMMA StringRead ==
    ASSUME NEW lo \in Int, NEW hi \in Int, lo <= -9, 9 < hi, NEW C, NEW s \in Seq(C),
           NEW v, Sums(v, DigitsOf(s)), NEW n, n = StringToNumber(s, lo, hi, 10)
    PROVE  /\ n \in Conversion
           /\ Right(n, v[Len(DigitsOf(s))], AllDigits(DigitsOf(s)), SignOf(s), lo, hi)
  <1> DEFINE l == Len(s)
             P == {i \in 1..l : s[i] \notin Space}
             begin == Min(P \cup {l + 1})
             seen == SubSeq(s, begin, l)
             sign == SignOf(seen)
             digits == DigitsOf(seen)
             m == DigitsToNumber(digits, sign, lo, hi, 10)
  <1>1. n = [m EXCEPT !.ok = m.ok /\ seen = s]
    BY DEF StringToNumber, From, SignOf, DigitsOf, HasSign
  <1>2. l \in Nat BY LenProperties
  <1>3. begin \in 1..l + 1 /\ \A i \in P \cup {l + 1} : begin <= i
    <2> DEFINE S == P \cup {l + 1}
               b == l + 1
    <2>1. S \subseteq 1..b /\ S # {} /\ b \in Int /\ 1 \in Int BY <1>2
    <2> HIDE DEF S, b
    <2>2. Min(S) \in S /\ \A i \in S : Min(S) <= i BY <2>1, FirstOfRange
    <2>3. Min(S) \in 1..b BY <2>1, <2>2
    <2> QED BY <2>2, <2>3 DEF S, b
  <1> HIDE DEF l
  <1>4. seen \in Seq(C) /\ Len(seen) = l - begin + 1
    <2> HIDE DEF begin
    <2>1. \A i \in begin..l : s[i] \in C
      <3>1. \A i \in begin..l : i \in 1..Len(s) BY <1>2, <1>3 DEF l
      <3> QED BY <3>1, ElementOfSeq
    <2>2. begin \in Int /\ l \in Int BY <1>2, <1>3
    <2>3. seen \in Seq(C) /\ Len(seen) = IF begin <= l THEN l - begin + 1 ELSE 0
      BY <2>1, <2>2, SubSeqProperties
    <2> QED BY <1>2, <1>3, <2>3
  <1> HIDE DEF begin, seen
  <1>5. digits \in Seq(C) /\ sign \in {1, -1} BY <1>4, DigitsOfIs
  <1> HIDE DEF digits, sign
  <1>6. PICK w : Sums(w, digits) BY <1>5, SumsExist
  <1>7. m \in Conversion /\ Right(m, w[Len(digits)], AllDigits(digits), sign, lo, hi)
    BY <1>5, <1>6, AnyDigitsRead
  <1> HIDE DEF m
  <1>8. n \in Conversion /\ n.value = m.value /\ (n.ok <=> m.ok /\ seen = s)
    BY <1>1, <1>7 DEF Conversion
  <1>9. CASE begin = 1
    <2>1. seen = s BY <1>9 DEF seen, l
    <2>2. digits = DigitsOf(s) /\ sign = SignOf(s) BY <2>1 DEF digits, sign
    <2>3. Right(m, v[Len(DigitsOf(s))], AllDigits(DigitsOf(s)), SignOf(s), lo, hi)
      <3>1. DigitsOf(s) \in Seq(C) BY DigitsOfIs
      <3> DEFINE ds == DigitsOf(s)
                 sg == SignOf(s)
      <3>2. m = DigitsToNumber(ds, sg, lo, hi, 10) BY <2>2 DEF m
      <3>3. ds \in Seq(C) /\ sg \in {1, -1} /\ Sums(v, ds) BY <1>5, <2>2, <3>1
      <3> HIDE DEF ds, sg
      <3>4. Right(m, v[Len(ds)], AllDigits(ds), sg, lo, hi) BY <3>2, <3>3, AnyDigitsRead
      <3> QED BY <3>4 DEF ds, sg
    <2> QED BY <1>8, <2>1, <2>3 DEF Right
  <1>10. CASE begin # 1
    <2>1. l > 0 /\ begin > 1 BY <1>2, <1>3, <1>10
    <2>2. s[1] = " "
      <3>1. 1 \notin P BY <1>3, <2>1
      <3>2. 1 \in 1..l BY <1>2, <2>1
      <3> QED BY <3>1, <3>2 DEF Space
    <2>3. seen # s
      <3>1. Len(seen) < Len(s) BY <1>2, <1>3, <1>4, <2>1 DEF l
      <3> QED BY <3>1
    <2>4. DigitsOf(s) = s BY <2>2 DEF DigitsOf, HasSign
    <2>5. ~AllDigits(s)
      <3>1. CharToDigit(s[1], 10) = {} BY <2>2, SpaceIsNoDigit
      <3>2. 1 \in 1..Len(s) BY <1>2, <2>1 DEF l
      <3> QED BY <3>1, <3>2 DEF AllDigits
    <2>6. n.value \in lo..hi BY <1>7, <1>8 DEF Right
    <2>7. ~n.ok BY <1>8, <2>3
    <2> QED BY <1>8, <2>4, <2>5, <2>6, <2>7 DEF Right
  <1> QED BY <1>8, <1>9, <1>10

(* What numbers are written with, and a text that writes k.                *)
Characters == {kDigits[i] : i \in 1..10}

Writes(s, k) ==
    /\ s \in Seq(Characters) /\ AllDigits(s)
    /\ \A v : Sums(v, s) => v[Len(s)] = k

(* A digit writes itself ...                                               *)
LEMMA WritesOne ==
    ASSUME NEW d \in 0..9
    PROVE  Writes(<<kDigits[d + 1]>>, d)
  <1> DEFINE c == kDigits[d + 1]
             s == <<c>>
  <1>1. c \in Characters
    <2>1. d + 1 \in 1..10 OBVIOUS
    <2> QED BY <2>1 DEF Characters
  <1>2. CharToDigit(c, 10) # {} /\ Figure(c) = d BY FigureRead
  <1> HIDE DEF c
  <1>3. s \in Seq(Characters) /\ Len(s) = 1 /\ s[1] = c /\ s # <<>> BY <1>1
  <1> HIDE DEF s
  <1>4. AllDigits(s) BY <1>2, <1>3 DEF AllDigits
  <1>5. ASSUME NEW v, Sums(v, s) PROVE v[Len(s)] = d
    <2>1. v[0] = 0 /\ v[1] = (10 * v[1 - 1]) + Figure(s[1]) BY <1>3, <1>5 DEF Sums
    <2>2. v[1] = d BY <1>2, <1>3, <2>1
    <2> QED BY <1>3, <2>2
  <1>6. Writes(s, d) BY <1>3, <1>4, <1>5 DEF Writes
  <1> QED BY <1>6 DEF s, c

(* ... and one more is worth ten times what was there.                     *)
LEMMA WritesMore ==
    ASSUME NEW s, NEW k \in Nat, Writes(s, k), NEW d \in 0..9
    PROVE  Writes(Append(s, kDigits[d + 1]), (10 * k) + d)
  <1> DEFINE c == kDigits[d + 1]
             n == Len(s)
             t == Append(s, c)
  <1>1. c \in Characters
    <2>1. d + 1 \in 1..10 OBVIOUS
    <2> QED BY <2>1 DEF Characters
  <1>2. CharToDigit(c, 10) # {} /\ Figure(c) = d BY FigureRead
  <1>3. s \in Seq(Characters) /\ AllDigits(s) /\ n \in Nat BY LenProperties DEF Writes
  <1> HIDE DEF c
  <1>4. /\ t \in Seq(Characters) /\ t # <<>> /\ Len(t) = n + 1
        /\ \A i \in 1..n : t[i] = s[i]
        /\ t[n + 1] = c
    BY <1>1, <1>3, AppendProperties
  <1> HIDE DEF n, t
  <1>5. AllDigits(t)
    <2>1. ASSUME NEW i \in 1..Len(t) PROVE CharToDigit(t[i], 10) # {}
      <3>1. CASE i = n + 1 BY <1>2, <1>4, <3>1
      <3>2. CASE i # n + 1
        <4>1. i \in 1..n BY <1>3, <1>4, <3>2
        <4>2. CharToDigit(s[i], 10) # {} BY <1>3, <4>1 DEF AllDigits, n
        <4> QED BY <1>4, <4>1, <4>2
      <3> QED BY <3>1, <3>2
    <2> QED BY <1>4, <2>1 DEF AllDigits
  <1>6. ASSUME NEW v, Sums(v, t) PROVE v[Len(t)] = (10 * k) + d
    <2> DEFINE w == [i \in 0..n |-> v[i]]
    <2>1. /\ v \in [0..n + 1 -> Nat] /\ v[0] = 0
          /\ \A j \in 1..n + 1 : v[j] = (10 * v[j - 1]) + Figure(t[j])
      BY <1>4, <1>6 DEF Sums
    <2>2. Sums(w, s)
      <3>1. \A i \in 0..n : i \in 0..n + 1 /\ w[i] = v[i] BY <1>3
      <3>2. w \in [0..n -> Nat] BY <2>1, <3>1
      <3>3. w[0] = 0 BY <1>3, <2>1
      <3>4. ASSUME NEW j \in 1..n PROVE w[j] = (10 * w[j - 1]) + Figure(s[j])
        <4>1. j \in 1..n + 1 /\ j \in 0..n /\ j - 1 \in 0..n BY <1>3
        <4> HIDE DEF w
        <4>2. v[j] = (10 * v[j - 1]) + Figure(t[j]) BY <2>1, <4>1
        <4>3. w[j] = v[j] /\ w[j - 1] = v[j - 1] /\ t[j] = s[j] BY <1>4, <3>1, <4>1
        <4> QED BY <4>2, <4>3
      <3> HIDE DEF w
      <3> QED BY <3>2, <3>3, <3>4 DEF Sums, n
    <2>3. w[n] = k BY <2>2 DEF Writes, n
    <2>4. v[n] = k BY <1>3, <2>3
    <2> DEFINE j == n + 1
    <2>5. j \in 1..n + 1 /\ j - 1 = n /\ j = n + 1 BY <1>3
    <2> HIDE DEF j
    <2>6. v[j] = (10 * v[n]) + Figure(t[j]) BY <2>1, <2>5
    <2> QED BY <1>2, <1>4, <2>4, <2>5, <2>6
  <1>7. Writes(t, (10 * k) + d) BY <1>4, <1>5, <1>6 DEF Writes
  <1> QED BY <1>7 DEF t, c

(* Spellings(f, a): what NumberToString has for each number up to a.       *)
Spelling(f, k) == IF k < 10 THEN <<kDigits[k + 1]>> ELSE Append(f[k \div 10], kDigits[(k % 10) + 1])

Spellings(f, a) == f = [k \in 0..a |-> Spelling(f, k)]

(* There are such spellings up to every number: the recursion of           *)
(* NumberToString (IntToString's loop of divisions by ten) is defined.     *)
LEMMA SpellingsExist ==
    ASSUME NEW a \in Nat
    PROVE  \E f : Spellings(f, a)
  <1> DEFINE T == Seq(Characters)
             g == [x \in (1..a) \X T |->
                      IF x[1] < 10 THEN <<kDigits[x[1] + 1]>>
                      ELSE Append(x[2], kDigits[(x[1] % 10) + 1])]
             p == [k \in 1..a |-> k \div 10]
             base == <<kDigits[1]>>
  <1>1. \A d \in 0..9 : kDigits[d + 1] \in Characters
    <2>1. \A d \in 0..9 : d + 1 \in 1..10 OBVIOUS
    <2> QED BY <2>1 DEF Characters
  <1>2. base \in T
    <2>1. kDigits[1] \in Characters
      <3>1. 0 \in 0..9 /\ 0 + 1 = 1 OBVIOUS
      <3> QED BY <1>1, <3>1
    <2> QED BY <2>1
  <1>3. g \in [(1..a) \X T -> T]
    <2>1. ASSUME NEW x \in (1..a) \X T
          PROVE  (IF x[1] < 10 THEN <<kDigits[x[1] + 1]>>
                  ELSE Append(x[2], kDigits[(x[1] % 10) + 1])) \in T
      <3> DEFINE k == x[1]
                 y == x[2]
      <3>1. k \in 1..a /\ y \in T OBVIOUS
      <3> HIDE DEF k, y
      <3>2. CASE k < 10
        <4>1. k \in 0..9 BY <3>1, <3>2
        <4>2. kDigits[k + 1] \in Characters BY <1>1, <4>1
        <4>3. <<kDigits[k + 1]>> \in T BY <4>2
        <4> QED BY <3>2, <4>3 DEF k
      <3>3. CASE ~(k < 10)
        <4> DEFINE d == k % 10
        <4>1. d \in 0..9 BY <3>1
        <4> HIDE DEF d
        <4>2. kDigits[d + 1] \in Characters BY <1>1, <4>1
        <4>3. Append(y, kDigits[d + 1]) \in T BY <3>1, <4>2, AppendProperties
        <4> QED BY <3>3, <4>3 DEF k, y, d
      <3> QED BY <3>2, <3>3
    <2> HIDE DEF T
    <2> QED BY <2>1
  <1>4. \A k \in 1..a : p[k] = k \div 10 /\ p[k] \in 0..k - 1
    <2>1. \A k \in 1..a : k \div 10 \in 0..k - 1 OBVIOUS
    <2> QED BY <2>1
  <1>5. \A k \in 1..a, y \in T : g[<<k, y>>] =
            IF k < 10 THEN <<kDigits[k + 1]>> ELSE Append(y, kDigits[(k % 10) + 1])
    <2> HIDE DEF T
    <2> QED OBVIOUS
  <1> HIDE DEF T, g, p, base
  <1>6. PICK f : Recursion(f, base, g, p, a, T) BY <1>2, <1>3, <1>4, RecursionExists
  <1>7. f \in [0..a -> T] /\ f[0] = base BY <1>6 DEF Recursion
  <1>8. ASSUME NEW k \in 0..a PROVE f[k] = Spelling(f, k)
    <2>1. CASE k = 0
      <3>1. 0 < 10 /\ 0 + 1 = 1 OBVIOUS
      <3> QED BY <1>7, <2>1, <3>1 DEF Spelling, base
    <2>2. CASE k # 0
      <3>1. k \in 1..a BY <2>2
      <3>2. p[k] = k \div 10 /\ p[k] \in 0..a BY <1>4, <3>1
      <3>3. f[p[k]] \in T BY <1>7, <3>2
      <3>4. f[k] = g[<<k, f[p[k]]>>] BY <1>6, <3>1 DEF Recursion
      <3> QED BY <1>5, <3>1, <3>2, <3>3, <3>4 DEF Spelling
    <2> QED BY <2>1, <2>2
  <1>9. Spellings(f, a) BY <1>7, <1>8 DEF Spellings
  <1> QED BY <1>9

(* They write the numbers.                                                 *)
LEMMA SpellingWrites ==
    ASSUME NEW a \in Nat, NEW f, Spellings(f, a)
    PROVE  Writes(f[a], a)
  <1> DEFINE S == {k \in Nat : \A j \in 0..k : Writes(f[j], j)}
  <1>1. \A j \in 0..a : f[j] = Spelling(f, j) BY DEF Spellings
  <1>2. \A k \in 0..a : k \in S
    <2>1. 0 \in S
      <3>1. 0 \in 0..a /\ 0 \in 0..9 /\ 0 < 10 /\ \A j \in 0..0 : j = 0 OBVIOUS
      <3>2. f[0] = <<kDigits[0 + 1]>> BY <1>1, <3>1 DEF Spelling
      <3>3. Writes(<<kDigits[0 + 1]>>, 0) BY <3>1, WritesOne
      <3> QED BY <3>1, <3>2, <3>3
    <2>2. ASSUME NEW k \in 1..a, k - 1 \in S PROVE k \in S
      <3>1. Writes(f[k], k)
        <4>1. k \in 0..a /\ k \in Nat OBVIOUS
        <4>2. f[k] = Spelling(f, k) BY <1>1, <4>1
        <4>3. CASE k < 10
          <5>1. k \in 0..9 BY <4>1, <4>3
          <5>2. f[k] = <<kDigits[k + 1]>> BY <4>2, <4>3 DEF Spelling
          <5> QED BY <5>1, <5>2, WritesOne
        <4>4. CASE ~(k < 10)
          <5> DEFINE q == k \div 10
                     d == k % 10
          <5>1. q \in 0..k - 1 /\ q \in Nat /\ d \in 0..9 /\ (10 * q) + d = k OBVIOUS
          <5>2. f[k] = Append(f[q], kDigits[d + 1]) BY <4>2, <4>4 DEF Spelling
          <5> HIDE DEF q, d
          <5>3. Writes(f[q], q) BY <2>2, <5>1
          <5>4. Writes(Append(f[q], kDigits[d + 1]), (10 * q) + d) BY <5>1, <5>3, WritesMore
          <5> QED BY <5>1, <5>2, <5>4
        <4> QED BY <4>3, <4>4
      <3>2. \A j \in 0..k : j \in 0..k - 1 \/ j = k OBVIOUS
      <3> QED BY <2>2, <3>1, <3>2
    <2> HIDE DEF S
    <2> QED BY <2>1, <2>2, InductionUpTo
  <1>3. a \in S /\ a \in 0..a
    <2>1. a \in 0..a OBVIOUS
    <2> HIDE DEF S
    <2> QED BY <1>2, <2>1
  <1> QED BY <1>3

(* IntToString writes the digits of a number, behind a dash if it is       *)
(* negative.                                                               *)
LEMMA NumberToStringIs ==
    ASSUME NEW x \in Int, NEW a \in Nat, a = IF x < 0 THEN -x ELSE x
    PROVE  \E t : Writes(t, a) /\ NumberToString(x) = IF x < 0 THEN <<"-">> \o t ELSE t
  <1> DEFINE f == CHOOSE r : Spellings(r, a)
             F == CHOOSE r : r = [n \in 0..(IF x < 0 THEN -x ELSE x) |->
                                     IF n < 10 THEN <<kDigits[n + 1]>>
                                     ELSE Append(r[n \div 10], kDigits[(n % 10) + 1])]
  <1>1. NumberToString(x) = IF x < 0 THEN <<"-">> \o F[-x] ELSE F[x]
    BY DEF NumberToString
  <1>2. F = f BY DEF Spellings, Spelling
  <1>3. Spellings(f, a)
    <2>1. \E r : Spellings(r, a) BY SpellingsExist
    <2> QED BY <2>1
  <1> HIDE DEF f, F
  <1>4. Writes(f[a], a) BY <1>3, SpellingWrites
  <1>5. NumberToString(x) = IF x < 0 THEN <<"-">> \o f[a] ELSE f[a]
    <2>1. CASE x < 0
      <3>1. a = -x BY <2>1
      <3> QED BY <1>1, <1>2, <2>1, <3>1
    <2>2. CASE ~(x < 0)
      <3>1. a = x BY <2>2
      <3> QED BY <1>1, <1>2, <2>2, <3>1
    <2> QED BY <2>1, <2>2
  <1> QED BY <1>4, <1>5

(* A text of digits has no sign, and behind a dash it is what it was.      *)
LEMMA WrittenSign ==
    ASSUME NEW t, NEW a, Writes(t, a)
    PROVE  /\ DigitsOf(t) = t /\ SignOf(t) = 1
           /\ <<"-">> \o t \in Seq(Characters \cup {"-"})
           /\ DigitsOf(<<"-">> \o t) = t /\ SignOf(<<"-">> \o t) = -1
  <1> DEFINE dash == "-"
             plus == "+"
             D == Characters \cup {dash}
             s == <<dash>> \o t
  <1>1. t \in Seq(Characters) /\ t # <<>> /\ CharToDigit(t[1], 10) # {}
    <2>1. t \in Seq(Characters) /\ AllDigits(t) BY DEF Writes
    <2>2. t # <<>> BY <2>1 DEF AllDigits
    <2>3. 1 \in 1..Len(t) BY <2>1, <2>2
    <2> QED BY <2>1, <2>2, <2>3 DEF AllDigits
  <1>2. t[1] # dash /\ t[1] # plus
    <2> DEFINE d == Figure(t[1])
    <2>1. d \in 0..9 /\ kDigits[d + 1] = t[1] BY <1>1, FigureIs
    <2> HIDE DEF d
    <2>2. kDigits[d + 1] \notin {"-", "+"} BY <2>1, FigureRead
    <2> QED BY <2>1, <2>2
  <1>3. DigitsOf(t) = t /\ SignOf(t) = 1
    <2>1. ~HasSign(t) BY <1>2 DEF HasSign
    <2> QED BY <1>2, <2>1 DEF DigitsOf, SignOf
  <1>4. DigitsOf(s) = (IF s # <<>> /\ s[1] \in {dash, plus} THEN Tail(s) ELSE s)
    BY DEF DigitsOf, HasSign
  <1>5. SignOf(s) = (IF s # <<>> /\ s[1] = dash THEN -1 ELSE 1)
    BY DEF SignOf
  <1> HIDE DEF dash, plus
  <1>6. t \in Seq(D) /\ <<dash>> \in Seq(D)
    <2>1. \A i \in 1..Len(t) : t[i] \in D BY <1>1, ElementOfSeq
    <2>2. t \in [1..Len(t) -> D] /\ Len(t) \in Nat BY <1>1, <2>1, LenProperties
    <2>3. t \in Seq(D) BY <2>2
    <2> QED BY <2>3
  <1>7. /\ s \in Seq(D) /\ Len(s) = 1 + Len(t)
        /\ \A i \in 1..1 + Len(t) : s[i] = IF i <= 1 THEN <<dash>>[i] ELSE t[i - 1]
    <2> HIDE DEF D
    <2>1. Len(<<dash>>) = 1 OBVIOUS
    <2> HIDE DEF s
    <2>2. s = <<dash>> \o t BY DEF s
    <2> DEFINE one == <<dash>>
    <2>3. one \in Seq(D) /\ Len(one) = 1 /\ s = one \o t BY <1>6, <2>1, <2>2
    <2> HIDE DEF one
    <2>4. /\ one \o t \in Seq(D)
          /\ Len(one \o t) = Len(one) + Len(t)
          /\ \A i \in 1..Len(one) + Len(t) :
                (one \o t)[i] = IF i <= Len(one) THEN one[i] ELSE t[i - Len(one)]
      BY <1>6, <2>3, ConcatProperties
    <2> QED BY <2>3, <2>4 DEF one
  <1> HIDE DEF s, D
  <1>8. Len(t) \in Nat BY <1>1, LenProperties
  <1>9. s # <<>> /\ s[1] = dash
    <2>1. 1 \in 1..1 + Len(t) /\ 1 <= 1 BY <1>8
    <2>2. s[1] = <<dash>>[1] BY <1>7, <2>1
    <2>3. <<dash>>[1] = dash OBVIOUS
    <2>4. Len(s) # 0 BY <1>7, <1>8
    <2> QED BY <2>2, <2>3, <2>4
  <1>10. Tail(s) = t
    <2>1. /\ Tail(s) \in Seq(D) /\ Len(Tail(s)) = Len(s) - 1
          /\ \A i \in 1..Len(Tail(s)) : Tail(s)[i] = s[i + 1]
      BY <1>7, <1>9, HeadTailProperties
    <2>2. Len(Tail(s)) = Len(t) BY <1>7, <1>8, <2>1
    <2>3. ASSUME NEW i \in 1..Len(t) PROVE Tail(s)[i] = t[i]
      <3> DEFINE j == i + 1
      <3>1. j \in 1..1 + Len(t) /\ ~(j <= 1) /\ j - 1 = i BY <1>8
      <3>2. Tail(s)[i] = s[j] BY <2>1, <2>2
      <3> HIDE DEF j
      <3> QED BY <1>7, <3>1, <3>2
    <2> DEFINE u == Tail(s)
    <2> HIDE DEF u
    <2>4. u \in Seq(D) /\ Len(u) = Len(t) /\ \A i \in 1..Len(u) : u[i] = t[i]
      BY <2>1, <2>2, <2>3 DEF u
    <2>5. u = t BY <1>6, <2>4, SeqEqual
    <2> QED BY <2>5 DEF u
  <1> QED BY <1>3, <1>4, <1>5, <1>7, <1>9, <1>10 DEF s, D, dash, plus

(* A conversion that succeeds, in full.                                    *)
LEMMA ConversionIs ==
    ASSUME NEW n \in Conversion, n.ok, NEW x, n.value = x
    PROVE  n = [ok |-> TRUE, value |-> x]
  BY DEF Conversion

(* What IntToString writes StringToInt reads, for every number of the type.*)
THEOREM NumbersReadBack ==
    ASSUME NEW lo \in Int, NEW hi \in Int, lo <= -9, 9 < hi, NEW x \in lo..hi
    PROVE  StringToNumber(NumberToString(x), lo, hi, 10) = [ok |-> TRUE, value |-> x]
  <1> DEFINE a == IF x < 0 THEN -x ELSE x
             s == NumberToString(x)
             n == StringToNumber(s, lo, hi, 10)
             sign == IF x < 0 THEN -1 ELSE 1
  <1>1. x \in Int /\ a \in Nat /\ Signed(sign, a) = x /\ lo <= hi BY DEF Signed
  <1> HIDE DEF a
  <1>2. PICK t : Writes(t, a) /\ s = IF x < 0 THEN <<"-">> \o t ELSE t
    <2>1. a = IF x < 0 THEN -x ELSE x BY DEF a
    <2> QED BY <1>1, <2>1, NumberToStringIs
  <1> HIDE DEF s
  <1>3. PICK D : s \in Seq(D) /\ DigitsOf(s) = t /\ SignOf(s) = sign
    <2>1. CASE x < 0 BY <1>2, <2>1, WrittenSign
    <2>2. CASE ~(x < 0)
      <3>1. t \in Seq(Characters) BY <1>2 DEF Writes
      <3>2. DigitsOf(t) = t /\ SignOf(t) = 1 BY <1>2, WrittenSign
      <3> QED BY <1>2, <2>2, <3>1, <3>2
    <2> QED BY <2>1, <2>2
  <1>4. PICK v : Sums(v, t)
    <2>1. t \in Seq(Characters) BY <1>2 DEF Writes
    <2> QED BY <2>1, SumsExist
  <1>5. v[Len(t)] = a /\ AllDigits(t) BY <1>2, <1>4 DEF Writes
  <1>6. n \in Conversion /\ Right(n, v[Len(DigitsOf(s))], AllDigits(DigitsOf(s)), SignOf(s), lo, hi)
    <2>1. Sums(v, DigitsOf(s)) BY <1>3, <1>4
    <2>2. n = StringToNumber(s, lo, hi, 10) OBVIOUS
    <2> HIDE DEF n
    <2> QED BY <1>3, <2>1, <2>2, StringRead
  <1>7. Right(n, a, TRUE, sign, lo, hi) BY <1>3, <1>5, <1>6
  <1> HIDE DEF n, sign
  <1>8. Clamp(x, lo, hi) = IF x > hi THEN hi ELSE IF x < lo THEN lo ELSE x
    BY <1>1, ClampIs
  <1>9. n.ok /\ n.value = x BY <1>1, <1>7, <1>8 DEF Right
  <1>10. n = [ok |-> TRUE, value |-> x] BY <1>6, <1>9, ConversionIs
  <1> QED BY <1>10 DEF n, s

(* StringToInt and IntToString, of a text.                                 *)
LEMMA NumberExactOf ==
    ASSUME text \in Seq(STRING) PROVE NumberExact
  <1> DEFINE n == StringToNumber(text, Lo, Hi, 10)
             signed == text # <<>> /\ text[1] \in {"-", "+"}
             digits == IF signed THEN Tail(text) ELSE text
             value == IF signed /\ text[1] = "-" THEN -Value(digits) ELSE Value(digits)
             sign == SignOf(text)
  <1>1. Lo \in Int /\ Hi \in Int /\ Lo <= -9 /\ 9 < Hi BY ParsingAssumption
  <1>2. digits = DigitsOf(text) BY DEF DigitsOf, HasSign
  <1>3. digits \in Seq(STRING) /\ sign \in {1, -1} BY <1>2, DigitsOfIs
  <1> HIDE DEF digits, n
  <1>4. PICK v : Sums(v, digits) BY <1>3, SumsExist
  <1>5. n \in Conversion /\ Right(n, v[Len(digits)], AllDigits(digits), sign, Lo, Hi)
    <2>1. n = StringToNumber(text, Lo, Hi, 10) BY DEF n
    <2>2. Sums(v, DigitsOf(text)) BY <1>2, <1>4
    <2>3. /\ n \in Conversion
          /\ Right(n, v[Len(DigitsOf(text))], AllDigits(DigitsOf(text)), SignOf(text), Lo, Hi)
      BY <1>1, <2>1, <2>2, StringRead
    <2> QED BY <1>2, <2>3
  <1>6. AllDigits(digits) => value = Signed(sign, v[Len(digits)])
    <2>1. SUFFICES ASSUME AllDigits(digits) PROVE value = Signed(sign, v[Len(digits)]) OBVIOUS
    <2>2. Value(digits) = v[Len(digits)] BY <1>3, <1>4, <2>1, ValueIs
    <2>3. CASE text # <<>> /\ text[1] = "-"
      <3>1. signed /\ sign = -1 /\ ~(sign = 1) BY <2>3 DEF SignOf
      <3> QED BY <2>2, <2>3, <3>1 DEF Signed
    <2>4. CASE ~(text # <<>> /\ text[1] = "-")
      <3>1. ~(signed /\ text[1] = "-") /\ sign = 1 BY <2>4 DEF SignOf
      <3> QED BY <2>2, <3>1 DEF Signed
    <2> QED BY <2>3, <2>4
  <1> HIDE DEF value, sign
  <1>7. n.value \in Lo..Hi BY <1>5 DEF Right
  <1>8. n.ok <=> (AllDigits(digits) /\ value \in Lo..Hi) BY <1>5, <1>6 DEF Right
  <1>9. AllDigits(digits) => n.value = Max({Lo, Min({Hi, value})})
    BY <1>5, <1>6 DEF Right, Clamp
  <1>10. StringToNumber(NumberToString(n.value), Lo, Hi, 10) = [ok |-> TRUE, value |-> n.value]
    BY <1>1, <1>7, NumbersReadBack
  <1> QED BY <1>7, <1>8, <1>9, <1>10 DEF NumberExact, n, digits, value

(* The worth of a text of digits grows with it.                            *)
LEMMA SumsGrow ==
    ASSUME NEW s, NEW v, Sums(v, s), Len(s) \in Nat,
           NEW b \in 0..Len(s), NEW k \in b..Len(s)
    PROVE  v[b] <= v[k]
  <1> DEFINE n == Len(s)
             S == {j \in Nat : b + j <= n => v[b] <= v[b + j]}
  <1>1. /\ v \in [0..n -> Nat]
        /\ \A j \in 1..n : v[j] = (10 * v[j - 1]) + Figure(s[j])
    BY DEF Sums
  <1>2. n \in Nat /\ b \in 0..n /\ k \in b..n OBVIOUS
  <1> HIDE DEF n
  <1>3. \A j \in Nat : j \in S
    <2>1. 0 \in S
      <3>1. b + 0 = b /\ v[b] \in Nat BY <1>1, <1>2
      <3> QED BY <3>1
    <2>2. ASSUME NEW j \in Nat, j \in S PROVE j + 1 \in S
      <3>1. SUFFICES ASSUME b + (j + 1) <= n PROVE v[b] <= v[b + (j + 1)] OBVIOUS
      <3> DEFINE i == b + j
                 m == b + (j + 1)
      <3>2. i \in 0..n /\ m \in 1..n /\ m - 1 = i BY <1>2, <3>1
      <3>3. v[b] <= v[i] BY <2>2, <3>1, <1>2
      <3> HIDE DEF i, m
      <3>4. v[m] = (10 * v[i]) + Figure(s[m]) BY <1>1, <3>2
      <3>5. v[i] \in Nat /\ v[b] \in Nat BY <1>1, <1>2, <3>2
      <3>6. Figure(s[m]) \in 0..9 BY FigureIs
      <3> DEFINE d == Figure(s[m])
      <3> HIDE DEF d
      <3>7. v[m] = (10 * v[i]) + d /\ d \in 0..9 BY <3>4, <3>6 DEF d
      <3>8. v[i] <= (10 * v[i]) + d BY <3>5, <3>7
      <3>9. v[m] \in Nat BY <3>5, <3>7
      <3>10. v[b] <= v[m] BY <3>3, <3>5, <3>7, <3>8, <3>9
      <3> QED BY <3>10 DEF m
    <2> HIDE DEF S
    <2> QED BY <2>1, <2>2, InductionOver
  <1>4. k - b \in Nat /\ b + (k - b) = k /\ k <= n BY <1>2
  <1>5. k - b \in S
    <2> HIDE DEF S
    <2> QED BY <1>3, <1>4
  <1> QED BY <1>4, <1>5

(* Six digits that do not begin with a zero are worth more than 65535.     *)
LEMMA SixDigits ==
    ASSUME NEW s, NEW v, Sums(v, s), Len(s) \in Nat, NEW b \in 0..Len(s), b + 6 <= Len(s),
           Figure(s[b + 1]) # 0
    PROVE  v[Len(s)] > 65535
  <1> DEFINE n == Len(s)
  <1>1. /\ v \in [0..n -> Nat]
        /\ \A j \in 1..n : v[j] = (10 * v[j - 1]) + Figure(s[j])
    BY DEF Sums
  <1>2. n \in Nat /\ b \in Nat /\ b + 6 <= n OBVIOUS
  <1> HIDE DEF n
  <1>3. \A j \in 1..n : v[j] \in Nat /\ v[j - 1] \in Nat /\ v[j] >= 10 * v[j - 1]
    <2> TAKE j \in 1..n
    <2>1. j \in 0..n /\ j - 1 \in 0..n BY <1>2
    <2>2. v[j] \in Nat /\ v[j - 1] \in Nat BY <1>1, <2>1
    <2>3. Figure(s[j]) \in 0..9 BY FigureIs
    <2>4. v[j] = (10 * v[j - 1]) + Figure(s[j]) BY <1>1
    <2> DEFINE d == Figure(s[j])
    <2> HIDE DEF d
    <2>5. d \in 0..9 /\ v[j] = (10 * v[j - 1]) + d BY <2>3, <2>4 DEF d
    <2> QED BY <2>2, <2>5
  <1> DEFINE a1 == b + 1
             a2 == b + 2
             a3 == b + 3
             a4 == b + 4
             a5 == b + 5
             a6 == b + 6
  <1>4. /\ a1 \in 1..n /\ a2 \in 1..n /\ a3 \in 1..n /\ a4 \in 1..n /\ a5 \in 1..n /\ a6 \in 1..n
        /\ a1 - 1 = b /\ a2 - 1 = a1 /\ a3 - 1 = a2 /\ a4 - 1 = a3 /\ a5 - 1 = a4 /\ a6 - 1 = a5
        /\ b \in 0..n
    BY <1>2
  <1>5. v[a1] >= 1 /\ v[a1] \in Nat
    <2>1. Figure(s[a1]) # 0 OBVIOUS
    <2> HIDE DEF a1
    <2> DEFINE d == Figure(s[a1])
    <2>2. d \in 0..9 BY FigureIs
    <2> HIDE DEF d
    <2>3. d # 0 BY <2>1 DEF d
    <2>4. v[a1] = (10 * v[b]) + d /\ v[b] \in Nat BY <1>1, <1>4 DEF d
    <2> QED BY <2>2, <2>3, <2>4
  <1> HIDE DEF a1, a2, a3, a4, a5, a6
  <1>6. v[a2] >= 10 /\ v[a2] \in Nat
    <2>1. v[a2] >= 10 * v[a1] /\ v[a2] \in Nat BY <1>3, <1>4
    <2> QED BY <1>5, <2>1
  <1>7. v[a3] >= 100 /\ v[a3] \in Nat
    <2>1. v[a3] >= 10 * v[a2] /\ v[a3] \in Nat BY <1>3, <1>4
    <2> QED BY <1>6, <2>1
  <1>8. v[a4] >= 1000 /\ v[a4] \in Nat
    <2>1. v[a4] >= 10 * v[a3] /\ v[a4] \in Nat BY <1>3, <1>4
    <2> QED BY <1>7, <2>1
  <1>9. v[a5] >= 10000 /\ v[a5] \in Nat
    <2>1. v[a5] >= 10 * v[a4] /\ v[a5] \in Nat BY <1>3, <1>4
    <2> QED BY <1>8, <2>1
  <1>10. v[a6] >= 100000 /\ v[a6] \in Nat
    <2>1. v[a6] >= 10 * v[a5] /\ v[a6] \in Nat BY <1>3, <1>4
    <2> QED BY <1>9, <2>1, SMT
  <1>11. v[a6] <= v[n]
    <2>1. a6 \in 0..n /\ n \in a6..n BY <1>2, <1>4
    <2>2. Sums(v, s) /\ Len(s) \in Nat OBVIOUS
    <2> QED BY <2>1, <2>2, SumsGrow DEF n
  <1>12. v[n] \in Nat /\ v[n] > 65535
    <2>1. v[n] \in Nat
      <3>1. n \in 0..n BY <1>2
      <3> QED BY <1>1, <3>1
    <2> QED BY <1>10, <1>11, <2>1, SMT
  <1> QED BY <1>12 DEF n

(* Leading zeros are worth nothing.                                        *)
LEMMA LeadingZeros ==
    ASSUME NEW s, NEW v, Sums(v, s), Len(s) \in Nat, NEW b \in 0..Len(s),
           \A i \in 1..b : Figure(s[i]) = 0
    PROVE  v[b] = 0
  <1> DEFINE n == Len(s)
             S == {j \in Nat : v[j] = 0}
  <1>1. /\ v \in [0..n -> Nat] /\ v[0] = 0
        /\ \A j \in 1..n : v[j] = (10 * v[j - 1]) + Figure(s[j])
    BY DEF Sums
  <1>2. n \in Nat /\ b \in 0..n OBVIOUS
  <1> HIDE DEF n
  <1>3. \A j \in 0..b : j \in S
    <2>1. 0 \in S BY <1>1
    <2>2. ASSUME NEW j \in 1..b, j - 1 \in S PROVE j \in S
      <3>1. j \in 1..n /\ j \in Nat /\ v[j - 1] = 0 /\ Figure(s[j]) = 0 BY <1>2, <2>2
      <3>2. v[j] = (10 * v[j - 1]) + Figure(s[j]) BY <1>1, <3>1
      <3>3. v[j] = (10 * 0) + 0 BY <3>1, <3>2
      <3> QED BY <3>1, <3>3
    <2>3. b \in Nat BY <1>2
    <2> HIDE DEF S
    <2> QED BY <2>1, <2>2, <2>3, InductionUpTo
  <1> QED BY <1>2, <1>3

(* Leading zeroes (or what stands before the figures) do not count: the sum *)
(* over s ends where the sum over its rest does.                           *)
LEMMA SumsOfRest ==
    ASSUME NEW s, NEW v, Sums(v, s), NEW t, NEW w, Sums(w, t), NEW b \in Nat,
           RestOf(s, t, b), v[b] = 0
    PROVE  v[Len(s)] = w[Len(t)]
  <1> DEFINE n == Len(t)
             S == {j \in Nat : v[b + j] = w[j]}
  <1>1. /\ v \in [0..b + n -> Nat]
        /\ \A j \in 1..b + n : v[j] = (10 * v[j - 1]) + Figure(s[j])
    <2>1. Len(s) = b + n BY DEF RestOf
    <2> QED BY <2>1 DEF Sums
  <1>2. /\ w \in [0..n -> Nat] /\ w[0] = 0
        /\ \A j \in 1..n : w[j] = (10 * w[j - 1]) + Figure(t[j])
    BY DEF Sums
  <1>3. n \in Nat /\ Len(s) = b + n /\ \A i \in 1..n : t[i] = s[b + i] BY DEF RestOf
  <1> HIDE DEF n
  <1>4. \A j \in 0..n : j \in S
    <2>1. 0 \in S
      <3>1. b + 0 = b OBVIOUS
      <3> QED BY <1>2, <3>1
    <2>2. ASSUME NEW j \in 1..n, j - 1 \in S PROVE j \in S
      <3> DEFINE m == b + j
      <3>1. m \in 1..b + n /\ m - 1 = b + (j - 1) /\ j \in Nat BY <1>3
      <3>2. v[m - 1] = w[j - 1] BY <2>2, <3>1
      <3>3. s[m] = t[j] BY <1>3
      <3> HIDE DEF m
      <3>4. v[m] = (10 * v[m - 1]) + Figure(s[m]) BY <1>1, <3>1
      <3>5. w[j] = (10 * w[j - 1]) + Figure(t[j]) BY <1>2
      <3>6. v[m] = w[j] BY <3>2, <3>3, <3>4, <3>5
      <3> QED BY <3>1, <3>6 DEF m
    <2> HIDE DEF S
    <2> QED BY <1>3, <2>1, <2>2, InductionUpTo
  <1>5. n \in 0..n BY <1>3
  <1>6. v[b + n] = w[n] BY <1>4, <1>5
  <1> QED BY <1>3, <1>6 DEF n

(* ParsePort of a text.                                                    *)
LEMMA PortExactOf ==
    ASSUME text \in Seq(STRING) PROVE PortExact
  <1> DEFINE l == Len(text)
             c == MakeRange(0, l)
             C == {text[i] : i \in 1..l} \ {"0"}
             begin == FirstAt(text, C, 0, l)
             t == SubSeq(text, begin + 1, l)
             digits == \A i \in 1..Len(t) : IsDigit(t[i])
             answer == IF c.len <= 0 THEN PORT_UNSPECIFIED
                       ELSE IF t = <<>> THEN 0
                       ELSE IF Len(t) > 5 THEN PORT_INVALID
                       ELSE IF \E i \in 1..Len(t) : ~IsDigit(t[i]) THEN PORT_INVALID
                       ELSE IF Decimal(Digits(t)) > 65535 THEN PORT_INVALID
                       ELSE Decimal(Digits(t))
  <1>1. l \in Nat BY LenProperties
  <1>2. c.begin = 0 /\ c.len = l /\ End(c) = l BY <1>1 DEF MakeRange, End
  <1>3. ParsePort(text, c) = answer
    <2> DEFINE Rest(b, e) == SubSeq(text, FirstAt(text, {text[i] : i \in 1..Len(text)} \ {"0"},
                                                  b, e) + 1, e)
               Answer(r) == IF c.len <= 0 THEN PORT_UNSPECIFIED
                            ELSE IF r = <<>> THEN 0
                            ELSE IF Len(r) > 5 THEN PORT_INVALID
                            ELSE IF \E i \in 1..Len(r) : ~IsDigit(r[i]) THEN PORT_INVALID
                            ELSE IF Decimal(Digits(r)) > 65535 THEN PORT_INVALID
                            ELSE Decimal(Digits(r))
    <2>1. ParsePort(text, c) = Answer(Rest(c.begin, End(c)))
      BY DEF ParsePort, kMaxDigits
    <2>2. answer = Answer(Rest(0, l)) OBVIOUS
    <2> HIDE DEF Rest, Answer, answer, c
    <2> QED BY <1>2, <2>1, <2>2
  <1> HIDE DEF c, l, C
  <1>4. /\ begin \in 0..l
        /\ \A i \in 0..l : i < begin => text[i + 1] \notin C
        /\ begin < l => text[begin + 1] \in C
    BY <1>1, FirstAtIs
  <1> HIDE DEF begin
  <1>5. /\ t \in Seq(STRING) /\ Len(t) = l - begin
        /\ \A i \in 1..l - begin : t[i] = text[begin + i]
    <2>1. begin \in Nat /\ l \in Nat /\ begin <= l /\ l <= Len(text) BY <1>1, <1>4 DEF l
    <2>2. t = Piece(text, begin, l) BY DEF Piece
    <2>3. /\ Piece(text, begin, l) \in Seq(STRING)
          /\ Len(Piece(text, begin, l)) = l - begin
          /\ \A i \in 1..l - begin : Piece(text, begin, l)[i] = text[begin + i]
      BY <2>1, PieceIs
    <2> QED BY <2>2, <2>3
  <1> HIDE DEF t
  <1>6. ASSUME NEW i \in 1..begin PROVE Figure(text[i]) = 0 /\ CharToDigit(text[i], 10) # {}
    <2> DEFINE j == i - 1
    <2>1. j \in 0..l /\ j < begin /\ j + 1 = i /\ i \in 1..l BY <1>1, <1>4
    <2> HIDE DEF j
    <2>2. text[i] \notin C BY <1>4, <2>1
    <2>3. text[i] = "0" BY <2>1, <2>2 DEF C
    <2>4. text[i] = kDigits[0 + 1] BY <2>3 DEF kDigits
    <2>5. 0 \in 0..9 OBVIOUS
    <2> QED BY <2>4, <2>5, FigureRead
  <1>7. begin < l => text[begin + 1] # "0"
    BY <1>4 DEF C
  <1>8. PICK v : Sums(v, text) BY SumsExist
  <1>9. PICK w : Sums(w, t) BY <1>5, SumsExist
  <1>10. v[begin] = 0
    <2>1. Len(text) \in Nat /\ begin \in 0..Len(text) BY <1>1, <1>4 DEF l
    <2>2. \A i \in 1..begin : Figure(text[i]) = 0 BY <1>6
    <2> QED BY <1>8, <2>1, <2>2, LeadingZeros
  <1>11. v[l] = w[Len(t)]
    <2>1. begin \in Nat /\ Len(t) \in Nat /\ Len(text) = begin + Len(t) BY <1>1, <1>4, <1>5 DEF l
    <2>2. \A i \in 1..Len(t) : t[i] = text[begin + i] BY <1>5
    <2>3. RestOf(text, t, begin) BY <2>1, <2>2 DEF RestOf
    <2>4. v[Len(text)] = w[Len(t)] BY <1>8, <1>9, <1>10, <2>1, <2>3, SumsOfRest
    <2> QED BY <2>4 DEF l
  <1>12. text # <<>> => (AllDigits(text) <=> digits)
    <2> SUFFICES ASSUME text # <<>> PROVE AllDigits(text) <=> digits OBVIOUS
    <2>1. AllDigits(text) <=> \A i \in 1..l : CharToDigit(text[i], 10) # {}
      BY DEF AllDigits, l
    <2>2. digits <=> \A i \in 1..l - begin : CharToDigit(text[begin + i], 10) # {}
      BY <1>5, FigureIs
    <2> HIDE DEF digits
    <2>3. ASSUME digits, NEW i \in 1..l PROVE CharToDigit(text[i], 10) # {}
      <3>1. CASE i <= begin
        <4>1. i \in 1..begin BY <1>1, <1>4, <3>1
        <4> QED BY <1>6, <4>1
      <3>2. CASE ~(i <= begin)
        <4> DEFINE j == i - begin
        <4>1. j \in 1..l - begin /\ begin + j = i BY <1>1, <1>4, <3>2
        <4> HIDE DEF j
        <4> QED BY <2>2, <2>3, <4>1
      <3> QED BY <3>1, <3>2
    <2>4. ASSUME AllDigits(text), NEW i \in 1..l - begin
          PROVE  CharToDigit(text[begin + i], 10) # {}
      <3> DEFINE j == begin + i
      <3>1. j \in 1..l BY <1>1, <1>4
      <3> HIDE DEF j
      <3>2. CharToDigit(text[j], 10) # {} BY <2>1, <2>4, <3>1
      <3> QED BY <3>2 DEF j
    <2> QED BY <2>1, <2>2, <2>3, <2>4
  <1>13. digits => Decimal(Digits(t)) = w[Len(t)]
    <2> SUFFICES ASSUME digits PROVE Decimal(Digits(t)) = w[Len(t)] OBVIOUS
    <2>1. \A i \in 1..Len(t) : DigitValue(t[i]) = Figure(t[i]) BY FigureIs
    <2> DEFINE ds == Digits(t)
    <2>2. ds = [i \in 1..Len(t) |-> Figure(t[i])] BY <2>1 DEF Digits
    <2> HIDE DEF ds
    <2>3. Decimal(ds) = w[Len(t)] BY <1>5, <1>9, <2>2, DecimalIs
    <2> QED BY <2>3 DEF ds
  <1>14. AllDigits(text) => Value(text) = v[l] BY <1>8, ValueIs DEF l
  <1>15. (digits /\ Len(t) > 5) => v[l] > 65535
    <2> SUFFICES ASSUME digits, Len(t) > 5 PROVE v[l] > 65535 OBVIOUS
    <2>1. begin < l /\ begin + 6 <= l BY <1>1, <1>4, <1>5
    <2>2. Figure(text[begin + 1]) # 0
      <3>1. 1 \in 1..Len(t) /\ 1 \in 1..l - begin BY <1>1, <1>4, <1>5, <2>1
      <3>2. IsDigit(t[1]) /\ t[1] = text[begin + 1] BY <1>5, <3>1
      <3> DEFINE ch == text[begin + 1]
      <3>3. ch # "0" /\ IsDigit(ch) BY <1>7, <2>1, <3>2
      <3> HIDE DEF ch
      <3>4. kDigits[Figure(ch) + 1] = ch BY <3>3, FigureIs
      <3>5. kDigits[0 + 1] = "0" BY DEF kDigits
      <3>6. Figure(ch) # 0
        <4> SUFFICES ASSUME Figure(ch) = 0 PROVE FALSE OBVIOUS
        <4>1. kDigits[0 + 1] = ch BY <3>4
        <4> QED BY <3>3, <3>5, <4>1
      <3> QED BY <3>6 DEF ch
    <2>3. Len(text) \in Nat /\ begin \in 0..Len(text) /\ begin + 6 <= Len(text)
      BY <1>1, <1>4, <2>1 DEF l
    <2>4. v[Len(text)] > 65535 BY <1>8, <2>2, <2>3, SixDigits
    <2> QED BY <2>4 DEF l
  <1>16. v[l] \in Nat
    <2>1. l \in 0..l BY <1>1
    <2> QED BY <1>8, <2>1 DEF Sums, l
  <1> DEFINE meant == IF text = <<>> THEN PORT_UNSPECIFIED
                      ELSE IF AllDigits(text) /\ Value(text) <= 65535 THEN Value(text)
                      ELSE PORT_INVALID
  <1>17. answer = meant
    <2>1. digits <=> ~\E i \in 1..Len(t) : ~IsDigit(t[i]) OBVIOUS
    <2> HIDE DEF digits
    <2>2. CASE text = <<>>
      <3>1. l = 0 BY <2>2 DEF l
      <3> QED BY <1>2, <2>2, <3>1
    <2>3. CASE text # <<>> /\ t = <<>>
      <3>1. ~(c.len <= 0)
        <4>1. l # 0 BY <2>3 DEF l
        <4> QED BY <1>1, <1>2, <4>1
      <3>2. Len(t) = 0 BY <2>3
      <3>3. digits BY <3>2 DEF digits
      <3>4. w[Len(t)] = 0 BY <1>9, <3>2 DEF Sums
      <3>5. AllDigits(text) /\ Value(text) = 0
        BY <1>11, <1>12, <1>14, <2>3, <3>3, <3>4
      <3>6. 0 <= 65535 OBVIOUS
      <3> QED BY <2>3, <3>1, <3>5, <3>6
    <2>4. CASE text # <<>> /\ t # <<>>
      <3>1. ~(c.len <= 0)
        <4>1. l # 0 BY <2>4 DEF l
        <4> QED BY <1>1, <1>2, <4>1
      <3>2. CASE ~digits
        BY <1>12, <2>4, <2>1, <3>1, <3>2
      <3>3. CASE digits /\ Len(t) > 5
        <4>1. Value(text) = v[l] BY <1>12, <1>14, <2>4, <3>3
        <4>2. ~(Value(text) <= 65535) BY <1>15, <1>16, <3>3, <4>1
        <4> QED BY <2>4, <3>1, <3>3, <4>2
      <3>4. CASE digits /\ ~(Len(t) > 5)
        <4>1. AllDigits(text) /\ Value(text) = v[l] BY <1>12, <1>14, <2>4, <3>4
        <4>2. Decimal(Digits(t)) = v[l] BY <1>11, <1>13, <3>4
        <4>3. v[l] > 65535 <=> ~(v[l] <= 65535) BY <1>16
        <4> QED BY <2>4, <2>1, <3>1, <3>4, <4>1, <4>2, <4>3
      <3> QED BY <3>2, <3>3, <3>4
    <2> QED BY <2>2, <2>3, <2>4
  <1> HIDE DEF answer
  <1> QED BY <1>3, <1>17 DEF PortExact, c, l

(* So NumbersExact holds of a text.                                        *)
LEMMA NumbersExactOf ==
    ASSUME IsText PROVE NumbersExact
  <1>1. job \in {"number", "port"} => text \in Seq(STRING) BY DEF IsText
  <1> QED BY <1>1, NumberExactOf, PortExactOf DEF NumbersExact

(* NumbersExact holds of every text, every range of a signed number type   *)
(* that has room for a decimal digit, and every port.                      *)
THEOREM NumbersAreExact == Spec => []NumbersExact
  BY TextKept, NumbersExactOf, PTL

-----------------------------------------------------------------------------
(* Patterns.                                                               *)

(* A pattern means a text if all of it can stand for all of the text.      *)
LEMMA IsMatchIs ==
    ASSUME NEW s \in Seq(STRING), NEW p \in Seq(STRING)
    PROVE  \E M : Meanings(M, s, p) /\ (IsMatch(s, p) <=> Len(s) \in M[Len(p)])
  <1> DEFINE b == Len(p)
             Is(M) == M = [j \in 0..b |-> IF j = 0 THEN {0} ELSE MeaningOfOne(s, p[j], M[j - 1])]
             chosen == CHOOSE M : Is(M)
  <1>1. b \in Nat /\ Len(s) \in Nat BY LenProperties
  <1>2. IsMatch(s, p) <=> Len(s) \in chosen[b]
    BY Zenon DEF IsMatch, MeaningOfOne
  <1>3. PICK M : Meanings(M, s, p) BY MeaningsExist
  <1>4. Is(M)
    <2>1. M \in [0..b -> SUBSET (0..Len(s))] BY <1>3 DEF Meanings
    <2>2. ASSUME NEW j \in 0..b
          PROVE  M[j] = IF j = 0 THEN {0} ELSE MeaningOfOne(s, p[j], M[j - 1])
      <3>1. CASE j = 0 BY <1>3, <3>1 DEF Meanings
      <3>2. CASE j # 0
        <4>1. j \in 1..Len(p) BY <1>1, <3>2
        <4> QED BY <1>3, <3>2, <4>1 DEF Meanings
      <3> QED BY <3>1, <3>2
    <2> HIDE DEF b
    <2> QED BY <2>1, <2>2
  <1>5. Is(chosen)
    <2> HIDE DEF Is
    <2> QED BY <1>4
  <1> HIDE DEF chosen
  <1>6. /\ DOMAIN chosen = 0..b /\ chosen[0] = {0}
        /\ \A j \in 1..b : chosen[j] = MeaningOfOne(s, p[j], chosen[j - 1])
        /\ chosen = [j \in 0..b |-> chosen[j]]
    <2>1. DOMAIN chosen = 0..b /\ chosen = [j \in 0..b |-> chosen[j]] BY <1>5
    <2>2. chosen[0] = {0}
      <3>1. 0 \in 0..b BY <1>1
      <3> QED BY <1>5, <3>1
    <2>3. ASSUME NEW j \in 1..b PROVE chosen[j] = MeaningOfOne(s, p[j], chosen[j - 1])
      <3>1. j \in 0..b /\ j # 0 BY <1>1
      <3> QED BY <1>5, <3>1
    <2> HIDE DEF Is
    <2> QED BY <2>1, <2>2, <2>3
  <1>7. chosen \in [0..b -> SUBSET (0..Len(s))]
    <2>1. ASSUME NEW ch, NEW before
          PROVE  MeaningOfOne(s, ch, before) \in SUBSET (0..Len(s))
      BY <1>1 DEF MeaningOfOne
    <2>2. ASSUME NEW j \in 0..b PROVE chosen[j] \in SUBSET (0..Len(s))
      <3>1. CASE j = 0 BY <1>1, <1>6, <3>1
      <3>2. CASE j # 0
        <4>1. j \in 1..b BY <1>1, <3>2
        <4> QED BY <1>6, <2>1, <4>1
      <3> QED BY <3>1, <3>2
    <2> HIDE DEF b, Is
    <2> QED BY <1>6, <2>2
  <1>8. Meanings(chosen, s, p) BY <1>6, <1>7 DEF Meanings, b
  <1> QED BY <1>2, <1>8 DEF b

(* MatchVlogPattern, with its shortcuts over stars and over texts that are *)
(* used up, decides what a pattern means, for every text and pattern.      *)
THEOREM PatternsMatch ==
    ASSUME NEW s \in Seq(STRING), NEW p \in Seq(STRING)
    PROVE  MatchVlogPattern(s, p) <=> IsMatch(s, p)
  <1>1. PICK R : Rests(R, s, p) BY RestsExist
  <1>2. PICK M : Meanings(M, s, p) /\ (IsMatch(s, p) <=> Len(s) \in M[Len(p)]) BY IsMatchIs
  <1> QED BY <1>1, <1>2, MatchVlogPatternIs, MeetInTheMiddle

(* The switches of PatternMeans: a pattern, its level, and a second pair.  *)
LEMMA PatternMeansOf ==
    ASSUME IsText PROVE PatternMeans
  <1> SUFFICES ASSUME job = "file" PROVE PatternMeans
    BY DEF PatternMeans
  <1> DEFINE one == pattern \o <<"=", "1">>
             more == one \o <<",", "*", "=", "2">>
             t == <<",", "*", "=", "2">>
  <1>1. text \in Seq(STRING) /\ pattern \in Seq(STRING) BY DEF IsText
  <1>2. MatchVlogPattern(text, pattern) <=> IsMatch(text, pattern)
    BY <1>1, PatternsMatch
  <1> DEFINE c == ","
             d == "*"
             e == "="
             f == "2"
             o == "1"
             C == STRING \cup {c, d, e, f, o}
  <1>3. one = pattern \o <<e, o>> /\ t = <<c, d, e, f>> /\ c = Comma BY DEF Comma
  <1>4. more = one \o t OBVIOUS
  <1> HIDE DEF one, t, more, c, d, e, f, o
  <1>5. one \in Seq(C)
    <2>1. e \in C /\ o \in C OBVIOUS
    <2>2. pattern \in Seq(C) BY <1>1, SeqMonotonic
    <2> HIDE DEF C
    <2>3. <<e, o>> \in Seq(C) BY <2>1
    <2> QED BY <1>3, <2>2, <2>3, ConcatProperties
  <1>6. t \in Seq(C) /\ t # <<>> /\ t[1] = Comma
    <2>1. c \in C /\ d \in C /\ e \in C /\ f \in C OBVIOUS
    <2> HIDE DEF C
    <2>2. <<c, d, e, f>> \in Seq(C) /\ <<c, d, e, f>> # <<>> /\ <<c, d, e, f>>[1] = c
      BY <2>1
    <2> QED BY <1>3, <2>2
  <1> HIDE DEF C
  <1>7. Extends(VlogInfo(more), VlogInfo(one)) BY <1>4, <1>5, <1>6, LevelsExtend
  <1>8. GetVlogLevel(VlogInfo(one), 0, text) = 1 => GetVlogLevel(VlogInfo(more), 0, text) = 1
    <2> DEFINE u == VlogInfo(more)
               v == VlogInfo(one)
    <2>1. 1 # 0 OBVIOUS
    <2> HIDE DEF u, v
    <2>2. Extends(u, v) BY <1>7 DEF u, v
    <2>3. GetVlogLevel(v, 0, text) = 1 => GetVlogLevel(u, 0, text) = 1
      BY <2>1, <2>2, FirstDecides
    <2> QED BY <2>3 DEF u, v
  <1> QED BY <1>2, <1>8 DEF PatternMeans, one, more

(* A pattern of --vmodule matches the files it means, and the first of two *)
(* that match decides, for every file and pattern.                         *)
THEOREM PatternsAreMeant == Spec => []PatternMeans
  BY TextKept, PatternMeansOf, PTL

-----------------------------------------------------------------------------
(* Command lines.                                                          *)

(* One more position at the end, and its element.                          *)
LEMMA InOrderAppend ==
    ASSUME NEW W, NEW s \in Seq(W), NEW x \in W, NEW k \in Nat, NEW f, NEW g,
           DOMAIN f \subseteq 1..k, DOMAIN g = DOMAIN f \cup {k + 1},
           \A i \in DOMAIN f : g[i] = f[i], g[k + 1] = x, InOrder(s, f)
    PROVE  InOrder(Append(s, x), g)
  <1> DEFINE S == DOMAIN f
             T == DOMAIN g
             n == Cardinality(S)
             t == Append(s, x)
             Below(D, i) == {j \in D : j <= i}
  <1>1. /\ S \subseteq 1..k /\ T = S \cup {k + 1} /\ k + 1 \notin S
        /\ \A i \in S : g[i] = f[i]
    OBVIOUS
  <1>2. Len(s) = n /\ \A i \in S : s[Cardinality(Below(S, i))] = f[i] BY DEF InOrder
  <1> HIDE DEF S, T
  <1>3. IsFiniteSet(1..k) BY FS_Interval
  <1>4. IsFiniteSet(S) /\ n \in Nat BY <1>1, <1>3, FS_Subset, FS_CardinalityType
  <1>5. Cardinality(T) = n + 1 BY <1>1, <1>4, FS_AddElement
  <1>6. Len(t) = n + 1 /\ t[n + 1] = x /\ \A i \in 1..n : t[i] = s[i]
    BY <1>2, AppendProperties
  <1>7. ASSUME NEW i \in S PROVE t[Cardinality(Below(T, i))] = g[i]
    <2>1. Below(T, i) = Below(S, i) BY <1>1
    <2> DEFINE B == Below(S, i)
    <2>2. B \subseteq S /\ i \in B BY <1>1
    <2> HIDE DEF Below, B
    <2>3. IsFiniteSet(B) /\ Cardinality(B) <= n BY <1>4, <2>2, FS_Subset
    <2>4. Cardinality(B) \in Nat /\ Cardinality(B) # 0
      BY <2>2, <2>3, FS_CardinalityType, FS_EmptySet
    <2>5. Cardinality(B) \in 1..n BY <1>4, <2>3, <2>4
    <2>6. t[Cardinality(B)] = s[Cardinality(B)] BY <1>6, <2>5
    <2>7. s[Cardinality(B)] = f[i] BY <1>2, <1>7 DEF B
    <2> QED BY <1>1, <2>1, <2>6, <2>7 DEF B
  <1>8. t[Cardinality(Below(T, k + 1))] = g[k + 1]
    <2>1. Below(T, k + 1) = T
      <3>1. \A j \in S : j <= k + 1 BY <1>1
      <3>2. \A j \in T : j <= k + 1 BY <1>1, <3>1
      <3> QED BY <3>2
    <2> HIDE DEF Below
    <2>2. t[n + 1] = g[k + 1] BY <1>6
    <2> QED BY <1>5, <2>1, <2>2
  <1>9. \A i \in T : t[Cardinality(Below(T, i))] = g[i] BY <1>1, <1>7, <1>8
  <1> HIDE DEF n, t
  <1> QED BY <1>5, <1>6, <1>9 DEF InOrder, T, t

(* The inductive invariant: after the first k words, argv_ is the program, *)
(* the switches read and the arguments read, begin_args_ is where these    *)
(* begin, and the loop still looks for switches until it met a terminator. *)
Shows(words, k, l, sw, args) ==
    /\ Elements(l.argv, <<>>, sw, args) /\ l.begin = Len(sw) + 2
    /\ InOrder(sw, [i \in SwitchesAt(words, k) |-> CombinedSwitch(words[i])])
    /\ Ends(args) <=> Terminator(words) <= k
    /\ InOrder(Without(args), [i \in OthersAt(words, k) |-> words[i]])
    /\ ValuesAre(l.switches, words, SwitchesAt(words, k))

LineIs(words, k, l) ==
    /\ Fields(l)
    /\ l.parsing <=> k < Terminator(words)
    /\ \E sw, args \in Seq(AllWords(words)) : Shows(words, k, l, sw, args)

(* A turn of AppendSwitchesAndArguments keeps it.                          *)
LEMMA LineGrows ==
    ASSUME NEW words, WordsAre(words), NEW k \in Nat, k + 1 <= Len(words),
           NEW l, LineIs(words, k, l), NEW next, next = AppendArgument(l, words[k + 1])
    PROVE  LineIs(words, k + 1, next)
  <1> DEFINE W == AllWords(words)
             stop == Terminator(words)
             w == words[k + 1]
             c == kSwitchTerminator
             S == SwitchesAt(words, k)
             T == SwitchesAt(words, k + 1)
             O == OthersAt(words, k)
             P == OthersAt(words, k + 1)
  <1>1. Len(words) \in Nat /\ k + 1 \in 1..Len(words) /\ TrimString(w) = w BY DEF WordsAre
  <1>2. /\ stop \in 1..Len(words) + 1 /\ S \subseteq 1..k /\ O \subseteq 1..k
        /\ w = c => stop <= k + 1
        /\ stop = k + 1 => w = c
        /\ IF k + 1 < stop /\ IsSwitch(w) THEN T = S \cup {k + 1} /\ P = O
           ELSE T = S /\ P = IF k + 1 = stop THEN O ELSE O \cup {k + 1}
    BY <1>1, PositionsGrow
  <1>3. w \in W /\ CombinedSwitch(w) \in W /\ <<>> \in W BY <1>1 DEF AllWords
  <1>4. Fields(l) /\ (l.parsing <=> k < stop) BY DEF LineIs
  <1>5. PICK sw, args \in Seq(W) : Shows(words, k, l, sw, args) BY DEF LineIs
  <1> DEFINE f == [i \in S |-> CombinedSwitch(words[i])]
             g == [i \in O |-> words[i]]
             ff == [i \in T |-> CombinedSwitch(words[i])]
             gg == [i \in P |-> words[i]]
  <1>6. /\ Elements(l.argv, <<>>, sw, args) /\ l.begin = Len(sw) + 2
        /\ InOrder(sw, f) /\ (Ends(args) <=> stop <= k) /\ InOrder(Without(args), g)
        /\ ValuesAre(l.switches, words, S)
    BY <1>5 DEF Shows
  <1>7. Len(sw) \in Nat BY LenProperties
  <1>8.
        /\ Elements(InsertAt(l.argv, l.begin, CombinedSwitch(w)), <<>>,
                    Append(sw, CombinedSwitch(w)), args)
        /\ Elements(Append(l.argv, w), <<>>, sw, Append(args, w))
    <2> HIDE DEF W, w
    <2> QED BY <1>3, <1>6, ElementAdded
  <1>9. Append(sw, CombinedSwitch(w)) \in Seq(W) /\ Append(args, w) \in Seq(W)
        /\ Len(Append(sw, CombinedSwitch(w))) = Len(sw) + 1
    <2> HIDE DEF W, w
    <2> QED BY <1>3, AppendProperties
  <1>10. /\ Fields(next)
         /\ next.parsing <=> l.parsing /\ w # c
         /\ IF (l.parsing /\ w # c) /\ IsSwitch(w)
            THEN /\ next.argv = InsertAt(l.argv, l.begin, CombinedSwitch(w))
                 /\ next.begin = l.begin + 1
                 /\ next.switches = SetSwitch(l.switches, SwitchKey(w), SwitchValue(w))
            ELSE /\ next.argv = Append(l.argv, w) /\ next.begin = l.begin
                 /\ next.switches = l.switches
    BY <1>1, <1>4, AppendedIs
  <1>11. (l.parsing /\ w # c) <=> k + 1 < stop
    <2> HIDE DEF w, c, stop
    <2>1. k < stop <=> k + 1 < stop \/ k + 1 = stop BY <1>2
    <2> QED BY <1>2, <1>4, <2>1
  <1>12. next.parsing <=> k + 1 < stop BY <1>10, <1>11
  <1> SUFFICES \E u, v \in Seq(W) : Shows(words, k + 1, next, u, v)
    BY <1>10, <1>12 DEF LineIs
  <1> HIDE DEF W, stop, c, S, T, O, P
  <1>13. CASE k + 1 < stop /\ IsSwitch(w)
    <2> DEFINE u == Append(sw, CombinedSwitch(w))
    <2>1. /\ next.argv = InsertAt(l.argv, l.begin, CombinedSwitch(w))
          /\ next.begin = l.begin + 1
          /\ next.switches = SetSwitch(l.switches, SwitchKey(w), SwitchValue(w))
      BY <1>10, <1>11, <1>13
    <2>2. T = S \cup {k + 1} /\ P = O BY <1>2, <1>13
    <2>3. InOrder(u, ff)
      <3>1. /\ DOMAIN f \subseteq 1..k /\ DOMAIN ff = DOMAIN f \cup {k + 1}
            /\ (\A i \in DOMAIN f : ff[i] = f[i]) /\ ff[k + 1] = CombinedSwitch(w)
        BY <1>2, <2>2
      <3> HIDE DEF f, ff, w
      <3> QED BY <1>3, <1>6, <3>1, InOrderAppend
    <2>4. InOrder(Without(args), gg) BY <1>6, <2>2
    <2>5. ValuesAre(next.switches, words, T)
      <3> HIDE DEF w
      <3>1. w = words[k + 1] BY DEF w
      <3>2. ValuesAre(SetSwitch(l.switches, SwitchKey(w), SwitchValue(w)), words, S \cup {k + 1})
        <4> DEFINE held == l.switches
        <4>1. ValuesAre(held, words, S) /\ S \subseteq 1..k BY <1>2, <1>6
        <4> HIDE DEF held
        <4>2. ValuesAre(SetSwitch(held, SwitchKey(w), SwitchValue(w)), words, S \cup {k + 1})
          BY <3>1, <4>1, ValueAdded
        <4> QED BY <4>2 DEF held
      <3> QED BY <2>1, <2>2, <3>2
    <2>6. Ends(args) <=> stop <= k + 1 BY <1>2, <1>6, <1>13
    <2>7. Elements(next.argv, <<>>, u, args) /\ next.begin = Len(u) + 2
      <3>1. Len(sw) + 2 + 1 = (Len(sw) + 1) + 2 BY <1>7
      <3> QED BY <1>6, <1>8, <1>9, <2>1, <3>1
    <2>8. u \in Seq(W) BY <1>9
    <2> HIDE DEF u
    <2>9. Shows(words, k + 1, next, u, args)
      BY <2>3, <2>4, <2>5, <2>6, <2>7 DEF Shows, stop, T, P
    <2> QED BY <2>8, <2>9
  <1>14. CASE ~(k + 1 < stop /\ IsSwitch(w))
    <2> DEFINE v == Append(args, w)
    <2>1. /\ next.argv = Append(l.argv, w) /\ next.begin = l.begin
          /\ next.switches = l.switches
      BY <1>10, <1>11, <1>14
    <2>2. T = S /\ P = IF k + 1 = stop THEN O ELSE O \cup {k + 1} BY <1>2, <1>14
    <2>3. InOrder(sw, ff) /\ ValuesAre(next.switches, words, T) BY <1>6, <2>1, <2>2
    <2>4. Elements(next.argv, <<>>, sw, v) /\ next.begin = Len(sw) + 2
      BY <1>6, <1>8, <2>1
    <2>5. DOMAIN g \subseteq 1..k
          /\ (P = O \cup {k + 1} =>
                /\ DOMAIN gg = DOMAIN g \cup {k + 1}
                /\ (\A i \in DOMAIN g : gg[i] = g[i]) /\ gg[k + 1] = w)
      BY <1>2
    <2>6. (Ends(v) <=> stop <= k + 1) /\ InOrder(Without(v), gg)
      <3>1. CASE stop <= k
        <4>1. Ends(args) /\ P = O \cup {k + 1} BY <1>2, <1>6, <2>2, <3>1
        <4> HIDE DEF w
        <4>2. Without(args) \in Seq(W) /\ Ends(v) /\ Without(v) = Append(Without(args), w)
          BY <1>3, <4>1, ArgumentsGoOn
        <4> HIDE DEF v, g, gg
        <4>3. InOrder(Append(Without(args), w), gg)
          <5> DEFINE s == Without(args)
          <5>1. s \in Seq(W) /\ InOrder(s, g) BY <1>6, <4>2
          <5> HIDE DEF s
          <5>2. InOrder(Append(s, w), gg)
            BY <1>3, <2>5, <4>1, <5>1, InOrderAppend
          <5> QED BY <5>2 DEF s
        <4> QED BY <1>2, <3>1, <4>2, <4>3
      <3>2. CASE ~(stop <= k)
        <4>1. ~Ends(args) BY <1>6, <3>2
        <4> HIDE DEF w
        <4>2. /\ Without(args) = args /\ (Ends(v) <=> w = c)
              /\ Without(v) = IF w = c THEN args ELSE Append(args, w)
          BY <1>3, <4>1, ArgumentsGrow DEF c
        <4>3. CASE stop = k + 1
          <5>1. w = c /\ P = O BY <1>2, <2>2, <4>3
          <5> QED BY <1>2, <1>6, <4>2, <4>3, <5>1
        <4>4. CASE stop # k + 1
          <5>1. w # c /\ P = O \cup {k + 1} /\ ~(stop <= k + 1) BY <1>2, <2>2, <3>2, <4>4
          <5> HIDE DEF g, gg
          <5>2. InOrder(args, g) BY <1>6, <4>2
          <5>3. InOrder(Append(args, w), gg)
            BY <1>3, <2>5, <5>1, <5>2, InOrderAppend
          <5> HIDE DEF v
          <5> QED BY <4>2, <5>1, <5>3
        <4> QED BY <4>3, <4>4
      <3> QED BY <3>1, <3>2
    <2>7. v \in Seq(W) BY <1>9
    <2> HIDE DEF v
    <2>8. Shows(words, k + 1, next, sw, v)
      BY <2>3, <2>4, <2>6 DEF Shows, stop, T, P
    <2> QED BY <2>7, <2>8
  <1> QED BY <1>13, <1>14

(* Before the first word.                                                  *)
LEMMA NoProgramIs ==
    ASSUME NEW words, Len(words) \in Nat
    PROVE  LineIs(words, 0, NoProgram)
  <1> DEFINE W == AllWords(words)
             e == <<>>
             f == [i \in SwitchesAt(words, 0) |-> CombinedSwitch(words[i])]
             g == [i \in OthersAt(words, 0) |-> words[i]]
             stop == Terminator(words)
  <1>1. stop \in 1..Len(words) + 1
    <2> DEFINE C == {kSwitchTerminator}
    <2>1. FirstOf(words, C) \in 1..Len(words) + 1
      <3> HIDE DEF C
      <3> QED BY FirstOfIs
    <2> QED BY <2>1 DEF Terminator
  <1>2. 0 < stop /\ ~(stop <= 0) BY <1>1
  <1>3. SwitchesAt(words, 0) = {} /\ OthersAt(words, 0) = {} BY DEF SwitchesAt, OthersAt
  <1>4. e \in Seq(W) /\ Len(e) = 0 /\ 1..0 = {} /\ e \in W BY EmptySeq DEF AllWords
  <1>5. Elements(NoProgram.argv, e, e, e) /\ NoProgram.begin = Len(e) + 2
    <2>1. NoProgram.argv = <<e>> /\ NoProgram.begin = 2 BY DEF NoProgram
    <2> HIDE DEF W
    <2>2. <<e>> \in Seq(W) BY <1>4
    <2> DEFINE one == <<e>>
    <2> HIDE DEF one
    <2>3. one \o <<>> = one BY <2>2, ConcatEmptySeq DEF one
    <2> QED BY <2>1, <2>3 DEF Elements, one
  <1>6. ~Ends(e) BY <1>4 DEF Ends
  <1>7. Without(e) = e
    <2> HIDE DEF W, e
    <2> QED BY <1>4, <1>6, ArgumentsGrow
  <1>8. InOrder(e, f) /\ InOrder(e, g)
    <2>1. DOMAIN f = {} /\ DOMAIN g = {} BY <1>3
    <2> HIDE DEF f, g
    <2> QED BY <1>4, <2>1, FS_EmptySet DEF InOrder
  <1>9. ValuesAre(NoProgram.switches, words, SwitchesAt(words, 0))
    <2>1. NoProgram.switches = e BY DEF NoProgram
    <2>2. DOMAIN e = {}
      <3> HIDE DEF W, e
      <3> QED BY <1>4, LenProperties
    <2> QED BY <1>3, <2>1, <2>2 DEF ValuesAre
  <1>10. Fields(NoProgram) /\ NoProgram.parsing = TRUE BY DEF Fields, NoProgram
  <1>11. Shows(words, 0, NoProgram, e, e)
    BY <1>2, <1>5, <1>6, <1>7, <1>8, <1>9 DEF Shows
  <1> HIDE DEF e
  <1> QED BY <1>2, <1>4, <1>10, <1>11 DEF LineIs

(* What is left to read, and what is made of the rest, while a line is     *)
(* read: the loop has done as many turns as words are gone.                *)
WordsOfText == Tail(SplitString(text, " "))

WordsRead == Len(WordsOfText) - Len(rest)

LineRead ==
    job = "command" /\ TrimString(text) # <<>> =>
        /\ Len(rest) \in 0..Len(WordsOfText) /\ rest = From(WordsOfText, WordsRead + 1)
        /\ LineIs(WordsOfText, WordsRead, line)
        /\ \A r : LineSteps(r, WordsOfText) => line = r[WordsRead]

(* The text of a command line has words.                                   *)
LEMMA TextHasWords ==
    ASSUME IsText, job = "command"
    PROVE  WordsAre(WordsOfText)
  <1>1. text \in Seq(STRING) BY DEF IsText
  <1> DEFINE blank == " "
  <1>2. WordsOfText = Tail(SplitString(text, blank)) BY DEF WordsOfText
  <1> HIDE DEF blank
  <1> QED BY <1>1, <1>2, WordsOf

(* Every turn of the loop takes one word from the rest to the line.        *)
LEMMA LineKeptInv == Spec => []LineRead
  <1>1. Init /\ IsText => LineRead
    <2> SUFFICES ASSUME Init, IsText, job = "command", TrimString(text) # <<>>
                 PROVE  LineRead
      BY DEF LineRead
    <2> DEFINE words == WordsOfText
               n == Len(words)
    <2>1. WordsAre(words) BY TextHasWords
    <2>2. line = NoProgram /\ rest = words
      BY DEF Init, Input, WordsOfText
    <2> HIDE DEF words
    <2>3. n \in Nat /\ words \in Seq({words[i] : i \in 1..n}) BY <2>1 DEF WordsAre
    <2> HIDE DEF n
    <2>4. WordsRead = 0 /\ Len(rest) = n BY <2>2, <2>3 DEF WordsRead, words, n
    <2>5. rest = From(words, 0 + 1)
      <3>1. From(words, 0 + 1) = SubSeq(words, 1, Len(words)) BY DEF From
      <3> QED BY <2>2, <2>3, <3>1, SubSeqFull
    <2>6. LineIs(words, 0, NoProgram) BY <2>3, NoProgramIs DEF n
    <2>7. \A r : LineSteps(r, words) => line = r[0] BY <2>2 DEF LineSteps
    <2> QED BY <2>2, <2>3, <2>4, <2>5, <2>6, <2>7 DEF LineRead, words, n
  <1>2. IsText /\ LineRead /\ [Next]_vars => LineRead'
    <2> SUFFICES ASSUME IsText, LineRead, [Next]_vars, (job = "command")',
                        (TrimString(text) # <<>>)'
                 PROVE  LineRead'
      BY DEF LineRead
    <2>1. job = "command" /\ TrimString(text) # <<>> /\ text' = text /\ WordsOfText' = WordsOfText
      BY DEF Next, NextParameter, NextWord, vars, WordsOfText
    <2> DEFINE words == WordsOfText
               n == Len(words)
               k == WordsRead
    <2>2. WordsAre(words) BY <2>1, TextHasWords
    <2>3. /\ Len(rest) \in 0..n /\ rest = From(words, k + 1) /\ LineIs(words, k, line)
          /\ \A r : LineSteps(r, words) => line = r[k]
      BY <2>1 DEF LineRead
    <2>4. k = n - Len(rest) BY DEF WordsRead
    <2>5. WordsRead' = n - Len(rest') BY <2>1 DEF WordsRead
    <2> SUFFICES /\ Len(rest') \in 0..n /\ rest' = From(words, WordsRead' + 1)
                 /\ LineIs(words, WordsRead', line')
                 /\ \A r : LineSteps(r, words) => line' = r[WordsRead']
      BY <2>1 DEF LineRead
    <2> HIDE DEF words, k
    <2>6. n \in Nat BY <2>2 DEF WordsAre
    <2> HIDE DEF n
    <2>7. CASE NextWord
      <3>1. rest # <<>> /\ line' = AppendArgument(line, Head(rest)) /\ rest' = Tail(rest)
        BY <2>7 DEF NextWord
      <3>2. k \in 0..n BY <2>3, <2>4, <2>6
      <3>3. /\ Len(rest) = n - k /\ k < n /\ Head(rest) = words[k + 1]
            /\ Tail(rest) = From(words, k + 2)
        BY <2>2, <2>3, <3>1, <3>2, FirstLeft DEF n
      <3>4. k + 1 \in 1..n /\ k + 1 \in 0..n /\ k \in Nat BY <2>6, <3>2, <3>3
      <3>5. Len(rest') = n - (k + 1)
        <4>1. rest' = From(words, (k + 1) + 1) BY <3>1, <3>2, <3>3
        <4> QED BY <2>2, <3>4, <4>1, FirstLeft DEF n
      <3>6. WordsRead' = k + 1 BY <2>5, <2>6, <3>4, <3>5
      <3>7. LineIs(words, k + 1, line') BY <2>2, <2>3, <3>1, <3>3, <3>4, LineGrows DEF n
      <3>8. \A r : LineSteps(r, words) => line' = r[k + 1]
        <4> TAKE r
        <4> HAVE LineSteps(r, words)
        <4>1. r[k + 1] = AppendArgument(r[(k + 1) - 1], words[k + 1])
          BY <3>4 DEF LineSteps, n
        <4>2. (k + 1) - 1 = k BY <3>4
        <4> QED BY <2>3, <3>1, <3>3, <4>1, <4>2
      <3>9. Len(rest') \in 0..n BY <2>6, <3>4, <3>5
      <3>10. rest' = From(words, (k + 1) + 1) BY <3>1, <3>2, <3>3
      <3> QED BY <3>6, <3>7, <3>8, <3>9, <3>10
    <2>8. CASE UNCHANGED <<line, rest>>
      <3>1. WordsRead' = k BY <2>4, <2>5, <2>8
      <3> QED BY <2>3, <2>8, <3>1
    <2>9. CASE NextParameter
      <3>1. UNCHANGED <<line, rest>> BY <2>9 DEF NextParameter
      <3> QED BY <2>8, <3>1
    <2> QED BY <2>7, <2>8, <2>9 DEF Next, vars
  <1> QED BY <1>1, <1>2, TextKept, PTL DEF Spec

(* What the invariant says of a line is what LineKept asks for.            *)
LEMMA LineKeptOf ==
    ASSUME IsText, LineRead PROVE LineKept
  <1> SUFFICES ASSUME job = "command", TrimString(text) # <<>> PROVE LineKept
    BY DEF LineKept
  <1> DEFINE words == WordsOfText
             k == WordsRead
             n == Len(words)
             S == SwitchesAt(words, k)
             O == OthersAt(words, k)
             Of(key) == {i \in S : SwitchKey(words[i]) = key}
  <1>1. WordsAre(words) BY TextHasWords
  <1>2. /\ Len(rest) \in 0..n /\ LineIs(words, k, line)
        /\ \A r : LineSteps(r, words) => line = r[k]
    BY DEF LineRead
  <1>3. k = n - Len(rest) BY DEF WordsRead
  <1> HIDE DEF words, k
  <1>4. n \in Nat BY <1>1 DEF WordsAre
  <1>5. PICK sw, args \in Seq(AllWords(words)) : Shows(words, k, line, sw, args)
    BY <1>2 DEF LineIs
  <1>6. /\ Elements(line.argv, <<>>, sw, args) /\ line.begin = Len(sw) + 2
        /\ InOrder(sw, [i \in S |-> CombinedSwitch(words[i])])
        /\ InOrder(Without(args), [i \in O |-> words[i]])
        /\ ValuesAre(line.switches, words, S)
    BY <1>5 DEF Shows
  <1>7. SubSeq(line.argv, 2, line.begin - 1) = sw /\ From(line.argv, line.begin) = args
    <2>1. Len(sw) \in Nat BY LenProperties
    <2>2. line.begin - 1 = Len(sw) + 1 BY <1>6, <2>1
    <2> DEFINE e == <<>>
               W == AllWords(words)
               argv == line.argv
    <2>3. e \in W BY DEF AllWords
    <2>4. Elements(argv, e, sw, args) /\ sw \in Seq(W) /\ args \in Seq(W) BY <1>6
    <2> HIDE DEF e, W, argv
    <2>5. SubSeq(argv, 2, Len(sw) + 1) = sw /\ From(argv, Len(sw) + 2) = args
      BY <2>3, <2>4, ElementsRead
    <2> QED BY <1>6, <2>2, <2>5 DEF argv
  <1>8. GetArgs(line) = Without(args) BY <1>7 DEF GetArgs, Without
  <1>9. /\ DOMAIN line.switches = {SwitchKey(words[i]) : i \in S}
        /\ \A key \in DOMAIN line.switches :
              line.switches[key] = SwitchValue(words[Max(Of(key))])
    BY <1>6 DEF ValuesAre
  <1>10. DetermineLogMode(line) = "LOG_ONLY_TO_FILE"
           <=> (/\ Of(kEnableLogging) # {}
                /\ SwitchValue(words[Max(Of(kEnableLogging))]) = kFile)
    <2> DEFINE v == GetSwitchValue(line, kEnableLogging)
    <2>1. DetermineLogMode(line) = "LOG_ONLY_TO_FILE" <=> v = kFile
      <3> HIDE DEF v
      <3>1. DetermineLogMode(line) = IF v = kFile THEN "LOG_ONLY_TO_FILE" ELSE "default"
        BY DEF DetermineLogMode, v
      <3> QED BY <3>1
    <2>2. kEnableLogging \in DOMAIN line.switches <=> Of(kEnableLogging) # {}
      <3> HIDE DEF S
      <3> QED BY <1>9
    <2>3. <<>> # kFile BY DEF kFile
    <2> HIDE DEF Of, S
    <2>4. v = IF kEnableLogging \in DOMAIN line.switches THEN line.switches[kEnableLogging]
              ELSE <<>>
      BY DEF GetSwitchValue
    <2> HIDE DEF v
    <2> QED BY <1>9, <2>1, <2>2, <2>3, <2>4
  <1>11. rest = <<>> => line = ParseFromString(text)
    <2> SUFFICES ASSUME rest = <<>> PROVE line = ParseFromString(text)
      OBVIOUS
    <2>1. k = n
      <3>1. Len(rest) = 0 OBVIOUS
      <3> QED BY <1>3, <1>4, <3>1
    <2>2. PICK r : LineSteps(r, words) BY <1>1, LineLoop
    <2>3. line = FoldLeft(AppendArgument, NoProgram, words)
      BY <1>2, <2>1, <2>2 DEF LineSteps
    <2>4. ParseFromString(text) = FoldLeft(AppendArgument, NoProgram, words)
      BY DEF ParseFromString, InitFromArgv, words, WordsOfText
    <2> QED BY <2>3, <2>4
  <1> DEFINE t == Tail(SplitString(text, " "))
             read == Len(t) - Len(rest)
             stop == FirstOf(t, {kSwitchTerminator})
             switches == {i \in 1..read : i < stop /\ IsSwitch(t[i])}
             others == (1..read) \ (switches \cup {stop})
             Called(key) == {i \in switches : SwitchKey(t[i]) = key}
  <1> SUFFICES
        /\ InOrder(SubSeq(line.argv, 2, line.begin - 1),
                   [i \in switches |-> CombinedSwitch(t[i])])
        /\ InOrder(GetArgs(line), [i \in others |-> t[i]])
        /\ DOMAIN line.switches = {SwitchKey(t[i]) : i \in switches}
        /\ \A key \in DOMAIN line.switches :
              line.switches[key] = SwitchValue(t[Max(Called(key))])
        /\ DetermineLogMode(line) = "LOG_ONLY_TO_FILE"
             <=> (/\ Called(kEnableLogging) # {}
                  /\ SwitchValue(t[Max(Called(kEnableLogging))]) = kFile)
        /\ rest = <<>> => line = ParseFromString(text)
    BY DEF LineKept
  <1>12. t = words BY DEF words, WordsOfText
  <1> HIDE DEF t
  <1>13. read = k /\ stop = Terminator(words)
    BY <1>3, <1>12 DEF Terminator
  <1> HIDE DEF read, stop
  <1>14. switches = S BY <1>12, <1>13 DEF SwitchesAt
  <1>15. others = O BY <1>13, <1>14 DEF OthersAt
  <1>16. \A key : Called(key) = Of(key) BY <1>12, <1>14
  <1> HIDE DEF switches, others, S, O, Called, Of
  <1>17. InOrder(SubSeq(line.argv, 2, line.begin - 1),
                [i \in switches |-> CombinedSwitch(t[i])])
    BY <1>6, <1>7, <1>12, <1>14
  <1>18. InOrder(GetArgs(line), [i \in others |-> t[i]]) BY <1>6, <1>8, <1>12, <1>15
  <1>19. DOMAIN line.switches = {SwitchKey(t[i]) : i \in switches} BY <1>9, <1>12, <1>14
  <1>20. \A key \in DOMAIN line.switches : line.switches[key] = SwitchValue(t[Max(Called(key))])
    BY <1>9, <1>12, <1>16
  <1>21. DetermineLogMode(line) = "LOG_ONLY_TO_FILE"
           <=> (/\ Called(kEnableLogging) # {}
                /\ SwitchValue(t[Max(Called(kEnableLogging))]) = kFile)
    BY <1>10, <1>12, <1>16
  <1> QED BY <1>11, <1>17, <1>18, <1>19, <1>20, <1>21

(* While a line is read and when it is read, its switches come first, in   *)
(* order and with their last values, its arguments behind them, the first  *)
(* terminator apart, for every command line.                               *)
THEOREM LinesAreKept == Spec => []LineKept
  BY TextKept, LineKeptInv, LineKeptOf, PTL

LEMMA FilledAppend ==
    ASSUME NEW T, NEW s \in Seq(T), NEW t \in Seq(T), NEW x \in T, InOrder(t, Filled(s)),
           NEW u, u = IF x = <<>> THEN t ELSE Append(t, x)
    PROVE  InOrder(u, Filled(Append(s, x)))
  <1> DEFINE n == Len(s)
             v == Append(s, x)
             f == Filled(s)
             g == Filled(v)
  <1>1. n \in Nat BY LenProperties
  <1>2. Len(v) = n + 1 /\ v[n + 1] = x /\ \A i \in 1..n : v[i] = s[i] BY AppendProperties
  <1>3. f = [i \in {k \in 1..n : s[k] # <<>>} |-> s[i]] BY DEF Filled
  <1>4. g = [i \in {k \in 1..n + 1 : v[k] # <<>>} |-> v[i]]
    <2> HIDE DEF v
    <2> QED BY <1>2 DEF Filled
  <1> HIDE DEF n, v, f, g
  <1>5. 1..n + 1 = (1..n) \cup {n + 1} /\ n + 1 \notin 1..n BY <1>1
  <1>6. DOMAIN f = {k \in 1..n : s[k] # <<>>} /\ \A i \in DOMAIN f : f[i] = s[i] BY <1>3
  <1>7. DOMAIN g = {k \in 1..n + 1 : v[k] # <<>>} /\ \A i \in DOMAIN g : g[i] = v[i] BY <1>4
  <1>8. CASE x = <<>>
    <2>1. {k \in 1..n + 1 : v[k] # <<>>} = {k \in 1..n : s[k] # <<>>} BY <1>2, <1>5, <1>8
    <2>2. f = g BY <1>2, <1>3, <1>4, <2>1
    <2> QED BY <1>8, <2>2 DEF f, g, v
  <1>9. CASE x # <<>>
    <2>1. DOMAIN g = DOMAIN f \cup {n + 1} /\ DOMAIN f \subseteq 1..n BY <1>2, <1>5, <1>6, <1>7, <1>9
    <2>2. (\A i \in DOMAIN f : g[i] = f[i]) /\ g[n + 1] = x BY <1>2, <1>6, <1>7, <2>1
    <2>3. InOrder(t, f) BY DEF f
    <2>4. InOrder(Append(t, x), g) BY <1>1, <2>1, <2>2, <2>3, InOrderAppend
    <2> QED BY <1>9, <2>4 DEF g, v
  <1> QED BY <1>8, <1>9

(* Between spaces there is a word, or nothing.                             *)
LEMMA WhitespaceWords ==
    ASSUME NEW C, NEW s \in Seq(C)
    PROVE  InOrder(SplitStringAlongWhitespace(s), Filled(SplitStringDontTrim(s, kBlank)))
  <1> DEFINE n == Len(s)
             T == Seq(C)
             e == <<>>
             Meet(p, q) == \E front, done \in Seq(T), last \in T :
                              /\ p = Append(front, last) /\ q = Append(done, last)
                              /\ InOrder(done, Filled(front))
  <1>1. n \in Nat /\ \A i \in 1..n : s[i] \in C BY LenProperties, ElementOfSeq
  <1>2. PICK r : PieceSteps(r, s, kBlank, C) BY SplitSteps
  <1>3. PICK w : WordSteps(w, s, C) BY WordStepsExist
  <1>4. e \in T /\ e \in Seq(T) BY EmptySeq
  <1>5. ASSUME NEW x \in T, NEW ch \in C PROVE Append(x, ch) \in T BY <1>5, AppendProperties
  <1> HIDE DEF n, T
  <1>6. /\ r[0] = <<e>> /\ r[n] = SplitStringDontTrim(s, kBlank)
        /\ \A k \in 1..n : r[k] = PieceStep(kBlank, r[k - 1], s[k])
    BY <1>2 DEF PieceSteps, n
  <1>7. /\ w[0] = <<e>> /\ w[n] = WordsFound(s)
        /\ \A k \in 1..n : w[k] = WordStep(w[k - 1], s[k])
    BY <1>3 DEF WordSteps, n
  <1> DEFINE K == {k \in Nat : Meet(r[k], w[k])}
  <1>8. 0 \in K
    <2>1. Append(<<>>, e) = <<e>>
      <3> HIDE DEF e
      <3> QED OBVIOUS
    <2>2. r[0] = Append(e, e) /\ w[0] = Append(e, e) BY <1>6, <1>7, <2>1 DEF e
    <2>3. InOrder(e, Filled(e))
      <3>1. Len(e) = 0 /\ DOMAIN Filled(e) = {} BY DEF Filled
      <3> HIDE DEF e
      <3> QED BY <3>1, FS_EmptySet DEF InOrder
    <2> HIDE DEF e
    <2>4. Meet(r[0], w[0]) BY <1>4, <2>2, <2>3
    <2> HIDE DEF Meet
    <2> QED BY <2>4
  <1> HIDE DEF e
  <1>9. ASSUME NEW k \in 1..n, k - 1 \in K PROVE k \in K
    <2> DEFINE p == r[k - 1]
               q == w[k - 1]
               pp == r[k]
               qq == w[k]
               ch == s[k]
    <2>1. Meet(p, q)
      <3> HIDE DEF Meet
      <3> QED BY <1>9
    <2>2. PICK front, done \in Seq(T), last \in T :
             /\ p = Append(front, last) /\ q = Append(done, last)
             /\ InOrder(done, Filled(front))
      BY <2>1
    <2>3. pp = PieceStep(kBlank, p, ch) /\ qq = WordStep(q, ch) BY <1>6, <1>7
    <2>4. ch \in C BY <1>1
    <2> HIDE DEF p, q, pp, qq, ch
    <2>5. LastMoves(pp, p, front, last, kBlank, ch) BY <2>2, <2>3, PieceStepOn
    <2>6. WordMoves(qq, q, done, last, ch) BY <2>2, <2>3, WordStepOn
    <2>7. CASE ch # kBlank
      <3> DEFINE x == Append(last, ch)
      <3>1. x \in T BY <1>5, <2>4
      <3>2. pp = Append(front, x) /\ qq = Append(done, x)
        BY <2>5, <2>6, <2>7 DEF LastMoves, WordMoves
      <3> HIDE DEF x
      <3>3. Meet(pp, qq) BY <2>2, <3>1, <3>2
      <3> HIDE DEF Meet
      <3> QED BY <1>1, <3>3 DEF pp, qq
    <2>8. CASE ch = kBlank
      <3> DEFINE f == Append(front, last)
                 d == IF last = <<>> THEN done ELSE Append(done, last)
      <3>1. pp = Append(f, e) BY <2>2, <2>5, <2>8 DEF LastMoves, e
      <3>2. qq = Append(d, e)
        BY <2>2, <2>6, <2>8 DEF WordMoves, e
      <3>3. InOrder(d, Filled(f))
        <4> HIDE DEF d
        <4>1. d = IF last = <<>> THEN done ELSE Append(done, last) BY DEF d
        <4> QED BY <2>2, <4>1, FilledAppend
      <3>4. f \in Seq(T) /\ d \in Seq(T) BY AppendProperties
      <3> HIDE DEF f, d
      <3>5. Meet(pp, qq) BY <1>4, <3>1, <3>2, <3>3, <3>4
      <3> HIDE DEF Meet
      <3> QED BY <1>1, <3>5 DEF pp, qq
    <2> QED BY <2>7, <2>8
  <1> HIDE DEF K
  <1>10. \A k \in 0..n : k \in K BY <1>1, <1>8, <1>9, InductionUpTo
  <1>11. n \in K BY <1>1, <1>10
  <1>12. Meet(r[n], w[n])
    <2> HIDE DEF Meet
    <2> QED BY <1>11 DEF K
  <1> DEFINE p == r[n]
             q == w[n]
  <1>13. PICK front, done \in Seq(T), last \in T :
            /\ p = Append(front, last) /\ q = Append(done, last)
            /\ InOrder(done, Filled(front))
    BY <1>12
  <1>14. p = SplitStringDontTrim(s, kBlank) /\ q = WordsFound(s) BY <1>6, <1>7
  <1> HIDE DEF p, q
  <1>15. Front(q) = done /\ Last(q) = last BY <1>13, FrontOfAppend
  <1>16. SplitStringAlongWhitespace(s) = IF Last(q) = <<>> THEN Front(q) ELSE q
    BY <1>14 DEF SplitStringAlongWhitespace, WordsFound
  <1> DEFINE u == SplitStringAlongWhitespace(s)
  <1>17. u = IF last = <<>> THEN done ELSE Append(done, last) BY <1>13, <1>15, <1>16
  <1> HIDE DEF u
  <1>18. InOrder(u, Filled(Append(front, last))) BY <1>13, <1>17, FilledAppend
  <1> QED BY <1>13, <1>14, <1>18 DEF u

(* The words of the text are read alike in both environments, and the      *)
(* three ways of splitting agree.                                          *)
LEMMA ReadAlikeOf ==
    ASSUME IsText, job = "command", TrimString(text) # <<>>
    PROVE  ReadAlike
  <1> DEFINE pieces == SplitString(text, kBlank)
             value == From(text, 3)
             T == Seq(Letters)
  <1>1. text \in T BY LettersAre DEF IsText
  <1>2. pieces = SplitStringDontTrim(text, kBlank) /\ pieces \in Seq(T) /\ pieces # <<>>
    <2> HIDE DEF pieces
    <2>1. pieces = SplitString(text, kBlank) BY DEF pieces
    <2> QED BY <1>1, <2>1, SplitAtBlanks
  <1>3. ASSUME value # <<>>, text = kPluginType \o <<" ">> \o value
        PROVE  PluginEnvironment(value) = ApplicationEnvironment(<< <<>> >> \o Tail(pieces))
    <2>1. PluginEnvironment(value) = ParseFromString(text) BY <1>3 DEF PluginEnvironment
    <2>2. ParseFromString(text) = InitFromArgv(pieces) BY DEF ParseFromString, kBlank
    <2>3. InitFromArgv(pieces) = FoldLeft(AppendArgument, NoProgram, Tail(pieces))
      BY DEF InitFromArgv
    <2> DEFINE e == <<>>
               t == Tail(pieces)
               argv == <<e>> \o t
    <2>4. t \in Seq(T) BY <1>2, HeadTailProperties
    <2>5. e \in T BY EmptySeq
    <2> HIDE DEF pieces, value, e, t, T
    <2>6. Tail(argv) = t
      <3> DEFINE one == <<e>>
                 l == Len(t)
      <3>1. one \in Seq(T) /\ Len(one) = 1 BY <2>5
      <3>2. l \in Nat BY <2>4, LenProperties
      <3> HIDE DEF one
      <3>3. /\ argv \in Seq(T) /\ Len(argv) = 1 + l
            /\ \A i \in 1..1 + l : argv[i] = IF i <= 1 THEN one[i] ELSE t[i - 1]
        <4>1. /\ one \o t \in Seq(T) /\ Len(one \o t) = Len(one) + Len(t)
              /\ \A i \in 1..Len(one) + Len(t) :
                    (one \o t)[i] = IF i <= Len(one) THEN one[i] ELSE t[i - Len(one)]
          BY <2>4, <3>1, ConcatProperties
        <4>2. argv = one \o t BY DEF one
        <4> HIDE DEF argv
        <4> QED BY <3>1, <4>1, <4>2
      <3> HIDE DEF argv, l
      <3>4. argv # <<>>
        <4>1. Len(argv) # 0 BY <3>2, <3>3
        <4> QED BY <4>1, EmptySeq
      <3>5. /\ Tail(argv) \in Seq(T) /\ Len(Tail(argv)) = Len(argv) - 1
            /\ \A i \in 1..Len(Tail(argv)) : Tail(argv)[i] = argv[i + 1]
        BY <3>3, <3>4, HeadTailProperties
      <3> DEFINE u == Tail(argv)
      <3>6. u \in Seq(T) /\ Len(u) = l /\ \A i \in 1..l : u[i] = argv[i + 1]
        <4>1. Len(argv) - 1 = l BY <3>2, <3>3
        <4> QED BY <3>5, <4>1
      <3> HIDE DEF u
      <3>7. \A i \in 1..l : u[i] = t[i]
        <4> TAKE i \in 1..l
        <4>1. i + 1 \in 1..1 + l /\ ~(i + 1 <= 1) /\ (i + 1) - 1 = i BY <3>2
        <4> QED BY <3>3, <3>6, <4>1
      <3> QED BY <2>4, <3>6, <3>7, SeqEqual DEF l, u
    <2>7. ApplicationEnvironment(argv) = FoldLeft(AppendArgument, NoProgram, t)
      BY <2>6 DEF ApplicationEnvironment, InitFromArgv
    <2> QED BY <2>1, <2>2, <2>3, <2>7 DEF argv, e, t
  <1>4. InOrder(SplitStringAlongWhitespace(text),
                [i \in {k \in 1..Len(pieces) : pieces[k] # <<>>} |-> pieces[i]])
    <2>1. InOrder(SplitStringAlongWhitespace(text), Filled(SplitStringDontTrim(text, kBlank)))
      BY <1>1, WhitespaceWords
    <2> HIDE DEF pieces
    <2>2. Filled(pieces) = [i \in {k \in 1..Len(pieces) : pieces[k] # <<>>} |-> pieces[i]]
      BY DEF Filled
    <2> QED BY <1>2, <2>1, <2>2
  <1>5. SplitStringUsingSubstr(text, <<"=">>) = SplitString(text, "=")
    <2> DEFINE c == kEquals
               one == <<c>>
    <2>1. c \in Letters /\ one = <<c>> BY LettersAre
    <2> HIDE DEF c, one, T
    <2>2. text \in Seq(Letters) BY <1>1 DEF T
    <2>3. SplitStringUsingSubstr(text, one) = SplitString(text, c) BY <2>1, <2>2, SplitAtOne
    <2> QED BY <2>3 DEF one, c, kEquals
  <1>6. pieces = SplitString(text, " ") BY DEF kBlank
  <1> HIDE DEF pieces, value
  <1> DEFINE p == SplitString(text, " ")
             v == From(text, 3)
  <1>7. v = value /\ p = pieces BY <1>6 DEF value
  <1> SUFFICES /\ v # <<>> /\ text = kPluginType \o <<" ">> \o v
                    => PluginEnvironment(v) = ApplicationEnvironment(<< <<>> >> \o Tail(p))
               /\ InOrder(SplitStringAlongWhitespace(text),
                          [i \in {k \in 1..Len(p) : p[k] # <<>>} |-> p[i]])
               /\ SplitStringUsingSubstr(text, <<"=">>) = SplitString(text, "=")
    BY DEF ReadAlike
  <1> HIDE DEF p, v
  <1> QED BY <1>3, <1>4, <1>5, <1>7

(* So every line of a behaviour is one.                                    *)
LineBack == job = "command" /\ TrimString(text) # <<>> => \E sw, args : Kept(line, sw, args)

(* The words of the text, in the letters of a text.                        *)
LEMMA WordsOfTextBare ==
    ASSUME IsText, job = "command", NEW k \in 1..Len(WordsOfText)
    PROVE  WordsOfText[k] \in Seq(Letters) /\ Bare(WordsOfText[k])
  <1> DEFINE words == SplitString(text, kBlank)
             t == Tail(words)
             T == Seq(Letters)
  <1>1. text \in T BY LettersAre DEF IsText
  <1>2. words \in Seq(T) /\ words # <<>>
        /\ \A i \in 1..Len(words) : words[i] \in Seq(Letters) /\ Bare(words[i])
    <2> HIDE DEF words
    <2>1. words = SplitString(text, kBlank) BY DEF words
    <2> QED BY <1>1, <2>1, SplitAtBlanks
  <1>3. WordsOfText = t BY DEF WordsOfText, kBlank
  <1> HIDE DEF words, T
  <1>4. /\ Len(t) = Len(words) - 1 /\ Len(words) \in Nat
        /\ \A i \in 1..Len(words) - 1 : t[i] = words[i + 1]
    BY <1>2, HeadTailProperties, LenProperties
  <1> HIDE DEF t
  <1>5. k \in 1..Len(words) - 1 /\ k + 1 \in 1..Len(words) BY <1>3, <1>4
  <1>6. t[k] = words[k + 1] BY <1>4, <1>5
  <1> QED BY <1>2, <1>3, <1>5, <1>6

LEMMA LineBackInv == Spec => []LineBack
  <1>1. Init => LineBack
    <2> SUFFICES ASSUME Init, job = "command" PROVE LineBack BY DEF LineBack
    <2>1. line = NoProgram BY DEF Init, Input
    <2>2. Kept(line, <<>>, <<>>) BY <2>1, KeptAtFirst
    <2> QED BY <2>2 DEF LineBack
  <1>2. IsText /\ LineRead /\ LineBack /\ [Next]_vars => LineBack'
    <2> SUFFICES ASSUME IsText, LineRead, LineBack, [Next]_vars, (job = "command")',
                        (TrimString(text) # <<>>)'
                 PROVE  \E s, a : Kept(line', s, a)
      BY DEF LineBack
    <2>1. job = "command" /\ TrimString(text) # <<>>
      BY DEF Next, NextParameter, NextWord, vars
    <2>2. PICK sw, args : Kept(line, sw, args) BY <2>1 DEF LineBack
    <2>3. CASE UNCHANGED line BY <2>2, <2>3
    <2>4. CASE NextWord
      <3> DEFINE words == WordsOfText
                 k == WordsRead
                 n == Len(words)
      <3>1. rest # <<>> /\ line' = AppendArgument(line, Head(rest)) BY <2>4 DEF NextWord
      <3>2. WordsAre(words) BY <2>1, TextHasWords
      <3>3. Len(rest) \in 0..n /\ rest = From(words, k + 1) BY <2>1 DEF LineRead
      <3>4. k = n - Len(rest) BY DEF WordsRead
      <3>5. n \in Nat BY <3>2 DEF WordsAre
      <3> HIDE DEF words, k, n
      <3>6. k \in 0..n BY <3>3, <3>4, <3>5
      <3>7. k < n /\ Head(rest) = words[k + 1]
        BY <3>1, <3>2, <3>3, <3>6, FirstLeft DEF n
      <3>8. k + 1 \in 1..n BY <3>5, <3>6, <3>7
      <3> DEFINE x == words[k + 1]
      <3>9. x \in Seq(Letters) /\ Bare(x)
        BY <2>1, <3>8, WordsOfTextBare DEF words, n
      <3> DEFINE next == line'
      <3>10. next = AppendArgument(line, x) BY <3>1, <3>7
      <3> HIDE DEF x, next
      <3>11. \E s, a : Kept(next, s, a)
        <4> DEFINE l == line
        <4>1. next = AppendArgument(l, x) /\ Kept(l, sw, args) BY <2>2, <3>10
        <4> HIDE DEF l
        <4> QED BY <3>9, <4>1, KeptGrows
      <3> QED BY <3>11 DEF next
    <2>5. CASE NextParameter BY <2>3, <2>5 DEF NextParameter
    <2> QED BY <2>3, <2>4, <2>5 DEF Next, vars
  <1> QED BY <1>1, <1>2, TextKept, LineKeptInv, PTL DEF Spec

(* What the invariant says of a finished line is what Reusable asks for.   *)
LEMMA ReusableOf ==
    ASSUME NEW l, NEW sw, NEW args, Kept(l, sw, args)
    PROVE  Reusable(l)
  <1> SUFFICES ASSUME \A key \in DOMAIN l.switches : key # <<>> /\ key[1] # "-" PROVE Reusable(l)
    BY DEF Reusable
  <1> DEFINE f == l.switches
             wrapper == <<"a", " ", "-", "a">>
             copy == CopySwitchesFrom(NoProgram, l, SetToSeq(DOMAIN f))
             wrapped == PrependWrapper(l, wrapper)
             written == GetCommandLineString(l)
  <1>1. Named(f) BY DEF Named, kDash
  <1>2. TrimString(written) # <<>> => ParseFromString(written) = l
    BY <1>1, WrittenAgain
  <1>3. AppendArguments(NoProgram, l) = l BY <1>1, AppendedAgain
  <1>4. copy.switches = f /\ GetArgs(copy) = <<>>
    <2>1. Values(f) BY DEF Kept
    <2> HIDE DEF copy, f
    <2>2. f = l.switches /\ copy = CopySwitchesFrom(NoProgram, l, SetToSeq(DOMAIN f)) BY DEF copy, f
    <2> QED BY <1>1, <2>1, <2>2, CopiedAll
  <1>5. GetArgs(wrapped) = GetArgs(l) /\ wrapped.switches = f
    <2> DEFINE C == {"a", " ", "-"}
               W == Seq(Letters)
               e == <<>>
               p == ~Ends(args)
    <2>1. wrapper \in Seq(C) /\ wrapper # <<>>
      <3>1. wrapper \in Seq(C) /\ Len(wrapper) = 4 OBVIOUS
      <3>2. Len(<<>>) = 0 OBVIOUS
      <3> QED BY <3>1, <3>2
    <2>2. l = LineWith(sw, args, f, p) /\ sw \in Seq(W) /\ args \in Seq(W)
      BY DEF Kept, BareWords
    <2>3. l.argv = <<e>> \o sw \o args /\ l.begin = Len(sw) + 2 /\ Fields(l)
      <3> DEFINE x == <<e>> \o sw \o args
                 b == Len(sw) + 2
      <3>1. l = [argv |-> x, begin |-> b, switches |-> f, parsing |-> p] BY <2>2 DEF LineWith
      <3> HIDE DEF x, b, p, f
      <3>2. l.argv = x /\ l.begin = b /\ Fields(l) BY <3>1 DEF Fields
      <3> QED BY <3>2 DEF x, b
    <2>4. l.argv \in Seq(W) /\ l.begin \in Nat \ {0} /\ l.begin <= Len(l.argv) + 1
      <3> DEFINE argv == l.argv
      <3>1. e \in W /\ Elements(argv, e, sw, args) BY <2>3, EmptySeq DEF Elements
      <3> HIDE DEF argv, e, W
      <3>2. /\ argv \in Seq(W) /\ Len(sw) \in Nat /\ Len(args) \in Nat
            /\ Len(argv) = 1 + Len(sw) + Len(args)
        BY <2>2, <3>1, ElementsAre
      <3> QED BY <2>3, <3>2 DEF argv
    <2> HIDE DEF wrapper, C, W, wrapped
    <2>5. wrapped = PrependWrapper(l, wrapper) BY DEF wrapped
    <2>6. GetArgs(wrapped) = GetArgs(l) /\ wrapped.switches = l.switches
      BY <2>1, <2>3, <2>4, <2>5, WrappedSame
    <2> QED BY <2>6
  <1> HIDE DEF copy, wrapped, written
  <1>6. Reusable(l) <=>
          /\ TrimString(written) # <<>> => ParseFromString(written) = l
          /\ AppendArguments(NoProgram, l) = l
          /\ copy.switches = l.switches /\ GetArgs(copy) = <<>>
          /\ GetArgs(wrapped) = GetArgs(l) /\ wrapped.switches = l.switches
    BY DEF Reusable, copy, wrapped, written
  <1> QED BY <1>2, <1>3, <1>4, <1>5, <1>6

(* No switch and no argument is lost while a line is read, and a line that *)
(* is read can be written, appended, copied and wrapped, for every command *)
(* line; the plug-in and the program read alike.                           *)
THEOREM LinesAreSplit == Spec => []LineSplit
  <1>1. IsText /\ LineRead /\ LineBack => LineSplit
    <2> SUFFICES ASSUME IsText, LineRead, LineBack PROVE LineSplit
      OBVIOUS
    <2>1. LineKept BY LineKeptOf
    <2>2. ASSUME job = "command", TrimString(text) # <<>> PROVE Reusable(line) /\ ReadAlike
      <3>1. ReadAlike BY <2>2, ReadAlikeOf
      <3>2. PICK sw, args : Kept(line, sw, args) BY <2>2 DEF LineBack
      <3>3. Reusable(line) BY <3>2, ReusableOf
      <3> QED BY <3>1, <3>3
    <2> QED BY <2>1, <2>2 DEF LineSplit
  <1> QED BY <1>1, TextKept, LineKeptInv, LineBackInv, PTL
=============================================================================
