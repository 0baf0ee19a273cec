-------------------------- MODULE DirectoryProofs --------------------------
(***************************************************************************)
(* Proofs about Directory: the messages that leave SendDirectoryRefresh    *)
(* and SendDirectoryUpdate are whole, the buffers all end, and the         *)
(* consumer's view is current, for every service id.                       *)
(*                                                                         *)
(* An encoding is a program, the sequence of the RSSL calls it makes.  The *)
(* lemmas follow the encoder from the inside out, one for each function of *)
(* provider_t: where a program is called, it adds a known set of entries   *)
(* and leaves the open containers as it found them.  The invariant then    *)
(* says of a message in the making that the calls left complete it to a    *)
(* whole one, or that one of them returns false and it will never be sent. *)
(***************************************************************************)
EXTENDS Directory, SequenceTheorems, TLAPS

(* A sequence, of whatever the encoder was given. *)
Sequence(p) == \E T : p \in Seq(T)

(* One call is a sequence of calls. *)
LEMMA SequenceOne ==
    ASSUME NEW x
    PROVE  Sequence(<<x>>)
  <1>1. <<x>> \in Seq({x}) OBVIOUS
  <1> QED BY <1>1 DEF Sequence

(* Two sequences are sequences over one set. *)
LEMMA SequenceBoth ==
    ASSUME NEW p, NEW q, Sequence(p), Sequence(q)
    PROVE  \E T : p \in Seq(T) /\ q \in Seq(T)
  <1>1. PICK P : p \in Seq(P) BY DEF Sequence
  <1>2. PICK Q : q \in Seq(Q) BY DEF Sequence
  <1>3. p \in Seq(P \cup Q) /\ q \in Seq(P \cup Q)
    <2>1. P \subseteq P \cup Q /\ Q \subseteq P \cup Q OBVIOUS
    <2>2. Seq(P) \subseteq Seq(P \cup Q) BY <2>1, SeqMonotonic
    <2>3. Seq(Q) \subseteq Seq(P \cup Q) BY <2>1, SeqMonotonic
    <2> QED BY <1>1, <1>2, <2>2, <2>3
  <1> QED BY <1>3

(* What \o returns, for sequences of anything. *)
LEMMA SequenceConcat ==
    ASSUME NEW p, NEW q, Sequence(p), Sequence(q)
    PROVE  /\ Sequence(p \o q)
           /\ Len(p) \in Nat /\ Len(q) \in Nat
           /\ Len(p \o q) = Len(p) + Len(q)
           /\ \A k \in 1..(Len(p) + Len(q)) :
                 (p \o q)[k] = IF k <= Len(p) THEN p[k] ELSE q[k - Len(p)]
  <1>1. PICK T : p \in Seq(T) /\ q \in Seq(T) BY SequenceBoth
  <1>2. p \o q \in Seq(T) BY <1>1
  <1>3. Sequence(p \o q) BY <1>2 DEF Sequence
  <1> QED BY <1>1, <1>3

(* What Append returns, and that closing what was opened last gives the path *)
(* back: Append, then SubSeq without the last element.                       *)
LEMMA SequenceAppend ==
    ASSUME NEW p, NEW x, Sequence(p)
    PROVE  /\ Sequence(Append(p, x))
           /\ Len(p) \in Nat
           /\ Len(Append(p, x)) = Len(p) + 1
           /\ \A k \in 1..(Len(p) + 1) :
                 Append(p, x)[k] = IF k <= Len(p) THEN p[k] ELSE x
           /\ SubSeq(Append(p, x), 1, Len(Append(p, x)) - 1) = p
  <1>1. Sequence(<<x>>) BY SequenceOne
  <1>2. PICK T : p \in Seq(T) /\ <<x>> \in Seq(T) BY <1>1, SequenceBoth
  <1>3. x \in T
    <2>1. Len(<<x>>) = 1 /\ <<x>>[1] = x OBVIOUS
    <2> QED BY <1>2, <2>1, ElementOfSeq
  <1>4. Append(p, x) \in Seq(T) BY <1>2, <1>3
  <1>5. Sequence(Append(p, x)) BY <1>4 DEF Sequence
  <1>6. SubSeq(Append(p, x), 1, Len(Append(p, x)) - 1) = p
    BY <1>2, <1>3, AppendProperties, HeadTailAppend
  <1> QED BY <1>2, <1>3, <1>5, <1>6

(* The effect of one call on the encoder: the containers open and the entries *)
(* in the buffer (Encode, without the guard that the Complete fits).          *)
Step(s, c) ==
    [open |-> CASE c.call = "open" -> Append(s.open, <<c.kind, c.value>>)
                [] c.call = "close" -> SubSeq(s.open, 1, Len(s.open) - 1)
                [] OTHER -> s.open,
     entries |-> IF c.call \in {"open", "put"}
                   THEN s.entries \cup {[path |-> s.open, kind |-> c.kind, value |-> c.value]}
                   ELSE s.entries]

(* The encoder inside the containers of o, with the entries E written. *)
At(o, E) == [open |-> o, entries |-> E]

(* The calls p take the encoder from s to t, by the states r it goes through.  *)
(* This is what stands for an induction over the calls: nothing below looks at *)
(* a program longer than the pieces it is put together from.                   *)
RunsBy(r, p, s, t) ==
    /\ r[0] = s /\ r[Len(p)] = t
    /\ \A k \in 1..Len(p) : r[k] = Step(r[k - 1], p[k])

Runs(p, s, t) == \E r : RunsBy(r, p, s, t)

(* No call, no change. *)
LEMMA RunsNothing ==
    ASSUME NEW s
    PROVE  Runs(<<>>, s, s)
  <1> DEFINE r == [k \in 0..0 |-> s]
  <1>1. Len(<<>>) = 0 /\ 1..0 = {} /\ r[0] = s OBVIOUS
  <1> HIDE DEF r
  <1>2. RunsBy(r, <<>>, s, s) BY <1>1 DEF RunsBy
  <1> QED BY <1>2 DEF Runs

(* An encoding with no call left has arrived. *)
LEMMA RunsEnd ==
    ASSUME NEW s, NEW t, Runs(<<>>, s, t)
    PROVE  s = t
  BY DEF Runs, RunsBy

(* One call is one step. *)
LEMMA RunsOne ==
    ASSUME NEW s, NEW c
    PROVE  Runs(<<c>>, s, Step(s, c))
  <1> DEFINE r == [k \in 0..1 |-> IF k = 0 THEN s ELSE Step(s, c)]
  <1>1. Len(<<c>>) = 1 /\ <<c>>[1] = c OBVIOUS
  <1>2. r[0] = s /\ r[1] = Step(s, c) OBVIOUS
  <1> HIDE DEF r
  <1>3. \A k \in 1..1 : k = 1 /\ k - 1 = 0 OBVIOUS
  <1>4. RunsBy(r, <<c>>, s, Step(s, c)) BY <1>1, <1>2, <1>3 DEF RunsBy
  <1> QED BY <1>4 DEF Runs

(* Programs run one after the other: the states of the first, then those of *)
(* the second.                                                              *)
LEMMA RunsBoth ==
    ASSUME NEW p, NEW q, Sequence(p), Sequence(q), NEW s, NEW t, NEW u,
           Runs(p, s, t), Runs(q, t, u)
    PROVE  Runs(p \o q, s, u)
  <1>1. PICK f : RunsBy(f, p, s, t) BY DEF Runs
  <1>2. PICK g : RunsBy(g, q, t, u) BY DEF Runs
  <1> DEFINE n == Len(p)
             m == Len(q)
             r == [k \in 0..(n + m) |-> IF k <= n THEN f[k] ELSE g[k - n]]
  <1>3. n \in Nat /\ m \in Nat /\ Len(p \o q) = n + m BY SequenceConcat
  <1>4. \A k \in 0..(n + m) : k <= n => r[k] = f[k] OBVIOUS
  <1>5. \A k \in 0..(n + m) : n <= k => r[k] = g[k - n]
    <2>1. f[n] = g[0] BY <1>1, <1>2 DEF RunsBy
    <2>2. \A k \in 0..(n + m) : k = n => r[k] = f[n] /\ k - n = 0 BY <1>3
    <2>3. \A k \in 0..(n + m) : n <= k /\ k # n => r[k] = g[k - n] BY <1>3
    <2> HIDE DEF n, m, r
    <2> QED BY <2>1, <2>2, <2>3
  <1>6. ASSUME NEW k \in 1..(n + m)
        PROVE  (p \o q)[k] = IF k <= n THEN p[k] ELSE q[k - n]
    BY SequenceConcat
  <1> HIDE DEF n, m, r
  <1>7. ASSUME NEW k \in 1..(n + m) PROVE r[k] = Step(r[k - 1], (p \o q)[k])
    <2>1. k \in 0..(n + m) /\ k - 1 \in 0..(n + m) BY <1>3
    <2>2. CASE k <= n
      <3>1. k \in 1..n BY <1>3, <2>2
      <3>2. f[k] = Step(f[k - 1], p[k]) BY <1>1, <3>1 DEF RunsBy, n
      <3>3. r[k] = f[k] /\ r[k - 1] = f[k - 1] BY <1>3, <1>4, <2>1, <2>2
      <3> QED BY <1>6, <2>2, <3>2, <3>3
    <2>3. CASE ~(k <= n)
      <3>1. k - n \in 1..m BY <1>3, <2>3
      <3>2. g[k - n] = Step(g[(k - n) - 1], q[k - n]) BY <1>2, <3>1 DEF RunsBy, m
      <3>3. (k - n) - 1 = (k - 1) - n /\ n <= k /\ n <= k - 1 BY <1>3, <2>3
      <3>4. r[k] = g[k - n] /\ r[k - 1] = g[(k - 1) - n] BY <1>5, <2>1, <3>3
      <3> QED BY <1>6, <2>3, <3>2, <3>3, <3>4
    <2> QED BY <2>2, <2>3
  <1>8. r[0] = s
    <2>1. 0 \in 0..(n + m) /\ 0 <= n BY <1>3
    <2> QED BY <1>1, <1>4, <2>1 DEF RunsBy
  <1>9. r[n + m] = u
    <2>1. n + m \in 0..(n + m) /\ n <= n + m /\ (n + m) - n = m BY <1>3
    <2>2. g[m] = u BY <1>2 DEF RunsBy, m
    <2> QED BY <1>5, <2>1, <2>2
  <1>10. RunsBy(r, p \o q, s, u)
    BY <1>3, <1>7, <1>8, <1>9 DEF RunsBy
  <1> QED BY <1>10 DEF Runs

(* After the first call of a program the rest of it still runs to its end. *)
(* This is the step Encode takes.                                          *)
LEMMA RunsNext ==
    ASSUME NEW p, Sequence(p), p # <<>>, NEW s, NEW t, Runs(p, s, t)
    PROVE  Runs(Tail(p), Step(s, Head(p)), t)
  <1>1. PICK f : RunsBy(f, p, s, t) BY DEF Runs
  <1> DEFINE n == Len(p)
             r == [k \in 0..(n - 1) |-> f[k + 1]]
  <1> PICK T : p \in Seq(T) BY DEF Sequence
  <1>2. n \in Nat \ {0} /\ Len(Tail(p)) = n - 1 /\ Head(p) = p[1] OBVIOUS
  <1>3. ASSUME NEW k \in 1..(n - 1) PROVE Tail(p)[k] = p[k + 1] OBVIOUS
  <1>4. \A k \in 0..(n - 1) : r[k] = f[k + 1] OBVIOUS
  <1> HIDE DEF n, r
  <1>5. ASSUME NEW k \in 1..(n - 1) PROVE r[k] = Step(r[k - 1], Tail(p)[k])
    <2>1. k + 1 \in 1..n /\ (k + 1) - 1 = k BY <1>2
    <2>2. f[k + 1] = Step(f[k], p[k + 1]) BY <1>1, <2>1 DEF RunsBy, n
    <2>3. k \in 0..(n - 1) /\ k - 1 \in 0..(n - 1) /\ (k - 1) + 1 = k BY <1>2
    <2> QED BY <1>3, <1>4, <2>2, <2>3
  <1>6. r[0] = Step(s, Head(p))
    <2>1. 1 \in 1..n /\ 0 \in 0..(n - 1) /\ 1 - 1 = 0 /\ 0 + 1 = 1 BY <1>2
    <2>2. f[1] = Step(f[0], p[1]) /\ f[0] = s BY <1>1, <2>1 DEF RunsBy, n
    <2> QED BY <1>2, <1>4, <2>1, <2>2
  <1>7. r[n - 1] = t
    <2>1. n - 1 \in 0..(n - 1) /\ (n - 1) + 1 = n BY <1>2
    <2>2. f[n] = t BY <1>1 DEF RunsBy, n
    <2> QED BY <1>4, <2>1, <2>2
  <1>8. RunsBy(r, Tail(p), Step(s, Head(p)), t)
    BY <1>2, <1>5, <1>6, <1>7 DEF RunsBy
  <1> QED BY <1>8 DEF Runs

(* Whatever was written, p adds the entries E and ends in the containers it *)
(* started in.                                                              *)
Does(p, o, E) ==
    /\ Sequence(p)
    /\ \A S : Runs(p, At(o, S), At(o, S \cup E))

(* Two functions of the encoder called in turn add what both add. *)
LEMMA DoesBoth ==
    ASSUME NEW p, NEW q, NEW o, NEW E, NEW F, Does(p, o, E), Does(q, o, F)
    PROVE  Does(p \o q, o, E \cup F)
  <1>1. Sequence(p) /\ Sequence(q) BY DEF Does
  <1>2. Sequence(p \o q) BY <1>1, SequenceConcat
  <1>3. ASSUME NEW S PROVE Runs(p \o q, At(o, S), At(o, S \cup (E \cup F)))
    <2>1. Runs(p, At(o, S), At(o, S \cup E)) BY DEF Does
    <2>2. Runs(q, At(o, S \cup E), At(o, (S \cup E) \cup F)) BY DEF Does
    <2>3. Runs(p \o q, At(o, S), At(o, (S \cup E) \cup F))
      BY <1>1, <2>1, <2>2, RunsBoth
    <2>4. (S \cup E) \cup F = S \cup (E \cup F) OBVIOUS
    <2> QED BY <2>3, <2>4
  <1> QED BY <1>2, <1>3 DEF Does

(* An entry without a container is added where the encoder is. *)
LEMMA DoesPut ==
    ASSUME NEW kind, NEW value, NEW o
    PROVE  Does(<<Put(kind, value)>>, o, {[path |-> o, kind |-> kind, value |-> value]})
  <1> DEFINE c == Put(kind, value)
             e == [path |-> o, kind |-> kind, value |-> value]
  <1>1. Sequence(<<c>>) BY SequenceOne
  <1>2. ASSUME NEW S PROVE Runs(<<c>>, At(o, S), At(o, S \cup {e}))
    <2>1. Step(At(o, S), c) = At(o, S \cup {e})
      BY DEF Step, At, Put
    <2> HIDE DEF c
    <2> QED BY <2>1, RunsOne
  <1> QED BY <1>1, <1>2 DEF Does

(* A call that writes nothing: the iterator's setup, rsslValidateMsg. *)
LEMMA DoesCall ==
    ASSUME NEW name, NEW o
    PROVE  Does(<<Call(name)>>, o, {})
  <1> DEFINE c == Call(name)
  <1>1. Sequence(<<c>>) BY SequenceOne
  <1>2. ASSUME NEW S PROVE Runs(<<c>>, At(o, S), At(o, S \cup {}))
    <2>1. Step(At(o, S), c) = At(o, S \cup {})
      BY DEF Step, At, Call
    <2> HIDE DEF c
    <2> QED BY <2>1, RunsOne
  <1> QED BY <1>1, <1>2 DEF Does

(* A container adds its own entry and, one level down, what its body adds; *)
(* its Complete leaves the path as its Init found it.                      *)
LEMMA DoesWithin ==
    ASSUME NEW kind, NEW value, NEW o, Sequence(o), NEW body, NEW E,
           Does(body, Append(o, <<kind, value>>), E)
    PROVE  Does(Within(kind, value, body), o,
                {[path |-> o, kind |-> kind, value |-> value]} \cup E)
  <1> DEFINE a == Open(kind, value)
             z == Close(kind)
             i == Append(o, <<kind, value>>)
             e == [path |-> o, kind |-> kind, value |-> value]
  <1>1. Sequence(<<a>>) /\ Sequence(<<z>>) BY SequenceOne
  <1>2. Sequence(body) BY DEF Does
  <1>3. Within(kind, value, body) = (<<a>> \o body) \o <<z>> BY DEF Within
  <1>4. Sequence(<<a>> \o body) BY <1>1, <1>2, SequenceConcat
  <1>5. Sequence((<<a>> \o body) \o <<z>>) BY <1>1, <1>4, SequenceConcat
  <1>6. ASSUME NEW S PROVE Step(At(o, S), a) = At(i, S \cup {e})
    BY DEF Step, At, Open
  <1>7. ASSUME NEW S PROVE Step(At(i, S), z) = At(o, S)
    <2>1. SubSeq(i, 1, Len(i) - 1) = o BY SequenceAppend
    <2> QED BY <2>1 DEF Step, At, Close
  <1>8. ASSUME NEW S
         PROVE  Runs((<<a>> \o body) \o <<z>>, At(o, S), At(o, S \cup ({e} \cup E)))
    <2> DEFINE T == (S \cup {e}) \cup E
    <2> HIDE DEF a, z, i, e
    <2>1. Runs(<<a>>, At(o, S), At(i, S \cup {e})) BY <1>6, RunsOne
    <2>2. Runs(body, At(i, S \cup {e}), At(i, T)) BY DEF Does, i
    <2>3. Runs(<<z>>, At(i, T), At(o, T)) BY <1>7, RunsOne
    <2>4. T = S \cup ({e} \cup E) OBVIOUS
    <2> HIDE DEF T
    <2>5. Runs(<<a>> \o body, At(o, S), At(i, T)) BY <1>1, <1>2, <2>1, <2>2, RunsBoth
    <2>6. Runs((<<a>> \o body) \o <<z>>, At(o, S), At(o, T))
      BY <1>1, <1>4, <2>3, <2>5, RunsBoth
    <2> QED BY <2>4, <2>6
  <1> HIDE DEF a, z, i, e
  <1> QED BY <1>3, <1>5, <1>8 DEF Does, e

(* A filter that is not asked for adds nothing. *)
LEMMA DoesNothing ==
    ASSUME NEW o
    PROVE  Does(<<>>, o, {})
  <1>1. <<>> \in Seq({}) OBVIOUS
  <1>2. ASSUME NEW S PROVE Runs(<<>>, At(o, S), At(o, S \cup {}))
    <2>1. S \cup {} = S OBVIOUS
    <2> QED BY <2>1, RunsNothing
  <1> QED BY <1>1, <1>2 DEF Does, Sequence

-----------------------------------------------------------------------------
(* The filters an entry lies in. *)
Above(path) == {f \in Provided : \E i \in 1..Len(path) : path[i] = <<"filter_entry", f>>}

(* Kinds of entries only the outer functions write. *)
Frames == {"filters", "filter_entry", "map_entry"}

(* What ElementsOf and AcceptingIn read, for a set of entries. *)
NameOf(e) == IF e.kind = "element" THEN e.value ELSE e.kind
Names(E) == {NameOf(e) : e \in E} \ {"elements", "array", "entry"}
AcceptingOf(E) == {e.value : e \in {e \in E : e.kind = "AcceptingRequests"}}

(* Going into a container changes the filters an entry lies in only if the *)
(* container is a filter entry.                                            *)
LEMMA AboveAppend ==
    ASSUME NEW o, Sequence(o), NEW kind, NEW value
    PROVE  Above(Append(o, <<kind, value>>)) =
              Above(o) \cup (IF kind = "filter_entry" THEN {value} \cap Provided ELSE {})
  <1> DEFINE i == Append(o, <<kind, value>>)
             n == Len(o)
  <1>1. /\ n \in Nat /\ Len(i) = n + 1
        /\ \A k \in 1..(n + 1) : i[k] = IF k <= n THEN o[k] ELSE <<kind, value>>
    BY SequenceAppend
  <1> HIDE DEF i, n
  <1>2. /\ \A k \in 1..n : k \in 1..(n + 1) /\ k <= n
        /\ n + 1 \in 1..(n + 1) /\ ~(n + 1 <= n)
        /\ \A k \in 1..(n + 1) : k \in 1..n \/ k = n + 1
    BY <1>1
  <1>3. i[n + 1] = <<kind, value>> BY <1>1, <1>2
  <1>4. \A k \in 1..n : i[k] = o[k] BY <1>1, <1>2
  <1>5. ASSUME NEW f \in Provided
        PROVE  (\E k \in 1..(n + 1) : i[k] = <<"filter_entry", f>>)
                  <=> \/ \E k \in 1..n : o[k] = <<"filter_entry", f>>
                      \/ kind = "filter_entry" /\ value = f
    <2>1. (<<kind, value>> = <<"filter_entry", f>>)
             <=> (kind = "filter_entry" /\ value = f)
      OBVIOUS
    <2> QED BY <1>2, <1>3, <1>4, <2>1
  <1> QED BY <1>1, <1>5 DEF Above, i, n

(* What a filter's own encoder writes: entries in the filter it is called in, *)
(* and none of the outer kinds.                                               *)
Plain(E, o) == \A e \in E : e.kind \notin Frames /\ Above(e.path) = Above(o)

(* The program p, called inside the containers o, writes a filter's elements: *)
(* those named N, with A the values of AcceptingRequests.                     *)
Encodes(p, o, N, A) ==
    \E E : Does(p, o, E) /\ Plain(E, o) /\ Names(E) = N /\ AcceptingOf(E) = A

(* What one entry adds to the names and to the values of AcceptingRequests. *)
Name(kind, value) == Names({[path |-> <<>>, kind |-> kind, value |-> value]})
Flag(kind, value) == IF kind = "AcceptingRequests" THEN {value} ELSE {}

(* A single entry, read. *)
LEMMA EncodesOne ==
    ASSUME NEW kind, NEW value, NEW o, kind \notin Frames
    PROVE  LET E == {[path |-> o, kind |-> kind, value |-> value]}
           IN  Plain(E, o) /\ Names(E) = Name(kind, value)
               /\ AcceptingOf(E) = Flag(kind, value)
  <1> DEFINE e == [path |-> o, kind |-> kind, value |-> value]
             d == [path |-> <<>>, kind |-> kind, value |-> value]
  <1>1. e.path = o /\ e.kind = kind /\ e.value = value OBVIOUS
  <1>2. d.kind = kind /\ d.value = value OBVIOUS
  <1>3. NameOf(e) = NameOf(d) BY <1>1, <1>2 DEF NameOf
  <1>4. Name(kind, value) = Names({d}) BY DEF Name
  <1> HIDE DEF e, d
  <1>5. Plain({e}, o) BY <1>1 DEF Plain
  <1>6. Names({e}) = Names({d}) BY <1>3 DEF Names
  <1>7. AcceptingOf({e}) = Flag(kind, value) BY <1>1 DEF AcceptingOf, Flag
  <1> QED BY <1>4, <1>5, <1>6, <1>7 DEF e

(* Reading two sets of entries. *)
LEMMA ReadBoth ==
    ASSUME NEW E, NEW F
    PROVE  /\ Names(E \cup F) = Names(E) \cup Names(F)
           /\ AcceptingOf(E \cup F) = AcceptingOf(E) \cup AcceptingOf(F)
  <1>1. Names(E \cup F) = Names(E) \cup Names(F) BY DEF Names
  <1>2. AcceptingOf(E \cup F) = AcceptingOf(E) \cup AcceptingOf(F) BY DEF AcceptingOf
  <1> QED BY <1>1, <1>2

(* A single entry, written and read. *)
LEMMA EncodesPut ==
    ASSUME NEW kind, NEW value, NEW o, kind \notin Frames
    PROVE  Encodes(<<Put(kind, value)>>, o, Name(kind, value), Flag(kind, value))
  BY DoesPut, EncodesOne DEF Encodes

(* Two encoders called in turn. *)
LEMMA EncodesBoth ==
    ASSUME NEW p, NEW q, NEW o, NEW N, NEW A, NEW M, NEW B,
           Encodes(p, o, N, A), Encodes(q, o, M, B)
    PROVE  Encodes(p \o q, o, N \cup M, A \cup B)
  <1>1. PICK E : Does(p, o, E) /\ Plain(E, o) /\ Names(E) = N /\ AcceptingOf(E) = A
    BY DEF Encodes
  <1>2. PICK F : Does(q, o, F) /\ Plain(F, o) /\ Names(F) = M /\ AcceptingOf(F) = B
    BY DEF Encodes
  <1>3. Does(p \o q, o, E \cup F) BY <1>1, <1>2, DoesBoth
  <1>4. Plain(E \cup F, o) BY <1>1, <1>2 DEF Plain
  <1>5. Names(E \cup F) = N \cup M /\ AcceptingOf(E \cup F) = A \cup B
    BY <1>1, <1>2, ReadBoth
  <1> QED BY <1>3, <1>4, <1>5 DEF Encodes

(* An encoder inside a container. *)
LEMMA EncodesWithin ==
    ASSUME NEW kind, NEW value, NEW o, Sequence(o), kind \notin Frames, NEW body,
           NEW N, NEW A, Encodes(body, Append(o, <<kind, value>>), N, A)
    PROVE  Encodes(Within(kind, value, body), o,
                   Name(kind, value) \cup N, Flag(kind, value) \cup A)
  <1> DEFINE i == Append(o, <<kind, value>>)
             D == {[path |-> o, kind |-> kind, value |-> value]}
  <1>1. PICK E : Does(body, i, E) /\ Plain(E, i) /\ Names(E) = N /\ AcceptingOf(E) = A
    BY DEF Encodes
  <1>2. Does(Within(kind, value, body), o, D \cup E) BY <1>1, DoesWithin
  <1>3. Plain(D, o) /\ Names(D) = Name(kind, value) /\ AcceptingOf(D) = Flag(kind, value)
    BY EncodesOne
  <1>4. Above(i) = Above(o) BY AboveAppend DEF Frames
  <1> HIDE DEF i, D
  <1>5. Plain(D \cup E, o) BY <1>1, <1>3, <1>4 DEF Plain
  <1>6. /\ Names(D \cup E) = Name(kind, value) \cup N
        /\ AcceptingOf(D \cup E) = Flag(kind, value) \cup A
    BY <1>1, <1>3, ReadBoth
  <1> QED BY <1>2, <1>5, <1>6 DEF Encodes

(* The name of an entry: an element's is its value, that of containers and *)
(* array entries is not counted.                                           *)
LEMMA NameIs ==
    ASSUME NEW kind, NEW value
    PROVE  Name(kind, value) =
              {IF kind = "element" THEN value ELSE kind} \ {"elements", "array", "entry"}
  <1> DEFINE d == [path |-> <<>>, kind |-> kind, value |-> value]
  <1>1. d.kind = kind /\ d.value = value OBVIOUS
  <1>2. Name(kind, value) = Names({d}) BY DEF Name
  <1> HIDE DEF d
  <1> QED BY <1>1, <1>2 DEF Names, NameOf

(* GetServiceCapabilities and GetServiceQoS: an array names no element. *)
LEMMA EncodesArrayOfOne ==
    ASSUME NEW x, NEW o, Sequence(o)
    PROVE  Encodes(Array(<<x>>), o, {}, {})
  <1> DEFINE body == <<Put("entry", x)>>
             i == Append(o, <<"array", 1>>)
  <1>1. Array(<<x>>) = Within("array", 1, body)
    <2> DEFINE c == Put("entry", x)
    <2>1. Len(<<x>>) = 1 /\ <<x>>[1] = x OBVIOUS
    <2>2. \A k \in 1..1 : k = 1 OBVIOUS
    <2>3. [k \in 1..1 |-> Put("entry", <<x>>[k])] = [k \in 1..1 |-> c] BY <2>1, <2>2
    <2> HIDE DEF c
    <2>4. [k \in 1..1 |-> c] = <<c>> OBVIOUS
    <2> QED BY <2>1, <2>3, <2>4 DEF Array, c
  <1>2. Encodes(body, i, Name("entry", x), Flag("entry", x)) BY EncodesPut DEF Frames
  <1>3. Encodes(Within("array", 1, body), o, Name("array", 1) \cup Name("entry", x),
                Flag("array", 1) \cup Flag("entry", x))
    BY <1>2, EncodesWithin DEF Frames
  <1>4. Name("array", 1) = {} /\ Name("entry", x) = {} BY NameIs
  <1>5. Flag("array", 1) = {} /\ Flag("entry", x) = {} BY DEF Flag
  <1> QED BY <1>1, <1>3, <1>4, <1>5

(* A pair is one call after the other. *)
LEMMA PairIsBoth ==
    ASSUME NEW c, NEW d
    PROVE  <<c, d>> = <<c>> \o <<d>>
  <1> DEFINE T == {c, d}
             a == <<c>>
             z == <<d>>
             p == <<c, d>>
             q == a \o z
  <1>1. p \in Seq(T) /\ Len(p) = 2 /\ p[1] = c /\ p[2] = d OBVIOUS
  <1>2. a \in Seq(T) /\ Len(a) = 1 /\ a[1] = c OBVIOUS
  <1>3. z \in Seq(T) /\ Len(z) = 1 /\ z[1] = d OBVIOUS
  <1> HIDE DEF a, z, p, T
  <1>4. q \in Seq(T) /\ Len(q) = 2 /\ q[1] = c /\ q[2] = d BY <1>2, <1>3, ConcatProperties
  <1> HIDE DEF q
  <1>5. \A k \in 1..2 : p[k] = q[k]
    <2>1. \A k \in 1..2 : k = 1 \/ k = 2 OBVIOUS
    <2> QED BY <1>1, <1>4, <2>1
  <1>6. p = q BY <1>1, <1>4, <1>5, SeqEqual
  <1> QED BY <1>6 DEF p, q, a, z

(* GetServiceDictionaries: two entries, no element. *)
LEMMA EncodesArrayOfTwo ==
    ASSUME NEW x, NEW y, NEW o, Sequence(o)
    PROVE  Encodes(Array(<<x, y>>), o, {}, {})
  <1> DEFINE body == <<Put("entry", x)>> \o <<Put("entry", y)>>
             i == Append(o, <<"array", 2>>)
  <1>1. Array(<<x, y>>) = Within("array", 2, body)
    <2> DEFINE c == Put("entry", x)
               d == Put("entry", y)
    <2>1. Len(<<x, y>>) = 2 /\ <<x, y>>[1] = x /\ <<x, y>>[2] = y OBVIOUS
    <2>2. \A k \in 1..2 : k = 1 \/ k = 2 OBVIOUS
    <2>3. [k \in 1..2 |-> Put("entry", <<x, y>>[k])] = [k \in 1..2 |-> IF k = 1 THEN c ELSE d]
      BY <2>1, <2>2
    <2> HIDE DEF c, d
    <2>4. [k \in 1..2 |-> IF k = 1 THEN c ELSE d] = <<c, d>> OBVIOUS
    <2>5. <<c, d>> = <<c>> \o <<d>> BY PairIsBoth
    <2> QED BY <2>1, <2>3, <2>4, <2>5 DEF Array, c, d
  <1>2. /\ Encodes(<<Put("entry", x)>>, i, Name("entry", x), Flag("entry", x))
        /\ Encodes(<<Put("entry", y)>>, i, Name("entry", y), Flag("entry", y))
    BY EncodesPut DEF Frames
  <1>3. /\ Name("array", 2) = {} /\ Name("entry", x) = {} /\ Name("entry", y) = {}
        /\ Flag("array", 2) = {} /\ Flag("entry", x) = {} /\ Flag("entry", y) = {}
    BY NameIs DEF Flag
  <1>4. Encodes(body, i, {} \cup {}, {} \cup {}) BY <1>2, <1>3, EncodesBoth
  <1>5. Encodes(Within("array", 2, body), o, {} \cup ({} \cup {}), {} \cup ({} \cup {}))
    BY <1>3, <1>4, EncodesWithin DEF Frames
  <1>6. {} \cup ({} \cup {}) = {} OBVIOUS
  <1> QED BY <1>1, <1>5, <1>6

(* An element that holds an array is one element, by its name. *)
LEMMA EncodesElement ==
    ASSUME NEW name, name \notin {"elements", "array", "entry"}, NEW array,
           NEW o, Sequence(o), \A i : Sequence(i) => Encodes(array, i, {}, {})
    PROVE  Encodes(Within("element", name, array), o, {name}, {})
  <1>1. Sequence(Append(o, <<"element", name>>)) BY SequenceAppend
  <1>2. Encodes(array, Append(o, <<"element", name>>), {}, {}) BY <1>1
  <1>3. Encodes(Within("element", name, array), o,
                Name("element", name) \cup {}, Flag("element", name) \cup {})
    BY <1>2, EncodesWithin DEF Frames
  <1>4. Name("element", name) = {name} BY NameIs
  <1>5. Flag("element", name) = {} BY DEF Flag
  <1> QED BY <1>3, <1>4, <1>5

(* An element without a container is named by its kind. *)
LEMMA EncodesEntry ==
    ASSUME NEW kind, NEW value, NEW o,
           kind \notin Frames \cup {"element", "elements", "array", "entry"}
    PROVE  Encodes(<<Put(kind, value)>>, o, {kind}, Flag(kind, value))
  <1>1. Name(kind, value) = {kind} BY NameIs
  <1> QED BY <1>1, EncodesPut

(* The list of elements adds none of its own. *)
LEMMA EncodesElements ==
    ASSUME NEW body, NEW o, Sequence(o), NEW N, NEW A,
           \A i : Sequence(i) => Encodes(body, i, N, A)
    PROVE  Encodes(Within("elements", 0, body), o, N, A)
  <1>1. Sequence(Append(o, <<"elements", 0>>)) BY SequenceAppend
  <1>2. Encodes(body, Append(o, <<"elements", 0>>), N, A) BY <1>1
  <1>3. Encodes(Within("elements", 0, body), o,
                Name("elements", 0) \cup N, Flag("elements", 0) \cup A)
    BY <1>2, EncodesWithin DEF Frames
  <1>4. Name("elements", 0) = {} BY NameIs
  <1>5. Flag("elements", 0) = {} BY DEF Flag
  <1> QED BY <1>3, <1>4, <1>5

(* Two elements written in turn. *)
LEMMA EncodesPair ==
    ASSUME NEW c, NEW d, NEW o, NEW N, NEW A, NEW M, NEW B,
           Encodes(<<c>>, o, N, A), Encodes(<<d>>, o, M, B)
    PROVE  Encodes(<<c, d>>, o, N \cup M, A \cup B)
  <1> DEFINE p == <<c>>
             q == <<d>>
  <1>1. <<c, d>> = p \o q BY PairIsBoth
  <1>2. Encodes(p, o, N, A) /\ Encodes(q, o, M, B) OBVIOUS
  <1> HIDE DEF p, q
  <1>3. Encodes(p \o q, o, N \cup M, A \cup B) BY <1>2, EncodesBoth
  <1> QED BY <1>1, <1>3

(* The three elements of GetServiceInformation that are arrays. *)
LEMMA EncodesServiceArrays ==
    ASSUME NEW o, Sequence(o)
    PROVE  Encodes(ServiceArrays, o, {"Capabilities", "DictionariesUsed", "QoS"}, {})
  <1> DEFINE a == Within("element", "Capabilities", GetServiceCapabilities)
             b == Within("element", "DictionariesUsed", GetServiceDictionaries)
             c == Within("element", "QoS", GetServiceQoS)
  <1>1. \A i : Sequence(i) => Encodes(GetServiceCapabilities, i, {}, {})
    BY EncodesArrayOfOne DEF GetServiceCapabilities
  <1>2. \A i : Sequence(i) => Encodes(GetServiceDictionaries, i, {}, {})
    BY EncodesArrayOfTwo DEF GetServiceDictionaries
  <1>3. \A i : Sequence(i) => Encodes(GetServiceQoS, i, {}, {})
    BY EncodesArrayOfOne DEF GetServiceQoS
  <1>4. Encodes(a, o, {"Capabilities"}, {}) BY <1>1, EncodesElement
  <1>5. Encodes(b, o, {"DictionariesUsed"}, {}) BY <1>2, EncodesElement
  <1>6. Encodes(c, o, {"QoS"}, {}) BY <1>3, EncodesElement
  <1>7. ServiceArrays = (a \o b) \o c BY DEF ServiceArrays
  <1> HIDE DEF a, b, c
  <1>8. Encodes(a \o b, o, {"Capabilities"} \cup {"DictionariesUsed"}, {} \cup {})
    BY <1>4, <1>5, EncodesBoth
  <1>9. Encodes((a \o b) \o c, o, ({"Capabilities"} \cup {"DictionariesUsed"}) \cup {"QoS"},
                ({} \cup {}) \cup {})
    BY <1>6, <1>8, EncodesBoth
  <1>10. /\ ({"Capabilities"} \cup {"DictionariesUsed"}) \cup {"QoS"}
               = {"Capabilities", "DictionariesUsed", "QoS"}
         /\ ({} \cup {}) \cup {} = {}
    OBVIOUS
  <1> QED BY <1>7, <1>9, <1>10

(* GetServiceInformation writes all six elements of the filter, and no flag. *)
LEMMA EncodesInformation ==
    ASSUME NEW o, Sequence(o)
    PROVE  Encodes(GetServiceInformation, o, Elements("INFO"), {})
  <1> DEFINE a == <<Put("Name", 0)>>
             c == Put("SupportsOutOfBandSnapshots", 0)
             d == Put("AcceptingConsumerStatus", 0)
             body == (a \o ServiceArrays) \o <<c, d>>
             arrays == {"Capabilities", "DictionariesUsed", "QoS"}
             flags == {"SupportsOutOfBandSnapshots"} \cup {"AcceptingConsumerStatus"}
  <1>1. ASSUME NEW i, Sequence(i)
        PROVE  Encodes(body, i, ({"Name"} \cup arrays) \cup flags, {})
    <2>1. Encodes(a, i, {"Name"}, Flag("Name", 0)) BY EncodesEntry DEF Frames
    <2>2. Encodes(<<c>>, i, {"SupportsOutOfBandSnapshots"}, Flag("SupportsOutOfBandSnapshots", 0))
      BY EncodesEntry DEF Frames
    <2>3. Encodes(<<d>>, i, {"AcceptingConsumerStatus"}, Flag("AcceptingConsumerStatus", 0))
      BY EncodesEntry DEF Frames
    <2>4. /\ Flag("Name", 0) = {} /\ Flag("SupportsOutOfBandSnapshots", 0) = {}
          /\ Flag("AcceptingConsumerStatus", 0) = {}
      BY DEF Flag
    <2>5. Encodes(ServiceArrays, i, arrays, {}) BY <1>1, EncodesServiceArrays
    <2> HIDE DEF a, c, d, arrays
    <2>6. Encodes(<<c, d>>, i, flags, {} \cup {}) BY <2>2, <2>3, <2>4, EncodesPair
    <2> HIDE DEF flags
    <2>7. Encodes(a \o ServiceArrays, i, {"Name"} \cup arrays, {} \cup {})
      BY <2>1, <2>4, <2>5, EncodesBoth
    <2>8. Encodes((a \o ServiceArrays) \o <<c, d>>, i, ({"Name"} \cup arrays) \cup flags,
                  ({} \cup {}) \cup ({} \cup {}))
      BY <2>6, <2>7, EncodesBoth
    <2>9. ({} \cup {}) \cup ({} \cup {}) = {} OBVIOUS
    <2> QED BY <2>8, <2>9
  <1>2. GetServiceInformation = Within("elements", 0, body) BY DEF GetServiceInformation
  <1>3. Elements("INFO") = ({"Name"} \cup arrays) \cup flags BY DEF Elements
  <1> HIDE DEF body, arrays, flags
  <1>4. \A i : Sequence(i) => Encodes(body, i, ({"Name"} \cup arrays) \cup flags, {})
    BY <1>1
  <1>5. Encodes(Within("elements", 0, body), o, ({"Name"} \cup arrays) \cup flags, {})
    BY <1>4, EncodesElements
  <1> QED BY <1>2, <1>3, <1>5

(* GetServiceState writes both elements of the filter, and the flag it is *)
(* given.                                                                 *)
LEMMA EncodesState ==
    ASSUME NEW accepting, NEW o, Sequence(o)
    PROVE  Encodes(GetServiceState(accepting), o, Elements("STATE"),
                   {IF accepting THEN 1 ELSE 0})
  <1> DEFINE flag == IF accepting THEN 1 ELSE 0
             c == Put("ServiceState", 1)
             d == Put("AcceptingRequests", flag)
             N == {"ServiceState"} \cup {"AcceptingRequests"}
  <1>1. GetServiceState(accepting) = Within("elements", 0, <<c, d>>) BY DEF GetServiceState
  <1> HIDE DEF flag
  <1>2. ASSUME NEW i, Sequence(i) PROVE Encodes(<<c, d>>, i, N, {flag})
    <2>1. Encodes(<<c>>, i, {"ServiceState"}, Flag("ServiceState", 1))
      BY EncodesEntry DEF Frames
    <2>2. Encodes(<<d>>, i, {"AcceptingRequests"}, Flag("AcceptingRequests", flag))
      BY EncodesEntry DEF Frames
    <2>3. Flag("ServiceState", 1) = {} /\ Flag("AcceptingRequests", flag) = {flag}
      BY DEF Flag
    <2> HIDE DEF c, d
    <2>4. Encodes(<<c, d>>, i, N, {} \cup {flag}) BY <2>1, <2>2, <2>3, EncodesPair
    <2>5. {} \cup {flag} = {flag} OBVIOUS
    <2> QED BY <2>4, <2>5
  <1>3. Elements("STATE") = N BY DEF Elements
  <1> DEFINE body == <<c, d>>
  <1>4. \A i : Sequence(i) => Encodes(body, i, N, {flag}) BY <1>2
  <1> HIDE DEF body, N
  <1>5. Encodes(Within("elements", 0, body), o, N, {flag}) BY <1>4, EncodesElements
  <1> QED BY <1>1, <1>3, <1>5 DEF body, flag

(* GetServiceLoad writes the one element of the filter. *)
LEMMA EncodesLoad ==
    ASSUME NEW o, Sequence(o)
    PROVE  Encodes(GetServiceLoad, o, Elements("LOAD"), {})
  <1> DEFINE body == <<Put("OpenWindow", 1000)>>
  <1>1. ASSUME NEW i PROVE Encodes(body, i, {"OpenWindow"}, {})
    <2>1. Encodes(body, i, {"OpenWindow"}, Flag("OpenWindow", 1000))
      BY EncodesEntry DEF Frames
    <2>2. Flag("OpenWindow", 1000) = {} BY DEF Flag
    <2> QED BY <2>1, <2>2
  <1>2. GetServiceLoad = Within("elements", 0, body) BY DEF GetServiceLoad
  <1>3. Elements("LOAD") = {"OpenWindow"} BY DEF Elements
  <1> HIDE DEF body
  <1>4. Encodes(Within("elements", 0, body), o, {"OpenWindow"}, {})
    BY <1>1, EncodesElements
  <1> QED BY <1>2, <1>3, <1>4

-----------------------------------------------------------------------------
(* The filters of a set of entries, and the entries inside one of them. *)
FilterValues(E) == {e.value : e \in {e \in E : e.kind = "filter_entry"}}
Inside(E, f) == {e \in E : f \in Above(e.path)}

(* A whole filter list: the filters G, each with all its elements and none *)
(* without its entry, A the values of AcceptingRequests.                   *)
Listed(E, G, A) ==
    /\ \A e \in E : e.kind \notin {"filters", "map_entry"}
    /\ FilterValues(E) = G
    /\ \A f \in Provided : Names(Inside(E, f)) = IF f \in G THEN Elements(f) ELSE {}
    /\ AcceptingOf(E) = A

Lists(p, o, G, A) == \E E : Does(p, o, E) /\ Listed(E, G, A)

(* The list of no filter. *)
LEMMA ListsNothing ==
    ASSUME NEW o
    PROVE  Lists(<<>>, o, {}, {})
  <1>1. Does(<<>>, o, {}) BY DoesNothing
  <1>2. Listed({}, {}, {}) BY DEF Listed, FilterValues, Inside, Names, AcceptingOf
  <1> QED BY <1>1, <1>2 DEF Lists

(* One filter entry around the elements of that filter. *)
LEMMA ListsEntry ==
    ASSUME NEW f \in Provided, NEW body, NEW A, NEW o, Sequence(o), Above(o) = {},
           Encodes(body, Append(o, <<"filter_entry", f>>), Elements(f), A)
    PROVE  Lists(Within("filter_entry", f, body), o, {f}, A)
  <1> DEFINE i == Append(o, <<"filter_entry", f>>)
             d == [path |-> o, kind |-> "filter_entry", value |-> f]
  <1>1. PICK E : /\ Does(body, i, E) /\ Plain(E, i)
                 /\ Names(E) = Elements(f) /\ AcceptingOf(E) = A
    BY DEF Encodes
  <1>2. Does(Within("filter_entry", f, body), o, {d} \cup E) BY <1>1, DoesWithin
  <1>3. Above(i) = {f}
    <2>1. Above(i) = Above(o) \cup ({f} \cap Provided) BY AboveAppend
    <2> QED BY <2>1
  <1>4. d.path = o /\ d.kind = "filter_entry" /\ d.value = f OBVIOUS
  <1> HIDE DEF i, d
  <1>5. \A e \in E : e.kind \notin Frames /\ Above(e.path) = {f} BY <1>1, <1>3 DEF Plain
  <1>6. \A e \in {d} \cup E : e.kind \notin {"filters", "map_entry"}
    BY <1>4, <1>5 DEF Frames
  <1>7. FilterValues({d} \cup E) = {f}
    <2>1. {e \in {d} \cup E : e.kind = "filter_entry"} = {d} BY <1>4, <1>5 DEF Frames
    <2> QED BY <1>4, <2>1 DEF FilterValues
  <1>8. ASSUME NEW g \in Provided
        PROVE  Names(Inside({d} \cup E, g)) = IF g \in {f} THEN Elements(g) ELSE {}
    <2>1. CASE g = f
      <3>1. Inside({d} \cup E, g) = E BY <1>4, <1>5, <2>1 DEF Inside
      <3> QED BY <1>1, <2>1, <3>1
    <2>2. CASE g # f
      <3>1. Inside({d} \cup E, g) = {} BY <1>4, <1>5, <2>2 DEF Inside
      <3>2. Names({}) = {} BY DEF Names
      <3> QED BY <2>2, <3>1, <3>2
    <2> QED BY <2>1, <2>2
  <1>9. AcceptingOf({d} \cup E) = A
    <2>1. AcceptingOf({d}) = {} BY <1>4 DEF AcceptingOf
    <2>2. AcceptingOf({d} \cup E) = AcceptingOf({d}) \cup AcceptingOf(E) BY ReadBoth
    <2> QED BY <1>1, <2>1, <2>2
  <1>10. Listed({d} \cup E, {f}, A) BY <1>6, <1>7, <1>8, <1>9 DEF Listed
  <1> QED BY <1>2, <1>10 DEF Lists

(* Two lists of different filters, one after the other. *)
LEMMA ListsBoth ==
    ASSUME NEW p, NEW q, NEW o, NEW G, NEW H, NEW A, NEW B, G \cap H = {},
           Lists(p, o, G, A), Lists(q, o, H, B)
    PROVE  Lists(p \o q, o, G \cup H, A \cup B)
  <1>1. PICK E : Does(p, o, E) /\ Listed(E, G, A) BY DEF Lists
  <1>2. PICK F : Does(q, o, F) /\ Listed(F, H, B) BY DEF Lists
  <1>3. Does(p \o q, o, E \cup F) BY <1>1, <1>2, DoesBoth
  <1>4. \A e \in E \cup F : e.kind \notin {"filters", "map_entry"}
    BY <1>1, <1>2 DEF Listed
  <1>5. FilterValues(E \cup F) = G \cup H
    <2>1. FilterValues(E \cup F) = FilterValues(E) \cup FilterValues(F) BY DEF FilterValues
    <2> QED BY <1>1, <1>2, <2>1 DEF Listed
  <1>6. ASSUME NEW f \in Provided
        PROVE  Names(Inside(E \cup F, f)) = IF f \in G \cup H THEN Elements(f) ELSE {}
    <2>1. Inside(E \cup F, f) = Inside(E, f) \cup Inside(F, f) BY DEF Inside
    <2>2. Names(Inside(E \cup F, f)) = Names(Inside(E, f)) \cup Names(Inside(F, f))
      BY <2>1, ReadBoth
    <2>3. Names(Inside(E, f)) = IF f \in G THEN Elements(f) ELSE {} BY <1>1 DEF Listed
    <2>4. Names(Inside(F, f)) = IF f \in H THEN Elements(f) ELSE {} BY <1>2 DEF Listed
    <2> QED BY <2>2, <2>3, <2>4
  <1>7. AcceptingOf(E \cup F) = A \cup B
    <2>1. AcceptingOf(E) = A /\ AcceptingOf(F) = B BY <1>1, <1>2 DEF Listed
    <2> QED BY <2>1, ReadBoth
  <1>8. Listed(E \cup F, G \cup H, A \cup B) BY <1>4, <1>5, <1>6, <1>7 DEF Listed
  <1> QED BY <1>3, <1>8 DEF Lists

(* The test of the mask in GetServiceFilterList: the filter is written when *)
(* it is asked for.                                                         *)
LEMMA ListsFilter ==
    ASSUME NEW f \in Provided, NEW mask, NEW body, NEW A, NEW o, Sequence(o),
           Above(o) = {}, \A i : Sequence(i) => Encodes(body, i, Elements(f), A)
    PROVE  Lists(FilterEntry(f, mask, body), o, {f} \cap mask, IF f \in mask THEN A ELSE {})
  <1>1. CASE f \in mask
    <2>1. Sequence(Append(o, <<"filter_entry", f>>)) BY SequenceAppend
    <2>2. Encodes(body, Append(o, <<"filter_entry", f>>), Elements(f), A) BY <2>1
    <2>3. Lists(Within("filter_entry", f, body), o, {f}, A) BY <2>2, ListsEntry
    <2>4. {f} \cap mask = {f} BY <1>1
    <2> QED BY <1>1, <2>3, <2>4 DEF FilterEntry
  <1>2. CASE f \notin mask
    <2>1. {f} \cap mask = {} BY <1>2
    <2> QED BY <1>2, <2>1, ListsNothing DEF FilterEntry
  <1> QED BY <1>1, <1>2

(* What a message says of AcceptingRequests when mask is asked for. *)
FlagIn(mask, accepting) ==
    IF "STATE" \in mask THEN {IF accepting THEN 1 ELSE 0} ELSE {}

(* GetServiceFilterList writes the filters that are asked for and provided. *)
LEMMA ListsProvided ==
    ASSUME NEW mask, NEW accepting, NEW o, Sequence(o), Above(o) = {}
    PROVE  Lists(FilterEntry("INFO", mask, GetServiceInformation)
                   \o FilterEntry("STATE", mask, GetServiceState(accepting))
                   \o FilterEntry("LOAD", mask, GetServiceLoad),
                 o, mask \cap Provided, FlagIn(mask, accepting))
  <1> DEFINE p == FilterEntry("INFO", mask, GetServiceInformation)
             q == FilterEntry("STATE", mask, GetServiceState(accepting))
             r == FilterEntry("LOAD", mask, GetServiceLoad)
             A == {IF accepting THEN 1 ELSE 0}
  <1>1. "INFO" \in Provided /\ "STATE" \in Provided /\ "LOAD" \in Provided BY DEF Provided
  <1>2. Lists(p, o, {"INFO"} \cap mask, {})
    <2>1. Lists(p, o, {"INFO"} \cap mask, IF "INFO" \in mask THEN {} ELSE {})
      BY <1>1, EncodesInformation, ListsFilter
    <2> QED BY <2>1
  <1>3. Lists(q, o, {"STATE"} \cap mask, FlagIn(mask, accepting))
    <2> HIDE DEF A
    <2>1. \A i : Sequence(i) => Encodes(GetServiceState(accepting), i, Elements("STATE"), A)
      BY EncodesState DEF A
    <2>2. Lists(q, o, {"STATE"} \cap mask, IF "STATE" \in mask THEN A ELSE {})
      BY <1>1, <2>1, ListsFilter
    <2> QED BY <2>2 DEF FlagIn, A
  <1>4. Lists(r, o, {"LOAD"} \cap mask, {})
    <2>1. Lists(r, o, {"LOAD"} \cap mask, IF "LOAD" \in mask THEN {} ELSE {})
      BY <1>1, EncodesLoad, ListsFilter
    <2> QED BY <2>1
  <1> DEFINE N == FlagIn(mask, accepting)
             F == {"INFO"} \cap mask
             G == {"STATE"} \cap mask
             H == {"LOAD"} \cap mask
  <1>5. F \cap G = {} /\ (F \cup G) \cap H = {} OBVIOUS
  <1>6. (F \cup G) \cup H = mask \cap Provided BY DEF Provided
  <1> HIDE DEF p, q, r, N, F, G, H
  <1>7. Lists(p \o q, o, F \cup G, {} \cup N) BY <1>2, <1>3, <1>5, ListsBoth DEF F, G, N
  <1>8. Lists((p \o q) \o r, o, (F \cup G) \cup H, ({} \cup N) \cup {})
    BY <1>4, <1>5, <1>7, ListsBoth DEF H
  <1>9. ({} \cup N) \cup {} = N OBVIOUS
  <1> QED BY <1>6, <1>8, <1>9 DEF p, q, r, N

-----------------------------------------------------------------------------
(* What a message that is given to RSSL has to hold, and what SentWhole and     *)
(* ViewCurrent read of it: the one service, the filters G and their count, each *)
(* filter's elements, and the flag.                                             *)
MapEntryValues(E) == {e.value : e \in {e \in E : e.kind = "map_entry"}}

Whole(E, G, action, A) ==
    /\ MapEntryValues(E) = {<<ServiceId, action>>}
    /\ FilterValues(E) = G
    /\ \A e \in E : e.kind = "filters" => e.value = Cardinality(G)
    /\ \A f \in G : Names(Inside(E, f)) = Elements(f)
    /\ AcceptingOf(E) = A

(* One entry of the buffer. *)
Entry(o, kind, value) == [path |-> o, kind |-> kind, value |-> value]

(* The four containers around a whole filter list make a whole message. *)
LEMMA WholeAround ==
    ASSUME NEW E, NEW G, NEW A, G \subseteq Provided, Listed(E, G, A),
           NEW action, NEW a, NEW b, NEW c, NEW d,
           Above(a) = {}, Above(b) = {}, Above(c) = {}, Above(d) = {}
    PROVE  Whole({Entry(a, "message", 0)} \cup ({Entry(b, "map", 0)}
                   \cup ({Entry(c, "map_entry", <<ServiceId, action>>)}
                   \cup ({Entry(d, "filters", Cardinality(G))} \cup E))),
                 G, action, A)
  <1> DEFINE v == <<ServiceId, action>>
             n == Cardinality(G)
             w == Entry(a, "message", 0)
             x == Entry(b, "map", 0)
             y == Entry(c, "map_entry", v)
             z == Entry(d, "filters", n)
             F == {w} \cup ({x} \cup ({y} \cup ({z} \cup E)))
  <1>1. /\ w.path = a /\ w.kind = "message"
        /\ x.path = b /\ x.kind = "map"
        /\ y.path = c /\ y.kind = "map_entry" /\ y.value = v
        /\ z.path = d /\ z.kind = "filters" /\ z.value = n
    BY DEF Entry
  <1>2. \A e \in E : e.kind \notin {"filters", "map_entry"} BY DEF Listed
  <1> HIDE DEF v, n, w, x, y, z
  <1>3. MapEntryValues(F) = {v}
    <2>1. {e \in F : e.kind = "map_entry"} = {y} BY <1>1, <1>2
    <2> HIDE DEF F
    <2> QED BY <1>1, <2>1 DEF MapEntryValues
  <1>4. FilterValues(F) = G
    <2>1. {e \in F : e.kind = "filter_entry"} = {e \in E : e.kind = "filter_entry"}
      BY <1>1
    <2>2. FilterValues(E) = G BY DEF Listed
    <2> HIDE DEF F
    <2> QED BY <2>1, <2>2 DEF FilterValues
  <1>5. \A e \in F : e.kind = "filters" => e.value = n BY <1>1, <1>2
  <1>6. ASSUME NEW f \in G PROVE Names(Inside(F, f)) = Elements(f)
    <2>1. Inside(F, f) = Inside(E, f) BY <1>1 DEF Inside
    <2>2. f \in Provided OBVIOUS
    <2>3. Names(Inside(E, f)) = Elements(f) BY <2>2 DEF Listed
    <2> QED BY <2>1, <2>3
  <1>7. AcceptingOf(F) = A
    <2>1. {e \in F : e.kind = "AcceptingRequests"} = {e \in E : e.kind = "AcceptingRequests"}
      BY <1>1
    <2>2. AcceptingOf(E) = A BY DEF Listed
    <2> HIDE DEF F
    <2> QED BY <2>1, <2>2 DEF AcceptingOf
  <1> HIDE DEF F
  <1>8. Whole(F, G, action, A) BY <1>3, <1>4, <1>5, <1>6, <1>7 DEF Whole, v, n
  <1> QED BY <1>8 DEF F, w, x, y, z, v, n

(* The program p, from an empty buffer, writes a whole message. *)
Sends(p, G, action, A) == \E E : Does(p, <<>>, E) /\ Whole(E, G, action, A)

(* Outside the filter list an entry lies in no filter. *)
LEMMA AboveOuter ==
    ASSUME NEW o, Sequence(o), Above(o) = {}, NEW kind, NEW value, kind # "filter_entry"
    PROVE  Sequence(Append(o, <<kind, value>>)) /\ Above(Append(o, <<kind, value>>)) = {}
  <1>1. Sequence(Append(o, <<kind, value>>)) BY SequenceAppend
  <1>2. Above(Append(o, <<kind, value>>)) = Above(o) \cup {} BY AboveAppend
  <1> QED BY <1>1, <1>2

(* The calls of SendDirectoryRefresh and SendDirectoryUpdate, when the service  *)
(* has an id and the name is its own, write a whole message: every Init has its *)
(* Complete, and no filter is left out or written in part.                      *)
LEMMA SendsMessage ==
    ASSUME NEW mask, NEW action, NEW accepting, ServiceId # 0
    PROVE  Sends(Message(GetDirectoryMap(TRUE, mask, action, accepting)),
                 mask \cap Provided, action, FlagIn(mask, accepting))
  <1> DEFINE G == mask \cap Provided
             A == FlagIn(mask, accepting)
             v == <<ServiceId, action>>
             a == <<>>
             b == Append(a, <<"message", 0>>)
             c == Append(b, <<"map", 0>>)
             d == Append(c, <<"map_entry", v>>)
             i == Append(d, <<"filters", Cardinality(G)>>)
             body == FilterEntry("INFO", mask, GetServiceInformation)
                       \o FilterEntry("STATE", mask, GetServiceState(accepting))
                       \o FilterEntry("LOAD", mask, GetServiceLoad)
             p == Within("filters", Cardinality(G), body)
             q == Within("map_entry", v, p)
             r == Within("map", 0, q)
             s == Within("message", 0, r)
             before == <<Call("rsslSetEncodeIteratorBuffer"),
                         Call("rsslSetEncodeIteratorRWFVersion")>>
             after == <<Call("rsslValidateMsg")>>
  <1>1. Message(GetDirectoryMap(TRUE, mask, action, accepting)) = (before \o s) \o after
    BY DEF Message, GetDirectoryMap, GetServiceDirectory, GetServiceFilterList
  <1>2. Sequence(a) /\ Above(a) = {}
    <2>1. <<>> \in Seq({}) /\ Len(<<>>) = 0 OBVIOUS
    <2>2. 1..0 = {} OBVIOUS
    <2> QED BY <2>1, <2>2 DEF Sequence, Above
  <1> HIDE DEF a, v, G
  <1>3. Sequence(b) /\ Above(b) = {} BY <1>2, AboveOuter
  <1> HIDE DEF b
  <1>4. Sequence(c) /\ Above(c) = {} BY <1>3, AboveOuter
  <1> HIDE DEF c
  <1>5. Sequence(d) /\ Above(d) = {} BY <1>4, AboveOuter
  <1> HIDE DEF d
  <1>6. Sequence(i) /\ Above(i) = {} BY <1>5, AboveOuter
  <1> HIDE DEF i
  <1>7. Lists(body, i, G, A) BY <1>6, ListsProvided DEF G
  <1> HIDE DEF body, A
  <1>8. PICK E : Does(body, i, E) /\ Listed(E, G, A) BY <1>7 DEF Lists
  <1> DEFINE P == {Entry(d, "filters", Cardinality(G))} \cup E
             Q == {Entry(c, "map_entry", v)} \cup P
             R == {Entry(b, "map", 0)} \cup Q
             S == {Entry(a, "message", 0)} \cup R
  <1>9. Does(p, d, P) BY <1>5, <1>8, DoesWithin DEF Entry, i
  <1>10. Whole(S, G, action, A)
    <2>1. G \subseteq Provided BY DEF G
    <2> QED BY <1>2, <1>3, <1>4, <1>5, <1>8, <2>1, WholeAround DEF v
  <1> HIDE DEF p, P
  <1>11. Does(q, c, Q) BY <1>4, <1>9, DoesWithin DEF Entry, d
  <1> HIDE DEF q, Q
  <1>12. Does(r, b, R) BY <1>3, <1>11, DoesWithin DEF Entry, c
  <1> HIDE DEF r, R
  <1>13. Does(s, a, S) BY <1>2, <1>12, DoesWithin DEF Entry, b
  <1>14. Does(before, a, {})
    <2> DEFINE x == <<Call("rsslSetEncodeIteratorBuffer")>>
               y == <<Call("rsslSetEncodeIteratorRWFVersion")>>
    <2>1. before = x \o y BY PairIsBoth
    <2>2. Does(x, a, {}) /\ Does(y, a, {}) BY DoesCall
    <2> HIDE DEF x, y
    <2>3. Does(x \o y, a, {} \cup {}) BY <2>2, DoesBoth
    <2> QED BY <2>1, <2>3
  <1>15. Does(after, a, {}) BY DoesCall
  <1> HIDE DEF s, S, before, after
  <1>16. Does(before \o s, a, {} \cup S) BY <1>13, <1>14, DoesBoth
  <1>17. Does((before \o s) \o after, a, ({} \cup S) \cup {}) BY <1>15, <1>16, DoesBoth
  <1>18. ({} \cup S) \cup {} = S OBVIOUS
  <1>19. Sends((before \o s) \o after, G, action, A) BY <1>10, <1>17, <1>18 DEF Sends, a
  <1> QED BY <1>1, <1>19 DEF G, A, before, s, after, r, q, p, body, v

-----------------------------------------------------------------------------
(* A program with a call that returns false. *)
Fails(p) == Sequence(p) /\ \E k \in 1..Len(p) : p[k].call = "false"

(* A program whose second part fails, fails. *)
LEMMA FailsAfter ==
    ASSUME NEW p, NEW q, Sequence(p), Fails(q)
    PROVE  Fails(p \o q)
  <1> DEFINE n == Len(p)
             m == Len(q)
  <1>1. Sequence(q) BY DEF Fails
  <1>2. /\ Sequence(p \o q) /\ n \in Nat /\ m \in Nat /\ Len(p \o q) = n + m
        /\ \A k \in 1..(n + m) : (p \o q)[k] = IF k <= n THEN p[k] ELSE q[k - n]
    BY <1>1, SequenceConcat
  <1>3. PICK k \in 1..m : q[k].call = "false" BY DEF Fails
  <1> HIDE DEF n, m
  <1>4. n + k \in 1..(n + m) /\ ~(n + k <= n) /\ (n + k) - n = k BY <1>2
  <1>5. (p \o q)[n + k] = q[k] BY <1>2, <1>4
  <1>6. (p \o q)[n + k].call = "false" BY <1>3, <1>5
  <1> QED BY <1>2, <1>4, <1>6 DEF Fails

(* A program whose first part fails, fails. *)
LEMMA FailsBefore ==
    ASSUME NEW p, NEW q, Fails(p), Sequence(q)
    PROVE  Fails(p \o q)
  <1> DEFINE n == Len(p)
             m == Len(q)
  <1>1. Sequence(p) BY DEF Fails
  <1>2. /\ Sequence(p \o q) /\ n \in Nat /\ m \in Nat /\ Len(p \o q) = n + m
        /\ \A k \in 1..(n + m) : (p \o q)[k] = IF k <= n THEN p[k] ELSE q[k - n]
    BY <1>1, SequenceConcat
  <1>3. PICK k \in 1..n : p[k].call = "false" BY DEF Fails
  <1> HIDE DEF n, m
  <1>4. k \in 1..(n + m) /\ k <= n BY <1>2
  <1>5. (p \o q)[k] = p[k] BY <1>2, <1>4
  <1>6. (p \o q)[k].call = "false" BY <1>3, <1>5
  <1> QED BY <1>2, <1>4, <1>6 DEF Fails

(* A container whose body fails, fails: no function overlooks the result of *)
(* one it calls.                                                            *)
LEMMA FailsWithin ==
    ASSUME NEW kind, NEW value, NEW body, Fails(body)
    PROVE  Fails(Within(kind, value, body))
  <1> DEFINE a == Open(kind, value)
             z == Close(kind)
  <1>1. Sequence(<<a>>) /\ Sequence(<<z>>) BY SequenceOne
  <1>2. Within(kind, value, body) = (<<a>> \o body) \o <<z>> BY DEF Within
  <1> HIDE DEF a, z
  <1>3. Fails(<<a>> \o body) BY <1>1, FailsAfter
  <1>4. Fails((<<a>> \o body) \o <<z>>) BY <1>1, <1>3, FailsBefore
  <1> QED BY <1>2, <1>4

(* A message whose map fails, fails. *)
LEMMA FailsMessage ==
    ASSUME NEW map, Fails(map)
    PROVE  Fails(Message(map))
  <1> DEFINE x == <<Call("rsslSetEncodeIteratorBuffer")>>
             y == <<Call("rsslSetEncodeIteratorRWFVersion")>>
             s == Within("message", 0, map)
             after == <<Call("rsslValidateMsg")>>
  <1>1. Message(map) = ((x \o y) \o s) \o after BY PairIsBoth DEF Message
  <1>2. Fails(s) BY FailsWithin
  <1>3. Sequence(x) /\ Sequence(y) /\ Sequence(after) BY SequenceOne
  <1> HIDE DEF x, y, s, after
  <1>4. Sequence(x \o y) BY <1>3, SequenceConcat
  <1>5. Fails((x \o y) \o s) BY <1>2, <1>4, FailsAfter
  <1>6. Fails(((x \o y) \o s) \o after) BY <1>3, <1>5, FailsBefore
  <1> QED BY <1>1, <1>6

(* Without an id, or with a name that is not the service's, no encoding comes *)
(* to its end.                                                                *)
LEMMA FailsMap ==
    ASSUME NEW matches, NEW mask, NEW action, NEW accepting,
           ServiceId = 0 \/ ~matches
    PROVE  Fails(Message(GetDirectoryMap(matches, mask, action, accepting)))
  <1> DEFINE f == <<ReturnFalse>>
  <1>1. Fails(f)
    <2> DEFINE c == ReturnFalse
    <2>1. c.call = "false" BY Zenon DEF ReturnFalse
    <2>2. Sequence(<<c>>) BY SequenceOne
    <2> HIDE DEF c
    <2>3. Len(<<c>>) = 1 /\ <<c>>[1] = c /\ 1 \in 1..1 OBVIOUS
    <2> QED BY <2>1, <2>2, <2>3 DEF Fails, c
  <1> HIDE DEF f
  <1>2. CASE ServiceId = 0
    <2>1. GetDirectoryMap(matches, mask, action, accepting) = Within("map", 0, f)
      BY <1>2 DEF GetDirectoryMap, f
    <2> QED BY <1>1, <2>1, FailsWithin, FailsMessage
  <1>3. CASE ServiceId # 0 /\ ~matches
    <2> DEFINE v == <<ServiceId, action>>
    <2>1. GetDirectoryMap(matches, mask, action, accepting)
             = Within("map", 0, Within("map_entry", v, f))
      BY <1>3 DEF GetDirectoryMap, GetServiceDirectory, f
    <2> HIDE DEF v
    <2>2. Fails(Within("map_entry", v, f)) BY <1>1, FailsWithin
    <2> QED BY <2>1, <2>2, FailsWithin, FailsMessage
  <1> QED BY <1>2, <1>3

(* A failure that lies ahead stays ahead: only the call that returns false can *)
(* be next to it.                                                              *)
LEMMA FailsNext ==
    ASSUME NEW p, Fails(p)
    PROVE  /\ p # <<>>
           /\ Head(p).call # "false" => Fails(Tail(p))
  <1>1. PICK T : p \in Seq(T) BY DEF Fails, Sequence
  <1> DEFINE n == Len(p)
  <1>2. PICK k \in 1..n : p[k].call = "false" BY DEF Fails
  <1>3. n \in Nat BY <1>1
  <1>4. p # <<>>
    <2>1. n # 0 BY <1>2, <1>3
    <2> QED BY <2>1
  <1>5. /\ Head(p) = p[1] /\ Tail(p) \in Seq(T) /\ Len(Tail(p)) = n - 1
        /\ \A j \in 1..(n - 1) : Tail(p)[j] = p[j + 1]
    BY <1>1, <1>4
  <1>6. ASSUME Head(p).call # "false" PROVE Fails(Tail(p))
    <2> HIDE DEF n
    <2>1. k # 1 BY <1>2, <1>5, <1>6
    <2>2. k - 1 \in 1..(n - 1) /\ (k - 1) + 1 = k BY <1>3, <2>1
    <2>3. Tail(p)[k - 1] = p[k] BY <1>5, <2>2
    <2>4. Sequence(Tail(p)) BY <1>5 DEF Sequence
    <2>5. Tail(p)[k - 1].call = "false" BY <1>2, <2>3
    <2> QED BY <1>5, <2>2, <2>4, <2>5 DEF Fails
  <1> QED BY <1>4, <1>6

-----------------------------------------------------------------------------
(* The calls p that are left, made from the encoder state s, end in a whole *)
(* message with every container complete.                                   *)
Ends(p, s, G, action, A) == \E E : Runs(p, s, At(<<>>, E)) /\ Whole(E, G, action, A)

(* Every encoding starts with one of two fates: it writes a whole message, or *)
(* it cannot be finished.                                                     *)
LEMMA StartsWell ==
    ASSUME NEW mask, NEW action, NEW accepting, NEW matches \in BOOLEAN,
           NEW p, p = Message(GetDirectoryMap(matches, mask, action, accepting))
    PROVE  /\ Sequence(p)
           /\ \/ Fails(p)
              \/ Ends(p, At(<<>>, {}), mask \cap Provided, action, FlagIn(mask, accepting))
  <1>1. CASE ServiceId = 0 \/ ~matches
    <2>1. Fails(p) BY <1>1, FailsMap
    <2> QED BY <2>1 DEF Fails
  <1>2. CASE ServiceId # 0 /\ matches
    <2> DEFINE G == mask \cap Provided
               A == FlagIn(mask, accepting)
    <2>1. Sends(p, G, action, A)
      <3>1. matches = TRUE BY <1>2
      <3> QED BY <1>2, <3>1, SendsMessage
    <2> HIDE DEF G, A
    <2>2. PICK E : Does(p, <<>>, E) /\ Whole(E, G, action, A) BY <2>1 DEF Sends
    <2>3. Sequence(p) /\ Runs(p, At(<<>>, {}), At(<<>>, {} \cup E)) BY <2>2 DEF Does
    <2>4. {} \cup E = E OBVIOUS
    <2>5. Ends(p, At(<<>>, {}), G, action, A) BY <2>2, <2>3, <2>4 DEF Ends
    <2> QED BY <2>3, <2>5 DEF G, A
  <1> QED BY <1>1, <1>2

(* A consumer that reads a whole message finds all SentWhole asks for. *)
LEMMA ReadsWhole ==
    ASSUME NEW m, NEW G, NEW action, NEW A, G \subseteq Provided,
           Whole(Entries(m), G, action, A)
    PROVE  /\ {e.value[1] : e \in {e \in Entries(m) : e.kind = "map_entry"}} = {ServiceId}
           /\ Actions(m) = {action}
           /\ FiltersIn(m) = G
           /\ \A e \in Entries(m) : e.kind = "filters" => e.value = Cardinality(G)
           /\ \A f \in G : ElementsOf(m, f) = Elements(f)
           /\ AcceptingIn(m) = A
  <1> DEFINE E == Entries(m)
             D == {e \in E : e.kind = "map_entry"}
             v == <<ServiceId, action>>
  <1>1. {e.value : e \in D} = {v} BY DEF Whole, MapEntryValues
  <1>2. v[1] = ServiceId /\ v[2] = action OBVIOUS
  <1>3. Actions(m) = {e.value[2] : e \in D} BY DEF Actions
  <1>4. FiltersIn(m) = G BY DEF FiltersIn, FilterValues, Whole
  <1>5. AcceptingIn(m) = A BY DEF AcceptingIn, AcceptingOf, Whole
  <1>6. \A e \in E : e.kind = "filters" => e.value = Cardinality(G) BY DEF Whole
  <1>7. ASSUME NEW f \in G PROVE ElementsOf(m, f) = Elements(f)
    <2>1. \A e \in E : AtFilter(e, f) <=> f \in Above(e.path) BY DEF AtFilter, Above
    <2>2. {e \in E : AtFilter(e, f)} = Inside(E, f) BY <2>1 DEF Inside
    <2> HIDE DEF E
    <2>3. ElementsOf(m, f) = Names(Inside(E, f)) BY <2>2 DEF ElementsOf, Names, NameOf, E
    <2>4. Names(Inside(E, f)) = Elements(f) BY DEF Whole, E
    <2> QED BY <2>3, <2>4
  <1> HIDE DEF v, D
  <1>8. {e.value[1] : e \in D} = {v[1]} BY <1>1
  <1>9. {e.value[2] : e \in D} = {v[2]} BY <1>1
  <1> QED BY <1>2, <1>3, <1>4, <1>5, <1>6, <1>7, <1>8, <1>9 DEF D

-----------------------------------------------------------------------------
(* Inside SendDirectoryRefresh or SendDirectoryUpdate. *)
Busy == phase \in {"refresh", "update"}
(* The entries of the buffer. *)
Held == {written[i] : i \in 1..Len(written)}
(* The action of the map entry of a refresh and of an update. *)
Action == IF phase = "refresh" THEN "ADD" ELSE "UPDATE"

(* While a message is encoded, what the buffer holds is what is needed: the      *)
(* calls left either complete it to a whole message, with the flag as it is now, *)
(* or cannot all succeed.  SentWhole says this of the end only, which is why it  *)
(* is not inductive.                                                             *)
Encoding ==
    Busy => /\ header = asked \cap Provided
            /\ Sequence(todo) /\ Sequence(written)
            /\ \/ Fails(todo)
               \/ Ends(todo, At(open, Held), header, Action,
                       FlagIn(asked, is_accepting_requests_))

(* An update is sent for the state filter, after the flag was cleared. *)
Updating == phase = "update" => asked = {"STATE"} /\ ~is_accepting_requests_

(* The consumer's view is empty or an image with its flag. *)
Pictured(v) == v.class = "image" /\ {"class", "accepting"} \subseteq DOMAIN v
Viewed == view = None \/ Pictured(view)

(* The inductive invariant. *)
IInv == Encoding /\ Updating /\ Viewed /\ SentWhole /\ ViewCurrent

(* The invariant holds before the first request. *)
LEMMA InvInit == Init => IInv
  <1> SUFFICES ASSUME Init PROVE IInv OBVIOUS
  <1>1. ~Busy /\ phase # "update" BY DEF Init, Busy
  <1>2. sent.class = "none" /\ view = None BY DEF Init, None
  <1> QED BY <1>1, <1>2 DEF IInv, Encoding, Updating, Viewed, SentWhole, ViewCurrent

(* What was sent and read is disturbed by Submit only. *)
LEMMA ViewStays ==
    ASSUME Viewed, SentWhole, ViewCurrent, UNCHANGED <<view, sent>>
    PROVE  Viewed' /\ SentWhole' /\ ViewCurrent'
  <1>1. view' = view /\ sent' = sent OBVIOUS
  <1>2. Viewed' BY <1>1 DEF Viewed
  <1>3. SentWhole' BY <1>1 DEF SentWhole
  <1>4. ViewCurrent' BY <1>1 DEF ViewCurrent
  <1> QED BY <1>2, <1>3, <1>4

(* Taking a buffer starts an encoding well; without one nothing is encoded. *)
LEMMA BeginEncodes ==
    ASSUME NEW kind \in {"refresh", "update"}, NEW mask, NEW matches \in BOOLEAN,
           NEW action, action = IF kind = "refresh" THEN "ADD" ELSE "UPDATE",
           Begin(kind, mask, mask \cap Provided,
                 Message(GetDirectoryMap(matches, mask, action, is_accepting_requests_'))),
           kind = "update" => mask = {"STATE"} /\ ~is_accepting_requests_'
    PROVE  Encoding' /\ Updating'
  <1> DEFINE p == Message(GetDirectoryMap(matches, mask, action, is_accepting_requests_'))
  <1>1. asked' = mask /\ header' = mask \cap Provided /\ open' = <<>> /\ written' = <<>>
    BY DEF Begin
  <1>2. CASE phase' = kind /\ todo' = p
    <2>1. /\ Sequence(p)
          /\ \/ Fails(p)
             \/ Ends(p, At(<<>>, {}), mask \cap Provided, action,
                     FlagIn(mask, is_accepting_requests_'))
      BY StartsWell
    <2> HIDE DEF p
    <2>2. Held' = {}
      <3>1. Len(<<>>) = 0 /\ 1..0 = {} OBVIOUS
      <3> QED BY <1>1, <3>1 DEF Held
    <2>3. Action' = action BY <1>2 DEF Action
    <2>4. Sequence(<<>>)
      <3>1. <<>> \in Seq({}) OBVIOUS
      <3> QED BY <3>1 DEF Sequence
    <2>5. Encoding' BY <1>1, <1>2, <2>1, <2>2, <2>3, <2>4 DEF Encoding
    <2>6. Updating' BY <1>1, <1>2 DEF Updating
    <2> QED BY <2>5, <2>6
  <1>3. CASE phase' \in {"gone", "idle"}
    BY <1>3 DEF Encoding, Busy, Updating
  <1> QED BY <1>2, <1>3 DEF Begin

(* A request is answered with the mask the consumer asked for. *)
LEMMA InvRequest ==
    ASSUME IInv, Request PROVE IInv'
  <1>1. PICK named \in BOOLEAN, mask \in SUBSET Filters : OnDirectoryRequest(named, mask)
    BY DEF Request
  <1>2. PICK matches \in BOOLEAN : SendDirectoryRefresh(matches, mask)
    BY <1>1 DEF OnDirectoryRequest
  <1>3. is_accepting_requests_' = is_accepting_requests_ /\ UNCHANGED <<view, sent>>
    BY <1>1 DEF OnDirectoryRequest
  <1>4. Begin("refresh", mask, mask \cap Provided,
              Message(GetDirectoryMap(matches, mask, "ADD", is_accepting_requests_')))
    BY <1>2, <1>3 DEF SendDirectoryRefresh
  <1>5. Encoding' /\ Updating' BY <1>4, BeginEncodes
  <1> QED BY <1>3, <1>5, ViewStays DEF IInv

(* provider_t::Close clears the flag before it encodes the update. *)
LEMMA InvUpdate ==
    ASSUME IInv, OnSourceDirectoryUpdate PROVE IInv'
  <1>1. /\ ~is_accepting_requests_' /\ UNCHANGED <<view, sent>>
        /\ SendDirectoryUpdate(is_accepting_requests_')
    BY DEF OnSourceDirectoryUpdate
  <1> DEFINE mask == {"STATE"}
  <1>2. mask \cap Provided = mask BY DEF Provided
  <1>3. Begin("update", mask, mask,
              Message(GetDirectoryMap(TRUE, mask, "UPDATE", is_accepting_requests_')))
    BY <1>1 DEF SendDirectoryUpdate
  <1>4. mask = {"STATE"} OBVIOUS
  <1> HIDE DEF mask
  <1>5. Begin("update", mask, mask \cap Provided,
              Message(GetDirectoryMap(TRUE, mask, "UPDATE", is_accepting_requests_')))
    BY <1>2, <1>3
  <1>6. Encoding' /\ Updating' BY <1>1, <1>4, <1>5, BeginEncodes
  <1> QED BY <1>1, <1>6, ViewStays DEF IInv

(* One more call of the encoder. *)
LEMMA InvEncode ==
    ASSUME IInv, Encode PROVE IInv'
  <1> DEFINE c == Head(todo)
             e == [path |-> open, kind |-> c.kind, value |-> c.value]
  <1>1. /\ Busy /\ todo # <<>> /\ Accepts(c) /\ todo' = Tail(todo)
        /\ UNCHANGED <<is_accepting_requests_, phase, asked, header, view, sent>>
    BY DEF Encode, Busy
  <1>2. /\ open' = CASE c.call = "open" -> Append(open, <<c.kind, c.value>>)
                     [] c.call = "close" -> SubSeq(open, 1, Len(open) - 1)
                     [] OTHER -> open
        /\ written' = IF c.call \in {"open", "put"} THEN Append(written, e) ELSE written
    BY DEF Encode
  <1> DEFINE A == FlagIn(asked, is_accepting_requests_)
  <1>3. /\ header = asked \cap Provided /\ Sequence(todo) /\ Sequence(written)
        /\ Fails(todo) \/ Ends(todo, At(open, Held), header, Action, A)
    BY <1>1 DEF IInv, Encoding
  <1>4. Sequence(todo') BY <1>1, <1>3 DEF Sequence
  <1>5. Sequence(written') /\ At(open', Held') = Step(At(open, Held), c)
    <2>1. Held' = IF c.call \in {"open", "put"} THEN Held \cup {e} ELSE Held
      <3> HIDE DEF c, e
      <3>1. CASE c.call \in {"open", "put"}
        <4> DEFINE n == Len(written)
                   w == Append(written, e)
        <4>1. /\ n \in Nat /\ Len(w) = n + 1
              /\ \A k \in 1..(n + 1) : w[k] = IF k <= n THEN written[k] ELSE e
          BY <1>3, SequenceAppend
        <4>2. written' = w BY <1>2, <3>1
        <4> HIDE DEF n, w
        <4>3. {w[k] : k \in 1..(n + 1)} = {written[k] : k \in 1..n} \cup {e}
          <5>1. n + 1 \in 1..(n + 1) /\ w[n + 1] = e BY <4>1
          <5>2. \A k \in 1..n : k \in 1..(n + 1) /\ w[k] = written[k] BY <4>1
          <5>3. \A k \in 1..(n + 1) : k \in 1..n \/ k = n + 1 BY <4>1
          <5> QED BY <5>1, <5>2, <5>3
        <4> QED BY <3>1, <4>1, <4>2, <4>3 DEF Held, n
      <3>2. CASE c.call \notin {"open", "put"}
        <4>1. written' = written BY <1>2, <3>2
        <4> QED BY <3>2, <4>1 DEF Held
      <3> QED BY <3>1, <3>2
    <2>2. Sequence(written')
      <3> HIDE DEF c, e
      <3> QED BY <1>2, <1>3, SequenceAppend
    <2>3. At(open', Held') = Step(At(open, Held), c)
      <3> HIDE DEF c
      <3> QED BY <1>2, <2>1 DEF At, Step
    <2> QED BY <2>2, <2>3
  <1>6. c.call # "false" BY <1>1 DEF Accepts
  <1> HIDE DEF A, c, e
  <1>7. Fails(todo') \/ Ends(todo', At(open', Held'), header, Action, A)
    <2>1. CASE Fails(todo) BY <1>1, <1>6, <2>1, FailsNext DEF c
    <2>2. CASE Ends(todo, At(open, Held), header, Action, A)
      <3>1. PICK E : Runs(todo, At(open, Held), At(<<>>, E)) /\ Whole(E, header, Action, A)
        BY <2>2 DEF Ends
      <3>2. Runs(Tail(todo), Step(At(open, Held), c), At(<<>>, E))
        BY <1>1, <1>3, <3>1, RunsNext DEF c
      <3> QED BY <1>1, <1>5, <3>1, <3>2 DEF Ends
    <2> QED BY <1>3, <2>1, <2>2
  <1>8. Encoding'
    <2>1. Action' = Action BY <1>1 DEF Action
    <2>2. A = FlagIn(asked', is_accepting_requests_') BY <1>1 DEF A
    <2> QED BY <1>1, <1>3, <1>4, <1>5, <1>7, <2>1, <2>2 DEF Encoding
  <1>9. Updating' BY <1>1 DEF IInv, Updating
  <1> QED BY <1>1, <1>8, <1>9, ViewStays DEF IInv

(* Outside the two functions there is nothing to keep of the encoding. *)
LEMMA IdleEncodes ==
    ASSUME phase' \in {"idle", "gone"}
    PROVE  Encoding' /\ Updating'
  BY DEF Encoding, Busy, Updating

(* The cleanup path leaves the function. *)
LEMMA CleanupIdle ==
    ASSUME Cleanup
    PROVE  phase' \in {"idle", "gone"}
  BY DEF Cleanup, Returned

(* A call that fails leaves no trace in what is sent. *)
LEMMA InvFails ==
    ASSUME IInv, EncodeFails PROVE IInv'
  <1>1. Cleanup /\ UNCHANGED <<view, sent>> BY DEF EncodeFails
  <1>2. Encoding' /\ Updating' BY <1>1, CleanupIdle, IdleEncodes
  <1> QED BY <1>1, <1>2, ViewStays DEF IInv

(* A message is given to RSSL with no call left, so it is a whole one; the *)
(* consumer that reads it holds the flag it was encoded with.              *)
LEMMA InvSent ==
    ASSUME IInv, Submit("sent") PROVE IInv'
  <1> DEFINE m == [class |-> phase, open |-> open, written |-> written,
                   asked |-> asked, filter |-> header,
                   accepting |-> is_accepting_requests_]
             A == FlagIn(asked, is_accepting_requests_)
             G == asked \cap Provided
  <1>1. Busy /\ todo = <<>> BY DEF Submit, Busy
  <1>2. sent' = m /\ view' = Read(sent') /\ phase' = Returned(TRUE) BY DEF Submit
  <1>3. /\ m.class = phase /\ m.open = open /\ m.written = written /\ m.asked = asked
        /\ m.filter = header /\ m.accepting = is_accepting_requests_
    OBVIOUS
  <1> HIDE DEF m, A
  <1>4. header = G /\ (Fails(todo) \/ Ends(todo, At(open, Held), header, Action, A))
    BY <1>1 DEF IInv, Encoding, A
  <1>5. PICK E : Runs(<<>>, At(open, Held), At(<<>>, E)) /\ Whole(E, G, Action, A)
    <2>1. ~Fails(todo) BY <1>1, FailsNext
    <2> QED BY <1>1, <1>4, <2>1 DEF Ends
  <1>6. open = <<>> /\ Held = E
    <2>1. At(open, Held) = At(<<>>, E) BY <1>5, RunsEnd
    <2> QED BY <2>1 DEF At
  <1>7. Entries(m) = E BY <1>3, <1>6 DEF Entries, Held
  <1>8. Whole(Entries(m), G, Action, A) BY <1>5, <1>7
  <1>9. /\ {e.value[1] : e \in {e \in Entries(m) : e.kind = "map_entry"}} = {ServiceId}
        /\ Actions(m) = {Action}
        /\ FiltersIn(m) = G
        /\ \A e \in Entries(m) : e.kind = "filters" => e.value = Cardinality(G)
        /\ \A f \in G : ElementsOf(m, f) = Elements(f)
        /\ AcceptingIn(m) = A
    <2>1. G \subseteq Provided OBVIOUS
    <2> HIDE DEF G
    <2> QED BY <1>8, <2>1, ReadsWhole
  <1>10. SentWhole' BY <1>2, <1>3, <1>4, <1>6, <1>9 DEF SentWhole
  <1>11. \/ Pictured(view') /\ view'.accepting = A
         \/ view' = view /\ view.class = "none"
    <2> DEFINE F == FiltersIn(m)
    <2>1. CASE phase = "refresh"
      <3>1. Actions(m) = {"ADD"} BY <1>9, <2>1 DEF Action
      <3>2. view' = [class |-> "image", has |-> F, accepting |-> A]
        BY <1>2, <1>9, <3>1 DEF Read
      <3> HIDE DEF F
      <3> QED BY <3>2 DEF Pictured
    <2>2. CASE phase = "update"
      <3>1. Actions(m) = {"UPDATE"} BY <1>9, <2>2 DEF Action
      <3>2. CASE view.class = "none"
        <4>1. view' = view BY <1>2, <3>1, <3>2 DEF Read
        <4> QED BY <3>2, <4>1
      <3>3. CASE view.class # "none"
        <4>1. Pictured(view)
          <5>1. view # None BY <3>3 DEF None
          <5> QED BY <5>1 DEF IInv, Viewed
        <4>2. view' = [view EXCEPT !.has = @ \cup F, !.accepting = A]
          BY <1>2, <1>9, <3>1, <3>3 DEF Read
        <4> HIDE DEF F
        <4> QED BY <4>1, <4>2 DEF Pictured
      <3> QED BY <3>2, <3>3
    <2> QED BY <1>1, <2>1, <2>2 DEF Busy
  <1>12. ViewCurrent'
    <2>1. ASSUME view'.class = "image", "STATE" \in FiltersIn(m)
          PROVE  view'.accepting = {IF m.accepting THEN 1 ELSE 0}
      <3>1. "STATE" \in asked BY <1>9, <2>1
      <3>2. A = {IF is_accepting_requests_ THEN 1 ELSE 0} BY <3>1 DEF A, FlagIn
      <3>3. view'.accepting = A
        <4>1. ~(view' = view /\ view.class = "none") BY <2>1
        <4> QED BY <1>11, <4>1
      <3> QED BY <1>3, <3>2, <3>3
    <2>2. m.class = "update" => ~m.accepting BY <1>3 DEF IInv, Updating
    <2> QED BY <1>2, <2>1, <2>2 DEF ViewCurrent
  <1>13. Viewed' BY <1>11 DEF IInv, Viewed
  <1>14. Encoding' /\ Updating'
    <2>1. phase' \in {"idle", "gone"} BY <1>2 DEF Returned
    <2> QED BY <2>1, IdleEncodes
  <1> QED BY <1>10, <1>12, <1>13, <1>14 DEF IInv

(* Submit, whatever it answers. *)
LEMMA InvSubmit ==
    ASSUME IInv, NEW rc \in SubmitResults, Submit(rc) PROVE IInv'
  <1>1. CASE rc = "sent" BY <1>1, InvSent
  <1>2. CASE rc # "sent"
    <2>1. UNCHANGED <<view, sent>> BY <1>2 DEF Submit
    <2>2. phase' \in {"idle", "gone"} BY <1>2, CleanupIdle DEF Submit, Returned
    <2>3. Encoding' /\ Updating' BY <2>2, IdleEncodes
    <2> QED BY <2>1, <2>3, ViewStays DEF IInv
  <1> QED BY <1>1, <1>2

(* A stuttering step. *)
LEMMA InvStutter ==
    ASSUME IInv, UNCHANGED vars PROVE IInv'
  <1>1. UNCHANGED <<is_accepting_requests_, phase, todo, open, written, asked, header,
                    view, sent>>
    BY DEF vars, encoder
  <1>2. Held' = Held BY <1>1 DEF Held
  <1>3. Action' = Action BY <1>1 DEF Action
  <1>4. Encoding' BY <1>1, <1>2, <1>3 DEF IInv, Encoding, Busy
  <1>5. Updating' BY <1>1 DEF IInv, Updating
  <1> QED BY <1>1, <1>4, <1>5, ViewStays DEF IInv

(* The inductive invariant holds in every reachable state, for every service *)
(* id and number of requests (SendDirectoryRefresh, SendDirectoryUpdate,     *)
(* GetDirectoryMap and below).                                               *)
THEOREM DirectoryInvariant == Spec => []IInv
  <1>1. ASSUME IInv, [Next]_vars PROVE IInv'
    <2>1. CASE Request BY <1>1, <2>1, InvRequest
    <2>2. CASE OnSourceDirectoryUpdate BY <1>1, <2>2, InvUpdate
    <2>3. CASE Encode BY <1>1, <2>3, InvEncode
    <2>4. CASE EncodeFails BY <1>1, <2>4, InvFails
    <2>5. CASE \E rc \in SubmitResults : Submit(rc) BY <1>1, <2>5, InvSubmit
    <2>6. CASE UNCHANGED vars BY <1>1, <2>6, InvStutter
    <2> QED BY <1>1, <2>1, <2>2, <2>3, <2>4, <2>5, <2>6 DEF Next
  <1> QED BY InvInit, <1>1, PTL DEF Spec

(* No message given to RSSL is partial: every container complete, the one        *)
(* service, the filters asked for and provided with all their elements, a header *)
(* and a count that say so, whichever calls of whichever encodings failed        *)
(* (SendDirectoryRefresh, SendDirectoryUpdate, GetDirectoryMap and below).       *)
THEOREM MessagesAreWhole == Spec => []SentWhole
  <1>1. IInv => SentWhole BY DEF IInv
  <1> QED BY DirectoryInvariant, <1>1, PTL

(* What a consumer holds of AcceptingRequests is the flag as it was when the *)
(* last message was sent, and 0 in an update (SendDirectoryUpdate and        *)
(* provider_t::Close).                                                       *)
THEOREM ViewIsCurrent == Spec => []ViewCurrent
  <1>1. IInv => ViewCurrent BY DEF IInv
  <1> QED BY DirectoryInvariant, <1>1, PTL

(* The buffers: a count that is inductive once the two numbers are naturals. *)
Pool == out \in Nat /\ lost \in Nat /\ BufferEndsOnce

(* rsslGetBuffer takes one buffer or none. *)
LEMMA PoolBegin ==
    ASSUME Pool, phase = "idle", NEW kind \in {"refresh", "update"}, NEW mask, NEW filter,
           NEW program, Begin(kind, mask, filter, program), lost' = lost
    PROVE  Pool'
  BY DEF Pool, BufferEndsOnce, Begin

(* The cleanup path releases the buffer it has. *)
LEMMA PoolCleanup ==
    ASSUME Pool, Busy, Cleanup, lost' = lost
    PROVE  Pool'
  <1>1. phase' \notin {"refresh", "update"} BY CleanupIdle
  <1> QED BY <1>1 DEF Pool, BufferEndsOnce, Busy, Cleanup

(* Every buffer taken from the pool is submitted or released, once, but for *)
(* those a write with an empty pool drops (SendDirectoryRefresh,            *)
(* SendDirectoryUpdate, provider_t::Submit).                                *)
THEOREM BuffersEnd == Spec => []BufferEndsOnce
  <1>1. Init => Pool BY DEF Init, Pool, BufferEndsOnce
  <1>2. ASSUME Pool, [Next]_vars PROVE Pool'
    <2>1. CASE Request
      <3>1. PICK named \in BOOLEAN, mask \in SUBSET Filters : OnDirectoryRequest(named, mask)
        BY <2>1 DEF Request
      <3>2. phase = "idle" /\ lost' = lost BY <3>1 DEF OnDirectoryRequest
      <3>3. PICK matches \in BOOLEAN : SendDirectoryRefresh(matches, mask)
        BY <3>1 DEF OnDirectoryRequest
      <3> QED BY <1>2, <3>2, <3>3, PoolBegin DEF SendDirectoryRefresh
    <2>2. CASE OnSourceDirectoryUpdate
      <3>1. /\ phase = "idle" /\ lost' = lost
            /\ SendDirectoryUpdate(is_accepting_requests_')
        BY <2>2 DEF OnSourceDirectoryUpdate
      <3> QED BY <1>2, <3>1, PoolBegin DEF SendDirectoryUpdate
    <2>3. CASE Encode
      <3>1. UNCHANGED <<phase, out, lost>> BY <2>3 DEF Encode, buffers
      <3> QED BY <1>2, <3>1 DEF Pool, BufferEndsOnce
    <2>4. CASE EncodeFails
      <3>1. Busy /\ Cleanup /\ lost' = lost BY <2>4 DEF EncodeFails, Busy
      <3> QED BY <1>2, <3>1, PoolCleanup
    <2>5. CASE \E rc \in SubmitResults : Submit(rc)
      <3>1. PICK rc \in SubmitResults : Submit(rc) BY <2>5
      <3>2. Busy BY <3>1 DEF Submit, Busy
      <3>3. CASE rc = "sent"
        <4>1. phase' = "idle" /\ out' = out - 1 /\ lost' = lost
          BY <3>1, <3>3 DEF Submit, Returned
        <4> QED BY <1>2, <3>2, <4>1 DEF Pool, BufferEndsOnce, Busy
      <3>4. CASE rc = "no_buffers"
        <4>1. phase' = "idle" /\ out' = out /\ lost' = lost + 1
          BY <3>1, <3>4 DEF Submit, Returned
        <4> QED BY <1>2, <3>2, <4>1 DEF Pool, BufferEndsOnce, Busy
      <3>5. CASE rc = "failed"
        <4>1. Cleanup /\ lost' = lost BY <3>1, <3>5 DEF Submit
        <4> QED BY <1>2, <3>2, <4>1, PoolCleanup
      <3> QED BY <3>3, <3>4, <3>5 DEF SubmitResults
    <2>6. CASE UNCHANGED vars
      <3>1. UNCHANGED <<phase, out, lost>> BY <2>6 DEF vars, buffers
      <3> QED BY <1>2, <3>1 DEF Pool, BufferEndsOnce
    <2> QED BY <1>2, <2>1, <2>2, <2>3, <2>4, <2>5, <2>6 DEF Next
  <1>3. Pool => BufferEndsOnce BY DEF Pool
  <1> QED BY <1>1, <1>2, <1>3, PTL DEF Spec
=============================================================================
