------------------------------ MODULE Format -------------------------------
(***************************************************************************)
(* The shape of an LXMF message (rns/LxmfFormat.h): walking msgpack by      *)
(* length, finding a field and the commands in it, cutting text on a        *)
(* character's boundary, and the bytes a sender signs.                      *)
(*                                                                         *)
(* A buffer is a sequence of symbols, one per byte that decides something.  *)
(* Each state is one buffer, read to the end; what was read is compared     *)
(* with a definition by the language of values, not by a walk.              *)
(***************************************************************************)
EXTENDS Integers, Sequences, SequencesExt

CONSTANTS
  Bytes,                 \* symbols of a fields buffer
  TextBytes,             \* symbols of a text buffer
  MaxLen,                \* bound: longest buffer
  Depth                  \* containers within containers; msgpackNext's depth
VARIABLES kind, buf, read
vars == <<kind, buf, read>>

Count(b) == CASE b \in {"map1", "arr1"} -> 1 [] b \in {"map2", "arr2"} -> 2
              [] b = "arr3" -> 3 [] b = "arr4" -> 4 [] b = "arr5" -> 5 [] OTHER -> 0
Maps == {"map0", "map1", "map2"}
Arrays == {"arr1", "arr2", "arr3", "arr4", "arr5"}
Ints == {"k2", "k9"}

-----------------------------------------------------------------------------
\* msgpackContainerHeader and msgpackNext: where m values that begin at i end,
\* 0 when they do not.
Ends(p) ==
  LET n == Len(p)
      After[i \in 0..(n + 2), d \in 0..Depth, m \in 0..5] ==
        IF m = 0 THEN i
        ELSE IF i = 0 \/ i > n THEN 0
        ELSE LET members == Count(p[i]) * (IF p[i] \in Maps THEN 2 ELSE 1)
                 one == CASE p[i] = "str1" -> IF i + 1 <= n THEN i + 2 ELSE 0
                          [] p[i] = "bad" -> 0
                          [] p[i] \in Maps \cup Arrays ->
                               IF members > n \/ (members > 0 /\ d = 0) THEN 0
                               ELSE After[i + 1, IF d = 0 THEN 0 ELSE d - 1, members]
                          [] OTHER -> i + 1
             IN  IF one = 0 THEN 0 ELSE After[one, d, m - 1]
  IN  After
msgpackNext(p, i) == Ends(p)[i, Depth, 1]

\* lxmfField: the value of the first key that is this number; other keys may be
\* of any type and are stepped over.
lxmfField(p, id) ==
  LET At[i \in 0..(Len(p) + 2), k \in 0..2] ==
        IF k = 0 \/ i = 0 THEN << >>
        ELSE LET value == msgpackNext(p, i)
                 end == IF value = 0 THEN 0 ELSE msgpackNext(p, value)
             IN  IF end = 0 THEN << >>
                 ELSE IF p[i] = id THEN SubSeq(p, value, end - 1) ELSE At[end, k - 1]
  IN  IF p = << >> \/ p[1] \notin Maps THEN << >> ELSE At[2, Count(p[1])]

\* Mutant: an element that is no command ends the list.
CommandsUntilOdd(p) ==
  LET IsCommand(i) == i < Len(p) /\ p[i] \in {"map1", "map2"} /\ p[i + 1] \in Ints /\ msgpackNext(p, i + 2) # 0
      From[i \in 0..(Len(p) + 2), k \in 0..2] ==
        IF k = 0 \/ i = 0 \/ i > Len(p) \/ ~IsCommand(i) THEN << >>
        ELSE <<p[i + 1]>> \o From[msgpackNext(p, i), k - 1]
  IN  IF p = << >> \/ p[1] \notin Arrays THEN << >> ELSE From[2, Count(p[1])]

\* lxmfCommands: of each element that is a map and begins with a number, that
\* number; any other is stepped over.
lxmfCommands(p) ==
  LET IsCommand(i) == i < Len(p) /\ p[i] \in {"map1", "map2"} /\ p[i + 1] \in Ints /\ msgpackNext(p, i + 2) # 0
      End(i) == IF IsCommand(i) /\ p[i] = "map1" THEN msgpackNext(p, i + 2) ELSE msgpackNext(p, i)
      From[i \in 0..(Len(p) + 2), k \in 0..2] ==
        IF k = 0 \/ i = 0 \/ i > Len(p) THEN << >>
        ELSE (IF IsCommand(i) THEN <<p[i + 1]>> ELSE << >>)
             \o (IF End(i) = 0 THEN << >> ELSE From[End(i), k - 1])
  IN  IF p = << >> \/ p[1] \notin Arrays THEN << >> ELSE From[2, Count(p[1])]

-----------------------------------------------------------------------------
\* utf8SeqLen, utf8CharWidth: a character's bytes; 0 for what is none, and for
\* one that is not to be shown.
utf8SeqLen(p, i) ==
  LET Cont(k) == k <= Len(p) /\ p[k] = "cont"
  IN  CASE p[i] \in {"A", "ctl"} -> 1
        [] p[i] = "two" -> IF Cont(i + 1) THEN 2 ELSE 0
        [] p[i] \in {"three", "bidi"} -> IF Cont(i + 1) /\ Cont(i + 2) THEN 3 ELSE 0
        [] OTHER -> 0
utf8CharWidth(p, i) == IF p[i] \in {"ctl", "bidi"} THEN 0 ELSE utf8SeqLen(p, i)

utf8TrimLen(p, max) ==
  LET Fits[i \in 1..(Len(p) + 1)] ==
        IF i > Len(p) \/ utf8SeqLen(p, i) = 0 \/ i - 1 + utf8SeqLen(p, i) > max THEN i - 1
        ELSE Fits[i + utf8SeqLen(p, i)]
  IN  Fits[1]

utf8SafeCopy(p, cap) ==
  LET Copy[i \in 1..(Len(p) + 1), w \in 0..cap] ==
        IF i > Len(p) \/ w >= cap - 1 THEN << >>
        ELSE LET cw == utf8CharWidth(p, i)
             IN  IF cw = 0 THEN <<".">> \o Copy[i + 1, w + 1]
                 ELSE IF w + cw > cap - 1 THEN << >>
                 ELSE SubSeq(p, i, i + cw - 1) \o Copy[i + cw, w + cw]
  IN  IF p = << >> \/ cap < 2 THEN << >> ELSE Copy[1, 0]

displayableName(p, cap) ==
  LET Whole[i \in 1..(Len(p) + 1)] ==
        IF i > Len(p) THEN TRUE
        ELSE utf8CharWidth(p, i) # 0 /\ Whole[i + utf8CharWidth(p, i)]
  IN  IF p # << >> /\ cap >= 2 /\ Whole[1] THEN SubSeq(p, 1, utf8TrimLen(p, cap - 1)) ELSE << >>

-----------------------------------------------------------------------------
\* lxmfPayload and lxmfEnvelope: an address, whose, a signature, the payload.
lxmfPayload(m) == <<"arr4", "f64">> \o m.title \o m.content \o m.fields
Wire(m) == IF m.stamp THEN <<"arr5">> \o Tail(lxmfPayload(m)) \o <<"str1", "A">> ELSE lxmfPayload(m)
lxmfEnvelope(m, includeDest) == (IF includeDest THEN <<"dest">> ELSE << >>) \o <<"source", "sig">> \o Wire(m)

\* parseLxmf, then lxmfSignedSpans: the first four elements under the header of
\* an array of four, wherever the packet ends.
parseLxmf(data) ==
  LET p == SubSeq(data, 4, Len(data))
      elements == IF p = << >> THEN 0 ELSE Count(p[1])
      end == Ends(p)[2, Depth, elements]
      signedEnd == Ends(p)[2, Depth, IF elements > 4 THEN 4 ELSE elements]
  IN  IF Len(data) < 4 \/ elements < 3 \/ p[1] \notin Arrays \/ end = 0 THEN << >>
      ELSE <<data[1], data[2], IF elements > 4 THEN "arr4" ELSE p[1]>> \o SubSeq(p, 2, signedEnd - 1)

\* lxmfOutgoing: what this node signs of its own.
lxmfOutgoing(m) == <<"dest", "source">> \o lxmfPayload(m)

-----------------------------------------------------------------------------
Titles == {<<"nil">>, <<"str1", "A">>}
Fields == {<<"map0">>, <<"map1", "k9", "arr1", "map1", "k2", "nil">>}
Messages == [title : Titles, content : Titles, fields : Fields, stamp : BOOLEAN]
Packets ==
  {[whole |-> lxmfEnvelope(m, TRUE) \o pad, signed |-> lxmfOutgoing(m)] : m \in Messages, pad \in {<< >>, <<"bad">>}}
  \cup {[whole |-> <<"dest">> \o lxmfEnvelope(m, FALSE), signed |-> lxmfOutgoing(m)] : m \in Messages}

Init ==
  /\ read = << >>
  /\ \/ kind = "fields" /\ buf \in BoundedSeq(Bytes, MaxLen)
     \/ kind = "text" /\ buf \in BoundedSeq(TextBytes, MaxLen)
     \/ kind = "message" /\ buf \in Packets
Read ==
  /\ read = << >>
  /\ read' = CASE kind = "fields" -> <<msgpackNext(buf, 1), lxmfField(buf, "k9"), lxmfCommands(buf)>>
               [] kind = "text" -> <<[k \in 0..MaxLen |-> utf8TrimLen(buf, k)], [k \in 1..MaxLen |-> utf8SafeCopy(buf, k)],
                                     [k \in 1..MaxLen |-> displayableName(buf, k)]>>
               [] kind = "message" -> <<parseLxmf(buf.whole)>>
  /\ UNCHANGED <<kind, buf>>
Next == Read
Spec == Init /\ [][Next]_vars

-----------------------------------------------------------------------------
\* A value by its grammar: bytes i to j - 1 are m of them, at most d deep.
Short(S) == {s \in S : Len(s) <= MaxLen}
AreValues(p) ==
  LET Are[i \in 1..(MaxLen + 1), j \in 1..(MaxLen + 1), m \in 0..4, d \in 0..Depth] ==
        IF m = 0 THEN i = j
        ELSE \E k \in (i + 1)..j :
               /\ \/ p[i] \in Ints /\ k = i + 1
                  \/ p[i] = "str1" /\ k = i + 2
                  \/ p[i] \in Maps \cup Arrays /\ d > 0
                     /\ Are[i + 1, k, IF p[i] \in Maps THEN 2 * Count(p[i]) ELSE Count(p[i]), d - 1]
               /\ Are[k, j, m - 1, d]
  IN  Are
Stops(p, i, m) == {j \in i..(Len(p) + 1) : i <= Len(p) + 1 /\ AreValues(p)[i, j, m, Depth]}

\* The walk ends where the only value that begins the buffer ends; a field is
\* the value of the first such key, whatever the keys before it were; a command
\* is the number of an element, whatever the elements before it were.
WalksRight ==
  kind = "fields" /\ read # << >> =>
    LET Keys(n) == {i \in IF n = 1 THEN {2} ELSE Stops(buf, 2, 2) : i < Len(buf) /\ buf[i] = "k9"}
        First == IF Keys(1) # {} THEN Keys(1) ELSE IF buf # << >> /\ buf[1] = "map2" THEN Keys(2) ELSE {}
        Found == IF buf = << >> \/ buf[1] \notin Maps THEN {}
                 ELSE UNION {{SubSeq(buf, i + 1, j - 1) : j \in Stops(buf, i + 1, 1)} : i \in First}
    IN  /\ read[1] = Max({0} \cup Stops(buf, 1, 1))
        /\ read[2] = IF Found = {} THEN << >> ELSE CHOOSE v \in Found : TRUE
        /\ \A i \in 2..(Len(buf) - 2) :
             /\ buf[1] \in {"arr1", "arr2"} /\ buf[i] = "map1" /\ buf[i + 1] \in Ints /\ Stops(buf, i + 2, 1) # {}
             /\ i = 2 \/ (buf[1] = "arr2" /\ i \in Stops(buf, 2, 1))
             => buf[i + 1] \in ToSet(read[3])

\* Text of whole characters, and of those that may be shown.
Chars == {<<"A">>, <<"ctl">>, <<"two", "cont">>} \cup {<<b, "cont", "cont">> : b \in {"three", "bidi"}}
Shown == {c \in Chars : c[1] \notin {"ctl", "bidi"}}
Text(S) ==
  LET Of[n \in 0..MaxLen] == IF n = 0 THEN {<< >>} ELSE {<< >>} \cup Short({c \o t : c \in S, t \in Of[n - 1]})
  IN  Of[MaxLen]
Whole == Text(Chars)
Clean == Text(Shown)
Dotted == Text(Shown \cup {<<".">>})

\* Text is never cut inside a character, is cut as late as the room allows, and
\* a terminal is shown nothing but characters and dots.
CutsRight ==
  kind = "text" /\ read # << >> =>
    /\ \A k \in 0..MaxLen : read[1][k] = Max({Len(t) : t \in {t \in Whole : Len(t) <= k /\ IsPrefix(t, buf)}})
    /\ \A k \in 1..MaxLen :
         /\ Len(read[2][k]) < k /\ read[2][k] \in Dotted
         /\ buf \in Clean => IsPrefix(read[2][k], buf)
         /\ read[3][k] = IF buf \in Clean /\ k > 1
                         THEN SubSeq(buf, 1, Max({Len(t) : t \in {t \in Whole : Len(t) < k /\ IsPrefix(t, buf)}})) ELSE << >>

\* Whatever was appended to a message, and however it came, what is checked is
\* what its sender signed.
SpansAgree == kind = "message" /\ read # << >> => read[1] = buf.signed

=============================================================================
