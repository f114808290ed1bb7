-------------------------- MODULE Endpoint_proofs ---------------------------
(***************************************************************************)
(* What holds of a connection for every text that is sent, however it is   *)
(* cut by the buffers and by recv and send: the lexer sees the text, every *)
(* call finds its frame, and the client receives the replies.              *)
(***************************************************************************)
EXTENDS Endpoint, TLAPS, SequenceTheorems, FiniteSetTheorems,
        WellFoundedInduction

-----------------------------------------------------------------------------
(* Numbers and sequences.                                                  *)

(* A set of numbers that is not empty has a least one.                     *)
LEMMA LeastOne ==
    ASSUME NEW T, T \subseteq Nat, T # {}
    PROVE  \E k \in T : \A l \in T : k <= l
<1>1. PICK k \in T : \A l \in T : ~(<<l, k>> \in OpToRel(<, Nat))
  BY NatLessThanWellFounded, WFMin
<1>2. \A l \in T : ~(l < k)
  BY <1>1 DEF OpToRel
<1>. QED  BY <1>2

(* A set of numbers below a bound that is not empty has a greatest one.    *)
LEMMA GreatestOne ==
    ASSUME NEW n \in Nat, NEW T, T \subseteq 1 .. n, T # {}
    PROVE  \E k \in T : \A l \in T : l <= k
<1>. DEFINE U == {n - k : k \in T}
<1>1. U \subseteq Nat /\ U # {}
  <2>1. PICK k \in T : TRUE
    OBVIOUS
  <2>2. n - k \in U
    BY <2>1
  <2>3. \A l \in T : n - l \in Nat
    OBVIOUS
  <2>. QED  BY <2>2, <2>3
<1>2. PICK u \in U : \A v \in U : u <= v
  BY <1>1, LeastOne
<1>3. PICK k \in T : u = n - k
  BY <1>2
<1>4. \A l \in T : n - k <= n - l
  BY <1>2, <1>3
<1>5. \A l \in T : l \in Nat
  OBVIOUS
<1>6. \A l \in T : l <= k
  BY <1>4, <1>5
<1>. QED  BY <1>6

(* A sequence is its beginning and its end.                                *)
LEMMA SplitAt ==
    ASSUME NEW S, NEW s \in Seq(S), NEW n \in 0 .. Len(s)
    PROVE  /\ SubSeq(s, 1, n) \in Seq(S)
           /\ SubSeq(s, n + 1, Len(s)) \in Seq(S)
           /\ Len(SubSeq(s, 1, n)) = n
           /\ Len(SubSeq(s, n + 1, Len(s))) = Len(s) - n
           /\ SubSeq(s, 1, n) \o SubSeq(s, n + 1, Len(s)) = s
<1>1. PICK len \in Nat : len = Len(s)
  BY LenProperties
<1>2. \A i \in 1 .. len : s[i] \in S
  BY <1>1, ElementOfSeq
<1>3. n \in Nat /\ n <= len
  BY <1>1
<1>4. \A i \in 1 .. n : s[i] \in S
  BY <1>2, <1>3
<1>5. \A i \in n + 1 .. len : s[i] \in S
  BY <1>2, <1>3
<1>6. SubSeq(s, 1, n) \in Seq(S) /\ Len(SubSeq(s, 1, n)) = n
  BY <1>3, <1>4, SubSeqProperties
<1>7. /\ SubSeq(s, n + 1, len) \in Seq(S)
      /\ Len(SubSeq(s, n + 1, len)) = IF n + 1 <= len THEN len - (n + 1) + 1 ELSE 0
  BY <1>1, <1>3, <1>5, SubSeqProperties
<1>8. 1 \in 1 .. Len(s) + 1 /\ n \in 1 - 1 .. Len(s) /\ Len(s) \in n .. Len(s)
  BY <1>1, <1>3
<1>9. SubSeq(s, 1, n) \o SubSeq(s, n + 1, Len(s)) = SubSeq(s, 1, Len(s))
  BY <1>8, ConcatAdjacentSubSeq
<1>10. SubSeq(s, 1, Len(s)) = s
  BY SubSeqFull
<1>11. Len(SubSeq(s, n + 1, len)) = len - n
  BY <1>3, <1>7
<1>. QED  BY <1>1, <1>6, <1>7, <1>9, <1>10, <1>11

(* A sequence of one element.                                              *)
LEMMA OneElement ==
    ASSUME NEW S, NEW s \in Seq(S), Len(s) = 1
    PROVE  s = <<s[1]>>
<1>1. 1 \in 1 .. Len(s)
  OBVIOUS
<1>2. s[1] \in S
  BY <1>1, ElementOfSeq
<1>3. <<s[1]>> \in Seq(S) /\ Len(<<s[1]>>) = 1 /\ <<s[1]>>[1] = s[1]
  BY <1>2
<1>4. \A i \in 1 .. Len(s) : s[i] = <<s[1]>>[i]
  BY <1>3
<1>. QED  BY <1>3, <1>4, SeqEqual

(* Any part of a sequence is one.                                          *)
LEMMA PartOfSeq ==
    ASSUME NEW S, NEW s \in Seq(S), NEW m \in Nat \ {0}, NEW n \in 0 .. Len(s)
    PROVE  SubSeq(s, m, n) \in Seq(S)
<1>1. PICK len \in Nat : len = Len(s)
  BY LenProperties
<1>2. \A i \in m .. n : i \in 1 .. Len(s)
  BY <1>1
<1>3. \A i \in m .. n : s[i] \in S
  BY <1>2, ElementOfSeq
<1>. QED  BY <1>1, <1>3, SubSeqProperties

-----------------------------------------------------------------------------
(* FlattenSeq.                                                             *)

(* What defines the function in FlattenSeq.                                *)
Flattens(f, n, s) ==
    f = [i \in 1 .. n |-> IF i = 1 THEN s[i] ELSE f[i - 1] \o s[i]]

(* There is such a function.                                               *)
LEMMA FlattensExist ==
    ASSUME NEW s, NEW n \in Nat
    PROVE  \E f : Flattens(f, n, s)
<1>. DEFINE Missing == {k \in 0 .. n : ~\E f : Flattens(f, k, s)}
<1>. SUFFICES ASSUME Missing # {}  PROVE FALSE
  OBVIOUS
<1>0. Missing \subseteq Nat
  OBVIOUS
<1>1. PICK k \in Missing : \A l \in Missing : k <= l
  BY <1>0, LeastOne
<1>2. k # 0
  <2>1. Flattens([i \in 1 .. 0 |-> 0], 0, s)
    BY DEF Flattens
  <2>. QED  BY <1>1, <2>1
<1>3. k - 1 \in 0 .. n /\ k - 1 \notin Missing /\ k \in Nat /\ k \in 1 .. n
  BY <1>1, <1>2
<1>4. PICK f : Flattens(f, k - 1, s)
  BY <1>3
<1>. DEFINE g == [i \in 1 .. k |->
                     IF i = k THEN IF k = 1 THEN s[1] ELSE f[k - 1] \o s[k]
                     ELSE f[i]]
<1>5. \A i \in 1 .. k - 1 : f[i] = IF i = 1 THEN s[i] ELSE f[i - 1] \o s[i]
  BY <1>4 DEF Flattens
<1>6. ASSUME NEW i \in 1 .. k
      PROVE  g[i] = IF i = 1 THEN s[i] ELSE g[i - 1] \o s[i]
  <2>1. CASE i = k
    <3>1. k # 1 => k - 1 \in 1 .. k /\ k - 1 # k
      BY <1>3
    <3>2. k # 1 => g[k - 1] = f[k - 1]
      BY <3>1
    <3>3. g[k] = IF k = 1 THEN s[1] ELSE f[k - 1] \o s[k]
      BY <1>3
    <3>. QED  BY <2>1, <3>2, <3>3
  <2>2. CASE i # k
    <3>1. i \in 1 .. k - 1 /\ (i # 1 => i - 1 \in 1 .. k /\ i - 1 # k)
      BY <1>3, <2>2
    <3>2. g[i] = f[i] /\ (i # 1 => g[i - 1] = f[i - 1])
      BY <2>2, <3>1
    <3>. QED  BY <1>5, <3>1, <3>2
  <2>. QED  BY <2>1, <2>2
<1>7. Flattens(g, k, s)
  BY <1>6 DEF Flattens
<1>. QED  BY <1>1, <1>7

(* FlattenSeq by such a function.                                          *)
LEMMA FlattenSeqIs ==
    ASSUME NEW S, NEW s \in Seq(Seq(S)), Len(s) # 0
    PROVE  \E f : Flattens(f, Len(s), s) /\ FlattenSeq(s) = f[Len(s)]
<1>1. PICK n \in Nat : n = Len(s)
  BY LenProperties
<1>. DEFINE f == CHOOSE g : Flattens(g, n, s)
<1>2. Flattens(f, n, s)
  BY FlattensExist
<1>3. FlattenSeq(s) = f[n]
  BY <1>1 DEF FlattenSeq, Flattens
<1>. QED  BY <1>1, <1>2, <1>3

(* Nothing flattened is nothing.                                           *)
LEMMA FlattenNothing == FlattenSeq(<<>>) = <<>>
<1>1. Len(<<>>) = 0
  OBVIOUS
<1>. QED  BY <1>1 DEF FlattenSeq

(* What such a function returns are sequences.                             *)
LEMMA FlattensAreSeqs ==
    ASSUME NEW S, NEW s \in Seq(Seq(S)), NEW f, Flattens(f, Len(s), s)
    PROVE  \A i \in 1 .. Len(s) : f[i] \in Seq(S)
<1>1. PICK n \in Nat : n = Len(s)
  BY LenProperties
<1>. DEFINE Bad == {i \in 1 .. n : f[i] \notin Seq(S)}
<1>. SUFFICES ASSUME Bad # {} PROVE FALSE
  BY <1>1
<1>2. Bad \subseteq Nat
  OBVIOUS
<1>3. PICK k \in Bad : \A l \in Bad : k <= l
  BY <1>2, LeastOne
<1>4. s[k] \in Seq(S)
  BY <1>1, <1>3, ElementOfSeq
<1>5. f[k] = IF k = 1 THEN s[k] ELSE f[k - 1] \o s[k]
  BY <1>1, <1>3 DEF Flattens
<1>6. k # 1 => k - 1 \in 1 .. n /\ k - 1 \notin Bad
  BY <1>3
<1>7. k # 1 => f[k - 1] \in Seq(S)
  BY <1>6
<1>8. f[k] \in Seq(S)
  BY <1>4, <1>5, <1>7, ConcatProperties
<1>. QED  BY <1>3, <1>8

(* Flattened sequences are a sequence.                                     *)
LEMMA FlattenIsSeq ==
    ASSUME NEW S, NEW s \in Seq(Seq(S))
    PROVE  FlattenSeq(s) \in Seq(S)
<1>1. CASE Len(s) = 0
  <2>1. s = <<>>
    BY <1>1, EmptySeq
  <2>. QED  BY <2>1, FlattenNothing, EmptySeq
<1>2. CASE Len(s) # 0
  <2>1. PICK f : Flattens(f, Len(s), s) /\ FlattenSeq(s) = f[Len(s)]
    BY <1>2, FlattenSeqIs
  <2>2. Len(s) \in 1 .. Len(s)
    BY <1>2, LenProperties
  <2>. QED  BY <2>1, <2>2, FlattensAreSeqs
<1>. QED  BY <1>1, <1>2

(* The first sequence comes first.                                         *)
LEMMA FlattenFirst ==
    ASSUME NEW S, NEW s \in Seq(Seq(S)), NEW h \in Seq(S)
    PROVE  FlattenSeq(<<h>> \o s) = h \o FlattenSeq(s)
<1>0. \A a, b \in Seq(S) : (h \o a) \o b = h \o (a \o b)
  BY ConcatAssociative
<1>1. PICK n \in Nat : n = Len(s)
  BY LenProperties
<1>. DEFINE t == <<h>> \o s
<1>2. <<h>> \in Seq(Seq(S)) /\ Len(<<h>>) = 1 /\ <<h>>[1] = h
  OBVIOUS
<1>3. /\ t \in Seq(Seq(S))
      /\ Len(t) = n + 1
      /\ \A i \in 1 .. 1 + n : t[i] = IF i <= 1 THEN <<h>>[i] ELSE s[i - 1]
  BY <1>1, <1>2, ConcatProperties
<1>4. t[1] = h /\ \A i \in 1 .. n : t[i + 1] = s[i]
  <2>1. t[1] = h
    BY <1>2, <1>3
  <2>2. ASSUME NEW i \in 1 .. n PROVE t[i + 1] = s[i]
    <3>1. i + 1 \in 1 .. 1 + n /\ ~(i + 1 <= 1) /\ (i + 1) - 1 = i
      OBVIOUS
    <3>. QED  BY <1>3, <3>1
  <2>. QED  BY <2>1, <2>2
<1>. HIDE DEF t
<1>5. PICK g : Flattens(g, n + 1, t) /\ FlattenSeq(t) = g[n + 1]
  BY <1>3, FlattenSeqIs
<1>6. g[1] = h
  BY <1>4, <1>5 DEF Flattens
<1>7. CASE n = 0
  <2>1. s = <<>>
    BY <1>1, <1>7, EmptySeq
  <2>2. h \o FlattenSeq(s) = h
    BY <2>1, FlattenNothing, ConcatEmptySeq
  <2>. QED  BY <1>5, <1>6, <1>7, <2>2 DEF t
<1>8. CASE n # 0
  <2>1. PICK f : Flattens(f, n, s) /\ FlattenSeq(s) = f[n]
    BY <1>1, <1>8, FlattenSeqIs
  <2>2. \A i \in 1 .. n : f[i] \in Seq(S)
    BY <1>1, <2>1, FlattensAreSeqs
  <2>. DEFINE Bad == {i \in 1 .. n : g[i + 1] # h \o f[i]}
  <2>3. Bad = {}
    <3>. SUFFICES ASSUME Bad # {} PROVE FALSE
      OBVIOUS
    <3>1. Bad \subseteq Nat
      OBVIOUS
    <3>2. PICK k \in Bad : \A l \in Bad : k <= l
      BY <3>1, LeastOne
    <3>3. k \in 1 .. n /\ k + 1 \in 1 .. n + 1 /\ k + 1 # 1 /\ (k + 1) - 1 = k
      BY <3>2
    <3>4. g[k + 1] = g[k] \o t[k + 1]
      BY <1>5, <3>3 DEF Flattens
    <3>5. t[k + 1] = s[k]
      BY <1>4, <3>3
    <3>6. f[k] = IF k = 1 THEN s[k] ELSE f[k - 1] \o s[k]
      BY <2>1, <3>3 DEF Flattens
    <3>7. CASE k = 1
      BY <1>6, <3>2, <3>4, <3>5, <3>6, <3>7
    <3>8. CASE k # 1
      <4>0. k \in Nat /\ k - 1 \in 1 .. n /\ k - 1 < k /\ (k - 1) + 1 = k
        BY <3>3, <3>8
      <4>1. k - 1 \in 1 .. n /\ k - 1 \notin Bad /\ (k - 1) + 1 = k
        <5>1. k - 1 \in Bad => k <= k - 1
          BY <3>2, Zenon
        <5>. QED  BY <4>0, <5>1
      <4>2. g[k] = h \o f[k - 1]
        BY <4>1
      <4>3. PICK a \in Seq(S), b \in Seq(S) : a = f[k - 1] /\ b = s[k]
        BY <1>1, <2>2, <3>3, <4>1, ElementOfSeq
      <4>4. (h \o a) \o b = h \o (a \o b)
        BY <1>0, <4>3
      <4>. QED  BY <3>2, <3>4, <3>5, <3>6, <3>8, <4>2, <4>3, <4>4
    <3>. QED  BY <3>7, <3>8
  <2>4. n \in 1 .. n
    BY <1>8
  <2>5. g[n + 1] = h \o f[n]
    BY <2>3, <2>4
  <2>. QED  BY <1>5, <2>1, <2>5 DEF t
<1>. QED  BY <1>7, <1>8

-----------------------------------------------------------------------------
(* What the serializer writes.                                             *)

(* A literal of the code with its zero.                                    *)
LEMMA LiteralIsText ==
    ASSUME NEW t \in Seq(ReplyChars)
    PROVE  Literal(t) \in Seq(ReplyChars)
<1>1. "nul" \in ReplyChars
  BY DEF ReplyChars
<1>. QED  BY <1>1, AppendProperties DEF Literal

(* A string literal of a reply.                                            *)
LEMMA EscapedStringIsText ==
    ASSUME NEW t \in Seq(ReplyChars)
    PROVE  WriteEscapedString(t) \in Seq(Seq(ReplyChars))
<1>1. PICK n \in Nat : n = Len(t)
  BY LenProperties
<1>2. \A c \in ReplyChars : Escaped(c) \in Seq(ReplyChars)
  <2>1. "slash" \in ReplyChars /\ "quote" \in ReplyChars /\ "n" \in ReplyChars
        /\ "u" \in ReplyChars /\ "0" \in ReplyChars
    BY DEF ReplyChars
  <2>2. /\ <<"slash", "quote">> \in Seq(ReplyChars)
        /\ <<"slash", "n">> \in Seq(ReplyChars)
        /\ <<"slash", "u", "0", "0", "0", "0">> \in Seq(ReplyChars)
    BY <2>1
  <2>3. /\ Literal(<<"slash", "quote">>) \in Seq(ReplyChars)
        /\ Literal(<<"slash", "n">>) \in Seq(ReplyChars)
    BY <2>2, LiteralIsText
  <2>4. \A c \in ReplyChars : <<c>> \in Seq(ReplyChars)
    OBVIOUS
  <2>. QED  BY <2>2, <2>3, <2>4 DEF Escaped
<1>3. \A i \in 1 .. n : Escaped(t[i]) \in Seq(ReplyChars)
  BY <1>1, <1>2, ElementOfSeq
<1>4. [i \in 1 .. n |-> Escaped(t[i])] \in Seq(Seq(ReplyChars))
  BY <1>3
<1>5. <<<<"quote">>>> \in Seq(Seq(ReplyChars))
  <2>1. "quote" \in ReplyChars
    BY DEF ReplyChars
  <2>. QED  BY <2>1
<1>6. <<<<"quote">>>> \o [i \in 1 .. n |-> Escaped(t[i])] \in Seq(Seq(ReplyChars))
  BY <1>4, <1>5, ConcatProperties
<1>. QED  BY <1>1, <1>5, <1>6, ConcatProperties DEF WriteEscapedString

(* One or two elements are a sequence.                                     *)
LEMMA ShortSeq ==
    ASSUME NEW T, NEW a \in T, NEW b \in T
    PROVE  <<a>> \in Seq(T) /\ <<a, b>> \in Seq(T)
OBVIOUS

(* The values of a reply.                                                  *)
LEMMA ValuesAreText ==
    ASSUME NEW s \in Seq(Instructions)
    PROVE  SerializeValues(s) \in Seq(Seq(ReplyChars))
<1>. DEFINE Text1 == Seq(ReplyChars)
<1>. DEFINE comma == Literal(<<",", " ">>)
<1>1. PICK n \in Nat : n = Len(s)
  BY LenProperties
<1>2. /\ <<<<"[">>>> \in Seq(Text1) /\ <<<<"]">>>> \in Seq(Text1)
      /\ <<<<"{">>, <<"}">>>> \in Seq(Text1)
      /\ <<comma>> \in Seq(Text1) /\ <<>> \in Seq(Text1)
  <2>1. /\ "[" \in ReplyChars /\ "]" \in ReplyChars /\ "," \in ReplyChars
        /\ "{" \in ReplyChars /\ "}" \in ReplyChars /\ " " \in ReplyChars
    BY DEF ReplyChars
  <2>2. /\ <<"[">> \in Text1 /\ <<"]">> \in Text1 /\ <<",", " ">> \in Text1
        /\ <<"{">> \in Text1 /\ <<"}">> \in Text1
    BY <2>1, ShortSeq, Zenon
  <2>3. comma \in Text1
    BY <2>2, LiteralIsText
  <2>. HIDE DEF Text1, comma
  <2>4. /\ <<<<"[">>>> \in Seq(Text1) /\ <<<<"]">>>> \in Seq(Text1)
        /\ <<<<"{">>, <<"}">>>> \in Seq(Text1)
        /\ <<comma>> \in Seq(Text1)
    BY <2>2, <2>3, ShortSeq, Zenon
  <2>. QED  BY <2>4, EmptySeq
<1>3. \A v \in Instructions : v.arg \in Seq(ReplyChars)
  <2>1. \A v \in Instructions : v.arg \in Seq(Chars)
    BY DEF Instructions
  <2>2. Chars \subseteq ReplyChars
    BY DEF ReplyChars
  <2>. QED  BY <2>1, <2>2, SeqMonotonic
<1>4. \A v \in Instructions : WriteValue(v) \in Seq(Text1)
  <2>. TAKE v \in Instructions
  <2>1. v.arg \in Text1
    BY <1>3
  <2>2. WriteEscapedString(v.arg) \in Seq(Text1)
    BY <2>1, EscapedStringIsText
  <2>. HIDE DEF Text1
  <2>3. <<v.arg>> \in Seq(Text1)
    BY <2>1
  <2>. QED  BY <1>2, <2>2, <2>3 DEF WriteValue
<1>. HIDE DEF Text1, comma
<1>. DEFINE part(i) == WriteValue(s[i])
                           \o IF i < Len(s) THEN <<comma>> ELSE <<>>
<1>5. \A i \in 1 .. n : part(i) \in Seq(Text1)
  <2>. TAKE i \in 1 .. n
  <2>1. s[i] \in Instructions
    BY <1>1, ElementOfSeq
  <2>2. PICK w \in Seq(Text1) : w = WriteValue(s[i])
    BY <1>4, <2>1
  <2>3. PICK x \in Seq(Text1) : x = IF i < Len(s) THEN <<comma>> ELSE <<>>
    BY <1>2
  <2>4. w \o x \in Seq(Text1)
    BY <2>2, <2>3, ConcatProperties
  <2>. QED  BY <2>2, <2>3, <2>4
<1>. HIDE DEF part
<1>6. [i \in 1 .. n |-> part(i)] \in Seq(Seq(Text1))
  BY <1>5
<1>7. FlattenSeq([i \in 1 .. n |-> part(i)]) \in Seq(Text1)
  BY <1>6, FlattenIsSeq
<1>8. <<<<"[">>>> \o FlattenSeq([i \in 1 .. n |-> part(i)]) \in Seq(Text1)
  BY <1>2, <1>7, ConcatProperties
<1>9. <<<<"[">>>> \o FlattenSeq([i \in 1 .. n |-> part(i)]) \o <<<<"]">>>> \in Seq(Text1)
  BY <1>2, <1>8, ConcatProperties
<1>. QED  BY <1>1, <1>9 DEF SerializeValues, part, comma, Text1

(* The results that Execute gives to the serializer.                       *)
Replies ==
    {<<"syntax">>, <<"failed">>} \cup {<<"values", s>> : s \in Seq(Instructions)}

(* Pieces of text are written for each of them.                            *)
LEMMA ReplyIsText ==
    ASSUME NEW r \in Replies
    PROVE  Serialize(r) \in Seq(Seq(ReplyChars))
<1>1. <<<<"nl">>>> \in Seq(Seq(ReplyChars))
  <2>1. "nl" \in ReplyChars
    BY DEF ReplyChars
  <2>. QED  BY <2>1
<1>2. ASSUME NEW s \in Seq(Instructions), r = <<"values", s>>
      PROVE  Serialize(r) \in Seq(Seq(ReplyChars))
  <2>1. r[1] = "values" /\ r[2] = s
    BY <1>2
  <2>2. SerializeValues(s) \in Seq(Seq(ReplyChars))
    BY ValuesAreText
  <2>3. Serialize(r) = SerializeValues(s) \o <<<<"nl">>>>
    BY <2>1 DEF Serialize
  <2>. QED  BY <1>1, <2>2, <2>3, ConcatProperties
<1>3. ASSUME r \in {<<"syntax">>, <<"failed">>}
      PROVE  Serialize(r) \in Seq(Seq(ReplyChars))
  <2>1. r[1] # "values"
    BY <1>3
  <2>2. "syntax" \in ReplyChars /\ "failed" \in ReplyChars
    BY DEF ReplyChars
  <2>3. r \in Seq(ReplyChars)
    BY <1>3, <2>2, ShortSeq, Zenon
  <2>4. WriteEscapedString(r) \in Seq(Seq(ReplyChars))
    BY <2>3, EscapedStringIsText
  <2>5. Serialize(r) = WriteEscapedString(r) \o <<<<"nl">>>>
    BY <2>1 DEF Serialize
  <2>. QED  BY <1>1, <2>4, <2>5, ConcatProperties
<1>. QED  BY <1>2, <1>3 DEF Replies

-----------------------------------------------------------------------------
(* What the lexer makes of a term.                                         *)

(* What defines the function in LexerParseString.                          *)
Parses(f, n, t) ==
    f = [i \in 0 .. n |->
            IF i = 0 THEN [out |-> <<>>, skip |-> FALSE]
            ELSE LET before == f[i - 1]
                 IN  IF t[i] = "slash" /\ ~before.skip
                     THEN [out |-> before.out, skip |-> TRUE]
                     ELSE [out |-> Append(before.out, t[i]), skip |-> FALSE]]

(* One step of it.                                                         *)
ParseNext(before, c) ==
    IF c = "slash" /\ ~before.skip
    THEN [out |-> before.out, skip |-> TRUE]
    ELSE [out |-> Append(before.out, c), skip |-> FALSE]

(* There is such a function.                                               *)
LEMMA ParsesExist ==
    ASSUME NEW t, NEW n \in Nat
    PROVE  \E f : Parses(f, n, t)
<1>. DEFINE Missing == {k \in 0 .. n : ~\E f : Parses(f, k, t)}
<1>. SUFFICES ASSUME Missing # {}  PROVE FALSE
  OBVIOUS
<1>0. Missing \subseteq Nat
  OBVIOUS
<1>1. PICK k \in Missing : \A l \in Missing : k <= l
  BY <1>0, LeastOne
<1>2. k # 0
  <2>1. Parses([i \in 0 .. 0 |-> [out |-> <<>>, skip |-> FALSE]], 0, t)
    BY DEF Parses
  <2>. QED  BY <1>1, <2>1
<1>3. k - 1 \in 0 .. n /\ k - 1 \notin Missing /\ k \in Nat /\ k \in 1 .. n
  BY <1>1, <1>2
<1>4. PICK f : Parses(f, k - 1, t)
  BY <1>3
<1>. DEFINE none == [out |-> <<>>, skip |-> FALSE]
<1>. DEFINE g == [i \in 0 .. k |-> IF i = k THEN ParseNext(f[k - 1], t[k]) ELSE f[i]]
<1>5. \A i \in 0 .. k - 1 : f[i] = IF i = 0 THEN none ELSE ParseNext(f[i - 1], t[i])
  BY <1>4 DEF Parses, ParseNext
<1>. HIDE DEF none
<1>6. ASSUME NEW i \in 0 .. k
      PROVE  g[i] = IF i = 0 THEN none ELSE ParseNext(g[i - 1], t[i])
  <2>1. CASE i = k
    <3>1. g[k - 1] = f[k - 1] /\ g[k] = ParseNext(f[k - 1], t[k])
      BY <1>3
    <3>. QED  BY <1>2, <2>1, <3>1
  <2>2. CASE i # k
    <3>1. i \in 0 .. k - 1 /\ (i # 0 => i - 1 \in 0 .. k /\ i - 1 # k)
      BY <1>3, <2>2
    <3>2. g[i] = f[i] /\ (i # 0 => g[i - 1] = f[i - 1])
      BY <2>2, <3>1
    <3>. QED  BY <1>5, <3>1, <3>2
  <2>. QED  BY <2>1, <2>2
<1>7. g = [i \in 0 .. k |-> IF i = 0 THEN none ELSE ParseNext(g[i - 1], t[i])]
  BY <1>6
<1>8. Parses(g, k, t)
  BY <1>7 DEF Parses, ParseNext, none
<1>. QED  BY <1>1, <1>8

(* A string without its escapes is of the same characters.                 *)
LEMMA ParsedIsText ==
    ASSUME NEW t \in Seq(Chars), NEW was \in BOOLEAN
    PROVE  LexerParseString(t, was) \in Seq(Chars)
<1>1. PICK n \in Nat : n = Len(t)
  BY LenProperties
<1>. DEFINE f == CHOOSE g : Parses(g, n, t)
<1>2. was => LexerParseString(t, was) = f[n].out
  BY <1>1 DEF LexerParseString, Parses
<1>3. Parses(f, n, t)
  BY ParsesExist
<1>. HIDE DEF f
<1>. DEFINE Bad == {i \in 0 .. n : f[i].out \notin Seq(Chars)}
<1>4. Bad = {}
  <2>. SUFFICES ASSUME Bad # {} PROVE FALSE
    OBVIOUS
  <2>1. Bad \subseteq Nat
    OBVIOUS
  <2>2. PICK k \in Bad : \A l \in Bad : k <= l
    BY <2>1, LeastOne
  <2>3. f[k] = IF k = 0 THEN [out |-> <<>>, skip |-> FALSE] ELSE ParseNext(f[k - 1], t[k])
    BY <1>3, <2>2 DEF Parses, ParseNext
  <2>4. k # 0
    <3>1. k = 0 => f[k].out = <<>>
      BY <2>3
    <3>. QED  BY <2>2, <3>1, EmptySeq
  <2>5. k - 1 \in 0 .. n /\ k - 1 \notin Bad /\ k \in 1 .. n
    BY <2>2, <2>4
  <2>6. f[k - 1].out \in Seq(Chars) /\ t[k] \in Chars
    BY <1>1, <2>5, ElementOfSeq
  <2>7. Append(f[k - 1].out, t[k]) \in Seq(Chars)
    BY <2>6, AppendProperties
  <2>8. f[k].out \in Seq(Chars)
    BY <2>3, <2>4, <2>6, <2>7 DEF ParseNext
  <2>. QED  BY <2>2, <2>8
<1>5. f[n].out \in Seq(Chars)
  BY <1>4
<1>. QED  BY <1>2, <1>5 DEF LexerParseString

(* Calls and strings.                                                      *)
LEMMA CallIsInstruction ==
    ASSUME NEW t \in Seq(Chars)
    PROVE  /\ LexerBeginOp(t) \in Instructions /\ LexerBeginOp(t).kind = "call"
           /\ LexerStrValue(t) \in Instructions /\ LexerStrValue(t).kind = "str"
BY DEF LexerBeginOp, LexerStrValue, Instruction, Instructions

(* A value is an instruction that pushes one.                              *)
LEMMA ValueIsInstruction ==
    ASSUME NEW t \in Seq(Chars), t # <<>>
    PROVE  ValueOf(t) \in Instructions /\ ValueOf(t).kind \in {"num", "str", "field"}
<1>1. Tail(t) \in Seq(Chars)
  BY HeadTailProperties
<1>. QED  BY <1>1 DEF ValueOf, LexerStrValue, Instruction, Instructions

-----------------------------------------------------------------------------
(* The inductive invariant.                                                *)

(* A reader that has failed has nothing left.                              *)
ReaderOK ==
    /\ ReaderTypeOK
    /\ NothingSkipped
    /\ readError => pos = Len(chunk)

(* A term begins before the next character and is what was read since.     *)
TermOK ==
    /\ termType \in {"op", "value", "str"}
    /\ termBegin \in 0 .. pos + 1
    /\ termBuf \in Seq(Chars)
    /\ start \in 0 .. Len(seen)
    /\ IF termBegin = 0 THEN readError \/ termBuf = <<>>
       ELSE Term = SubSeq(seen, start + 1, Len(seen))

StateOK ==
    /\ pc \in Reading \cup {"built", "exec", "reply", "write", "send",
                             "answered", "closed"}
    /\ depth \in Nat
    /\ escaped \in BOOLEAN
    /\ wasEscaped \in BOOLEAN
    /\ tokenSize \in 0 .. 4
    /\ code \in Seq(Instructions)
    /\ first \in 0 .. Len(seen)

(* A number for each instruction of the text, in the order it was read:    *)
(* how many frames are open after it at least. A call opens one and a      *)
(* barrier closes one.                                                     *)
Follows(g, c) ==
    \A j \in 1 .. Len(c) :
        /\ c[j].kind = "call" => g[j - 1] + 1 <= g[j]
        /\ c[j].kind = "barrier" => g[j - 1] <= g[j] + 1
        /\ c[j].kind \notin {"call", "barrier"} => g[j - 1] <= g[j]

(* At most d frames need be open at the end of c.                          *)
Nested(c, d) ==
    \E g \in [0 .. Len(c) -> Nat] : Follows(g, c) /\ g[Len(c)] <= d

(* The name of an operation is being read, and no call was added for it.   *)
Pending == IF termType = "op" /\ termBegin # 0 THEN 1 ELSE 0

Barriers(s) == {i \in 1 .. Len(s) : s[i].kind = "barrier"}

(* While the text is read every frame is inside of an operation; when the  *)
(* code runs backwards, barriers that were pushed stand for the frames     *)
(* that are still to be called.                                            *)
FramesOK ==
    /\ pc \in Reading \cup {"built"} =>
          \E d \in Nat : Nested(code, d) /\ d + Pending <= depth
    /\ pc = "built" => depth = 0
    /\ pc = "exec" =>
          \E g \in [0 .. Len(code) -> Nat] :
              /\ Follows(g, Reverse(code))
              /\ g[Len(code) + 1 - ip] <= Cardinality(Barriers(stack))

(* A reply is written before the next expression is read.                  *)
WriterOK ==
    /\ WriterTypeOK(ReplyChars)
    /\ pieces \in Seq(Seq(ReplyChars))
    /\ said \in Seq(ReplyChars)
    /\ RepliesDelivered
    /\ pc \notin {"write", "send"} => pieces = <<>>
    /\ pc = "reply" => reply \in Replies

EndpointIInv ==
    ReaderOK /\ TermOK /\ StateOK /\ ProgramTypeOK /\ FramesOK /\ WriterOK

-----------------------------------------------------------------------------
(* The reader.                                                             *)

(* Nothing is available when all of the chunk is consumed.                 *)
LEMMA NothingAvailable ==
    ASSUME ReaderTypeOK
    PROVE  /\ Available \in Seq(Chars)
           /\ Available = <<>> <=> pos = Len(chunk)
<1>1. pos \in 0 .. Len(chunk) /\ chunk \in Seq(Chars)
  BY DEF ReaderTypeOK
<1>2. Available \in Seq(Chars) /\ Len(Available) = Len(chunk) - pos
  BY <1>1, SplitAt DEF Available
<1>3. Len(chunk) \in Nat
  BY <1>1, LenProperties
<1>4. Available = <<>> <=> Len(Available) = 0
  BY <1>2, EmptySeq
<1>. QED  BY <1>1, <1>2, <1>3, <1>4

(* A character moves from what is available to what was seen.              *)
LEMMA CharKeepsReader ==
    ASSUME ReaderOK, ReadAvailableChar
    PROVE  /\ ReaderOK'
           /\ ~readError
           /\ pos \in Nat /\ Len(chunk) \in Nat /\ Len(seen) \in Nat
           /\ chunk[pos + 1] \in Chars
           /\ Len(seen') = Len(seen) + 1
<1>. DEFINE c == chunk[pos + 1]
<1>1. PICK n \in Nat : n = Len(chunk)
  BY LenProperties DEF ReaderOK, ReaderTypeOK
<1>2. /\ pos \in Nat /\ pos < n /\ pos + 1 \in 1 .. Len(chunk)
      /\ chunk \in Seq(Chars) /\ seen \in Seq(Chars)
  BY <1>1 DEF ReaderOK, ReaderTypeOK, ReadAvailableChar
<1>3. c \in Chars
  BY <1>2, ElementOfSeq
<1>4. ~readError
  BY <1>1, <1>2 DEF ReaderOK
<1>5. /\ seen' = Append(seen, c) /\ seen' = seen \o <<c>>
      /\ seen' \in Seq(Chars) /\ Len(seen') = Len(seen) + 1
  BY <1>2, <1>3, AppendProperties, AppendIsConcat DEF ReadAvailableChar
<1>6. ReaderTypeOK'
  <2>1. pos' \in 0 .. n
    BY <1>1, <1>2 DEF ReadAvailableChar
  <2>. QED  BY <1>1, <1>5, <2>1 DEF ReaderOK, ReaderTypeOK, ReadAvailableChar
<1>7. NothingSkipped'
  <2>1. pos' = pos + 1 /\ UNCHANGED <<sent, got, chunk, readError>>
    BY DEF ReadAvailableChar
  <2>2. Available' = SubSeq(chunk, (pos + 1) + 1, Len(chunk))
    BY <2>1 DEF Available
  <2>3. Len(chunk) \in pos + 1 .. Len(chunk)
    BY <1>1, <1>2
  <2>4. Available = <<c>> \o Available'
    BY <1>2, <2>2, <2>3, SubSeqRecursiveFirst DEF Available
  <2>5. Available' \in Seq(Chars) /\ <<c>> \in Seq(Chars)
    <3>1. (pos + 1) + 1 \in Nat \ {0} /\ Len(chunk) \in 0 .. Len(chunk)
      BY <1>1, <1>2
    <3>. QED  BY <1>2, <1>3, <2>2, <3>1, PartOfSeq
  <2>6. PICK a \in Seq(Chars), b \in Seq(Chars) : a = <<c>> /\ b = Available'
    BY <2>5
  <2>7. (seen \o a) \o b = seen \o (a \o b)
    BY <1>2, <2>6, ConcatAssociative
  <2>8. seen' \o Available' = seen \o Available
    BY <1>5, <2>4, <2>6, <2>7
  <2>9. seen \o Available = SubSeq(sent, 1, got)
    BY DEF ReaderOK, NothingSkipped
  <2>. QED  BY <2>1, <2>8, <2>9 DEF NothingSkipped
<1>8. Len(seen) \in Nat
  BY <1>2, LenProperties
<1>9. readError' = readError
  BY DEF ReadAvailableChar
<1>10. ReaderOK'
  BY <1>4, <1>6, <1>7, <1>9 DEF ReaderOK
<1>. QED  BY <1>1, <1>2, <1>3, <1>4, <1>5, <1>8, <1>10

(* The next chunk is what comes after what was received.                   *)
LEMMA RefillKeepsReader ==
    ASSUME ReaderOK, Available = <<>>, NEW n \in Nat, RefillAvailable(n)
    PROVE  ReaderOK'
<1>. USE DEF RefillAvailable, DoRead
<1>1. PICK len \in Nat : len = Len(sent)
  BY LenProperties DEF ReaderOK, ReaderTypeOK
<1>2. /\ sent \in Seq(Chars) /\ got \in Nat /\ n \in 1 .. BufSize
      /\ got + n <= len /\ seen \in Seq(Chars)
  BY <1>1 DEF ReaderOK, ReaderTypeOK
<1>3. \A i \in got + 1 .. got + n : i \in 1 .. Len(sent)
  BY <1>1, <1>2
<1>4. \A i \in got + 1 .. got + n : sent[i] \in Chars
  BY <1>2, <1>3, ElementOfSeq
<1>5. /\ SubSeq(sent, got + 1, got + n) \in Seq(Chars)
      /\ Len(SubSeq(sent, got + 1, got + n)) =
            IF got + 1 <= got + n THEN (got + n) - (got + 1) + 1 ELSE 0
  BY <1>2, <1>4, SubSeqProperties
<1>6. chunk' \in Seq(Chars) /\ Len(chunk') = n
  BY <1>2, <1>5
<1>7. ReaderTypeOK'
  BY <1>1, <1>2, <1>6, ReaderAssumption DEF ReaderOK, ReaderTypeOK
<1>8. NothingSkipped'
  <2>1. Available' = chunk'
    <3>1. Available' = SubSeq(chunk', 1, Len(chunk'))
      BY DEF Available
    <3>. QED  BY <1>6, <3>1, SubSeqFull
  <2>2. seen = SubSeq(sent, 1, got)
    BY <1>2, ConcatEmptySeq DEF ReaderOK, NothingSkipped
  <2>3. 1 \in 1 .. Len(sent) + 1 /\ got \in 1 - 1 .. Len(sent) /\ got + n \in got .. Len(sent)
    BY <1>1, <1>2
  <2>4. SubSeq(sent, 1, got) \o SubSeq(sent, got + 1, got + n) = SubSeq(sent, 1, got + n)
    BY <1>2, <2>3, ConcatAdjacentSubSeq
  <2>. QED  BY <2>1, <2>2, <2>4 DEF NothingSkipped
<1>. QED  BY <1>7, <1>8 DEF ReaderOK

(* A failure leaves nothing behind, as nothing was available.              *)
LEMMA RefillFailsKeepsReader ==
    ASSUME ReaderOK, Available = <<>>, RefillFails
    PROVE  ReaderOK' /\ pos' = pos
<1>1. pos = Len(chunk)
  BY NothingAvailable DEF ReaderOK
<1>2. UNCHANGED <<sent, got, chunk, pos, seen>> /\ readError' = TRUE
  BY <1>1 DEF RefillFails
<1>3. ReaderTypeOK'
  BY <1>2 DEF ReaderOK, ReaderTypeOK
<1>4. NothingSkipped'
  BY <1>2 DEF ReaderOK, NothingSkipped, Available
<1>. QED  BY <1>1, <1>2, <1>3, <1>4 DEF ReaderOK

-----------------------------------------------------------------------------
(* Terms.                                                                  *)

(* A term is text.                                                         *)
LEMMA TermIsSeq ==
    ASSUME ReaderOK, TermOK, termBegin # 0
    PROVE  Term \in Seq(Chars)
<1>1. termBegin \in Nat \ {0} /\ pos \in 0 .. Len(chunk) /\ chunk \in Seq(Chars)
      /\ termBuf \in Seq(Chars)
  BY DEF ReaderOK, ReaderTypeOK, TermOK
<1>2. SubSeq(chunk, termBegin, pos) \in Seq(Chars)
  BY <1>1, PartOfSeq
<1>. QED  BY <1>1, <1>2, ConcatProperties DEF Term

(* What may become of the term when a character is read: it goes on, it is *)
(* over, one begins after the character, or with it.                       *)
TermStep ==
    \/ UNCHANGED <<termType, termBegin, termBuf, start>>
    \/ FinishTerm
    \/ /\ \E type \in {"op", "str"} : StartTerm(type, pos + 2, Len(seen) + 1)
       /\ termBuf' = <<>>
    \/ termBegin = 0 /\ StartTerm("value", pos + 1, Len(seen)) /\ termBuf' = termBuf

(* The character is the last one of a term that goes on.                   *)
LEMMA TermGoesOn ==
    ASSUME ReaderOK, TermOK, ReadAvailableChar, termBegin # 0,
           UNCHANGED <<termType, termBegin, termBuf, start>>
    PROVE  Term' = SubSeq(seen', start' + 1, Len(seen'))
<1>0. \A a, b, t \in Seq(Chars) : (t \o a) \o b = t \o (a \o b)
  BY ConcatAssociative
<1>. DEFINE c == chunk[pos + 1]
<1>1. PICK n \in Nat, m \in Nat : n = Len(chunk) /\ m = Len(seen)
  BY LenProperties DEF ReaderOK, ReaderTypeOK
<1>2. /\ pos \in Nat /\ pos < n /\ chunk \in Seq(Chars) /\ seen \in Seq(Chars)
      /\ termBegin \in 1 .. pos + 1 /\ termBuf \in Seq(Chars) /\ start \in 0 .. m
  BY <1>1 DEF ReaderOK, ReaderTypeOK, TermOK, ReadAvailableChar
<1>3. c \in Chars
  BY CharKeepsReader
<1>4. /\ seen' = Append(seen, c) /\ seen' = seen \o <<c>>
      /\ seen' \in Seq(Chars) /\ Len(seen') = m + 1
      /\ pos' = pos + 1 /\ chunk' = chunk
  BY <1>1, <1>2, <1>3, AppendProperties, AppendIsConcat DEF ReadAvailableChar
<1>5. SubSeq(chunk, termBegin, pos + 1) = SubSeq(chunk, termBegin, pos) \o <<c>>
  <2>1. termBegin \in 1 .. Len(chunk) /\ pos + 1 \in termBegin .. Len(chunk) /\ (pos + 1) - 1 = pos
    BY <1>1, <1>2
  <2>2. SubSeq(chunk, termBegin, pos + 1)
            = SubSeq(chunk, termBegin, (pos + 1) - 1) \o <<chunk[pos + 1]>>
    BY <1>2, <2>1, SubSeqRecursiveSecond
  <2>. QED  BY <2>1, <2>2
<1>6. SubSeq(seen', start + 1, m + 1) = SubSeq(seen', start + 1, m) \o <<c>>
  <2>1. start + 1 \in 1 .. Len(seen') /\ m + 1 \in start + 1 .. Len(seen') /\ (m + 1) - 1 = m
    BY <1>2, <1>4
  <2>2. SubSeq(seen', start + 1, m + 1)
            = SubSeq(seen', start + 1, (m + 1) - 1) \o <<seen'[m + 1]>>
    BY <1>4, <2>1, SubSeqRecursiveSecond
  <2>3. seen'[m + 1] = c
    BY <1>1, <1>2, <1>3, <1>4, AppendProperties
  <2>. QED  BY <2>1, <2>2, <2>3
<1>7. SubSeq(seen', start + 1, m) = SubSeq(seen, start + 1, m)
  <2>1. CASE start = m
    BY <1>1, <1>2, <2>1, SubSeqEmpty
  <2>2. CASE start # m
    <3>1. start + 1 \in 1 .. Len(seen) /\ m \in 1 .. Len(seen)
      BY <1>1, <1>2, <2>2
    <3>2. <<c>> \in Seq(Chars)
      BY <1>3
    <3>3. SubSeq(seen \o <<c>>, start + 1, m) = SubSeq(seen, start + 1, m)
      BY <1>2, <3>1, <3>2, SubSeqOfConcat1
    <3>. QED  BY <1>4, <3>3
  <2>. QED  BY <2>1, <2>2
<1>8. Term' = termBuf \o (SubSeq(chunk, termBegin, pos) \o <<c>>)
  BY <1>4, <1>5 DEF Term
<1>9. SubSeq(chunk, termBegin, pos) \in Seq(Chars) /\ <<c>> \in Seq(Chars)
  <2>1. termBegin \in Nat \ {0} /\ pos \in 0 .. Len(chunk)
    BY <1>1, <1>2
  <2>. QED  BY <1>2, <1>3, <2>1, PartOfSeq
<1>10. PICK a \in Seq(Chars), b \in Seq(Chars), t \in Seq(Chars) :
          a = SubSeq(chunk, termBegin, pos) /\ b = <<c>> /\ t = termBuf
  BY <1>2, <1>9
<1>11. (t \o a) \o b = t \o (a \o b)
  BY <1>0
<1>12. t \o a = SubSeq(seen, start + 1, m)
  BY <1>1, <1>10 DEF TermOK, Term
<1>. QED  BY <1>4, <1>6, <1>7, <1>8, <1>10, <1>11, <1>12

(* Whatever becomes of the term.                                           *)
LEMMA CharKeepsTerm ==
    ASSUME ReaderOK, TermOK, ReadAvailableChar, TermStep
    PROVE  TermOK'
<1>1. PICK m \in Nat : m = Len(seen)
  BY LenProperties DEF ReaderOK, ReaderTypeOK
<1>2. /\ pos \in Nat /\ pos' = pos + 1 /\ Len(seen') = m + 1 /\ ~readError
      /\ readError' = readError /\ chunk[pos + 1] \in Chars /\ chunk' = chunk
      /\ seen' = Append(seen, chunk[pos + 1]) /\ seen \in Seq(Chars) /\ chunk \in Seq(Chars)
  BY <1>1, CharKeepsReader DEF ReaderOK, ReaderTypeOK, ReadAvailableChar
<1>3. CASE UNCHANGED <<termType, termBegin, termBuf, start>>
  <2>1. termBegin' = 0 => readError' \/ termBuf' = <<>>
    BY <1>2, <1>3 DEF TermOK
  <2>2. termBegin' # 0 => Term' = SubSeq(seen', start' + 1, Len(seen'))
    BY <1>3, TermGoesOn
  <2>3. termBegin' \in 0 .. pos' + 1 /\ start' \in 0 .. Len(seen')
    BY <1>1, <1>2, <1>3 DEF TermOK
  <2>4. termType' \in {"op", "value", "str"} /\ termBuf' \in Seq(Chars)
    BY <1>3 DEF TermOK
  <2>. QED  BY <2>1, <2>2, <2>3, <2>4 DEF TermOK
<1>4. CASE FinishTerm
  <2>1. termBegin' = 0 /\ termBuf' = <<>> /\ termType' = "value" /\ start' = start
    BY <1>4 DEF FinishTerm
  <2>2. start' \in 0 .. Len(seen')
    BY <1>1, <1>2, <2>1 DEF TermOK
  <2>. QED  BY <1>2, <2>1, <2>2, EmptySeq DEF TermOK
<1>5. ASSUME NEW type \in {"op", "str"}, StartTerm(type, pos + 2, Len(seen) + 1), termBuf' = <<>>
      PROVE  TermOK'
  <2>1. termBegin' = pos + 2 /\ start' = m + 1 /\ termType' = type
    BY <1>1, <1>5 DEF StartTerm
  <2>2. SubSeq(chunk', termBegin', pos') = <<>> /\ SubSeq(seen', start' + 1, Len(seen')) = <<>>
    BY <1>2, <2>1, SubSeqEmpty
  <2>3. <<>> \o <<>> = <<>>
    BY ConcatEmptySeq, EmptySeq
  <2>4. Term' = SubSeq(seen', start' + 1, Len(seen'))
    BY <1>5, <2>2, <2>3 DEF Term
  <2>5. termBegin' \in 0 .. pos' + 1 /\ start' \in 0 .. Len(seen') /\ termBegin' # 0
    BY <1>2, <2>1
  <2>6. termBuf' \in Seq(Chars) /\ termType' \in {"op", "value", "str"}
    BY <1>5, <2>1, EmptySeq
  <2>. QED  BY <2>4, <2>5, <2>6 DEF TermOK
<1>6. CASE termBegin = 0 /\ StartTerm("value", pos + 1, Len(seen)) /\ termBuf' = termBuf
  <2>1. termBegin' = pos + 1 /\ start' = m /\ termType' = "value" /\ termBuf' = <<>>
    BY <1>1, <1>2, <1>6 DEF StartTerm, TermOK
  <2>. DEFINE c == chunk[pos + 1]
  <2>2. SubSeq(chunk, pos + 1, pos + 1) = <<c>>
    <3>1. \A i \in pos + 1 .. pos + 1 : chunk[i] \in Chars
      BY <1>2
    <3>2. /\ SubSeq(chunk, pos + 1, pos + 1) \in Seq(Chars)
          /\ Len(SubSeq(chunk, pos + 1, pos + 1)) = 1
          /\ SubSeq(chunk, pos + 1, pos + 1)[1] = c
      BY <1>2, <3>1, SubSeqProperties
    <3>. QED  BY <3>2, OneElement
  <2>3. SubSeq(seen', m + 1, m + 1) = <<c>>
    <3>1. seen' \in Seq(Chars) /\ seen'[m + 1] = c
      BY <1>1, <1>2, AppendProperties
    <3>2. \A i \in m + 1 .. m + 1 : seen'[i] \in Chars
      BY <1>2, <3>1
    <3>3. /\ SubSeq(seen', m + 1, m + 1) \in Seq(Chars)
          /\ Len(SubSeq(seen', m + 1, m + 1)) = 1
          /\ SubSeq(seen', m + 1, m + 1)[1] = c
      BY <3>1, <3>2, SubSeqProperties
    <3>. QED  BY <3>3, OneElement
  <2>4. <<>> \o <<c>> = <<c>>
    <3>1. <<c>> \in Seq(Chars)
      BY <1>2
    <3>. QED  BY <3>1, ConcatEmptySeq
  <2>5. Term' = SubSeq(seen', start' + 1, Len(seen'))
    BY <1>2, <2>1, <2>2, <2>3, <2>4 DEF Term
  <2>6. termBegin' \in 0 .. pos' + 1 /\ start' \in 0 .. Len(seen') /\ termBegin' # 0
    BY <1>2, <2>1
  <2>7. termBuf' \in Seq(Chars) /\ termType' \in {"op", "value", "str"}
    BY <2>1, EmptySeq
  <2>. QED  BY <2>5, <2>6, <2>7 DEF TermOK
<1>. QED  BY <1>3, <1>4, <1>5, <1>6 DEF TermStep

(* What of a term is in the chunk is saved before the next one.            *)
LEMMA RefillKeepsTerm ==
    ASSUME ReaderOK, TermOK, Available = <<>>, SaveTerm, pos' = 0,
           termBegin' = IF termBegin = 0 THEN 0 ELSE 1,
           UNCHANGED <<seen, readError, termType, start>>
    PROVE  TermOK'
<1>1. pos = Len(chunk) /\ chunk \in Seq(Chars)
  BY NothingAvailable DEF ReaderOK, ReaderTypeOK
<1>2. CASE termBegin = 0
  BY <1>2 DEF SaveTerm, TermOK
<1>3. CASE termBegin # 0
  <2>1. termBuf' = Term
    BY <1>1, <1>3 DEF SaveTerm, Term
  <2>2. termBuf' \in Seq(Chars)
    BY <1>3, <2>1, TermIsSeq
  <2>3. SubSeq(chunk', 1, 0) = <<>>
    BY SubSeqEmpty
  <2>4. Term' = termBuf'
    BY <1>3, <2>2, <2>3, ConcatEmptySeq DEF Term
  <2>5. Term = SubSeq(seen, start + 1, Len(seen))
    BY <1>3 DEF TermOK
  <2>. QED  BY <1>3, <2>1, <2>2, <2>4, <2>5 DEF TermOK
<1>. QED  BY <1>2, <1>3

-----------------------------------------------------------------------------
(* Frames.                                                                 *)

(* An empty program needs no frame.                                        *)
LEMMA NestedNothing == Nested(<<>>, 0)
<1>1. Len(<<>>) = 0
  OBVIOUS
<1>. DEFINE g == [j \in 0 .. 0 |-> 0]
<1>2. g \in [0 .. 0 -> Nat] /\ g[0] <= 0
  OBVIOUS
<1>3. Follows(g, <<>>)
  BY <1>1 DEF Follows
<1>. QED  BY <1>1, <1>2, <1>3 DEF Nested

(* One more instruction.                                                   *)
LEMMA NestedAppend ==
    ASSUME NEW c \in Seq(Instructions), NEW x \in Instructions,
           NEW d \in Nat, NEW e \in Nat, Nested(c, d),
           x.kind = "call" => d + 1 <= e,
           x.kind = "barrier" => d <= e + 1,
           x.kind \notin {"call", "barrier"} => d <= e
    PROVE  Nested(Append(c, x), e)
<1>1. PICK n \in Nat : n = Len(c)
  BY LenProperties
<1>2. PICK g \in [0 .. n -> Nat] : Follows(g, c) /\ g[n] <= d
  BY <1>1 DEF Nested
<1>3. PICK b \in Seq(Instructions) : b = Append(c, x)
  BY AppendProperties
<1>4. Len(b) = n + 1 /\ b[n + 1] = x /\ \A i \in 1 .. n : b[i] = c[i]
  BY <1>1, <1>3, AppendProperties
<1>. DEFINE h == [j \in 0 .. n + 1 |-> IF j = n + 1 THEN e ELSE g[j]]
<1>5. h \in [0 .. n + 1 -> Nat] /\ h[n + 1] = e
  <2>1. \A j \in 0 .. n + 1 : j # n + 1 => j \in 0 .. n
    OBVIOUS
  <2>. QED  BY <1>2, <2>1
<1>6. \A j \in 0 .. n : h[j] = g[j]
  OBVIOUS
<1>. HIDE DEF h
<1>7. ASSUME NEW j \in 1 .. n + 1
      PROVE  /\ b[j].kind = "call" => h[j - 1] + 1 <= h[j]
             /\ b[j].kind = "barrier" => h[j - 1] <= h[j] + 1
             /\ b[j].kind \notin {"call", "barrier"} => h[j - 1] <= h[j]
  <2>1. CASE j = n + 1
    <3>1. j - 1 = n /\ n \in 0 .. n
      BY <2>1
    <3>2. h[j - 1] = g[n] /\ h[j] = e /\ g[n] \in Nat /\ g[n] <= d
      BY <1>2, <1>5, <1>6, <2>1, <3>1
    <3>. QED  BY <1>4, <2>1, <3>2
  <2>2. CASE j # n + 1
    <3>1. j \in 1 .. n /\ j \in 0 .. n /\ j - 1 \in 0 .. n
      BY <2>2
    <3>. QED  BY <1>1, <1>2, <1>4, <1>6, <3>1 DEF Follows
  <2>. QED  BY <2>1, <2>2
<1>8. Follows(h, b)
  BY <1>4, <1>7 DEF Follows
<1>9. e <= e
  OBVIOUS
<1>10. Nested(b, e)
  BY <1>4, <1>5, <1>8, <1>9 DEF Nested
<1>. QED  BY <1>3, <1>10

(* What a term adds to the program, and the frames it needs.               *)
LEMMA EmitsNested ==
    ASSUME ReaderOK, TermOK, StateOK, NEW d \in Nat, Nested(code, d)
    PROVE  /\ code \o FinalizeEmits \in Seq(Instructions)
           /\ Len(code \o FinalizeEmits) >= Len(code)
           /\ \E e \in Nat : e <= d + Pending /\ Nested(code \o FinalizeEmits, e)
<1>0. code \in Seq(Instructions) /\ Len(code) \in Nat
  BY LenProperties DEF StateOK
<1>1. CASE FinalizeEmits = <<>>
  <2>1. code \o FinalizeEmits = code
    BY <1>0, <1>1, ConcatEmptySeq
  <2>. QED  BY <1>0, <2>1 DEF Pending
<1>2. ASSUME NEW x \in Instructions, FinalizeEmits = <<x>>,
             x.kind # "barrier", x.kind = "call" => Pending = 1
      PROVE  /\ code \o FinalizeEmits \in Seq(Instructions)
             /\ Len(code \o FinalizeEmits) >= Len(code)
             /\ \E e \in Nat : e <= d + Pending /\ Nested(code \o FinalizeEmits, e)
  <2>1. code \o FinalizeEmits = Append(code, x)
    BY <1>0, <1>2, AppendIsConcat
  <2>2. Append(code, x) \in Seq(Instructions) /\ Len(Append(code, x)) = Len(code) + 1
    BY <1>0, AppendProperties
  <2>3. Pending \in {0, 1}
    BY DEF Pending
  <2>4. d + Pending \in Nat /\ d + Pending <= d + Pending
    BY <2>3
  <2>5. /\ x.kind = "call" => d + 1 <= d + Pending
        /\ x.kind # "call" => d <= d + Pending
    BY <1>2, <2>3
  <2>6. Nested(Append(code, x), d + Pending)
    BY <1>0, <1>2, <2>4, <2>5, NestedAppend
  <2>. QED  BY <1>0, <2>1, <2>2, <2>4, <2>6
<1>3. CASE termBegin # 0 /\ termType = "str"
  <2>1. LexerParseString(Term, wasEscaped) \in Seq(Chars)
    BY <1>3, TermIsSeq, ParsedIsText DEF StateOK
  <2>2. PICK x \in Instructions : x = LexerStrValue(LexerParseString(Term, wasEscaped))
                                  /\ x.kind = "str"
    BY <2>1, CallIsInstruction
  <2>3. FinalizeEmits = <<x>>
    BY <1>3, <2>2 DEF FinalizeEmits
  <2>. QED  BY <1>2, <2>2, <2>3
<1>4. CASE termBegin # 0 /\ termType = "op" /\ Term # <<>>
  <2>1. Term \in Seq(Chars)
    BY <1>4, TermIsSeq
  <2>2. PICK x \in Instructions : x = LexerBeginOp(Term) /\ x.kind = "call"
    BY <2>1, CallIsInstruction
  <2>3. FinalizeEmits = <<x>> /\ Pending = 1
    BY <1>4, <2>2 DEF FinalizeEmits, Pending
  <2>. QED  BY <1>2, <2>2, <2>3
<1>5. CASE termBegin # 0 /\ termType = "value" /\ Term # <<>>
  <2>1. Term \in Seq(Chars)
    BY <1>5, TermIsSeq
  <2>2. PICK x \in Instructions : x = ValueOf(Term) /\ x.kind \in {"num", "str", "field"}
    BY <1>5, <2>1, ValueIsInstruction
  <2>3. FinalizeEmits = <<x>>
    BY <1>5, <2>2 DEF FinalizeEmits
  <2>. QED  BY <1>2, <2>2, <2>3
<1>6. CASE termBegin = 0 \/ (termType # "str" /\ Term = <<>>)
  BY <1>1, <1>6 DEF FinalizeEmits
<1>. QED  BY <1>3, <1>4, <1>5, <1>6 DEF TermOK

-----------------------------------------------------------------------------
(* The steps of the lexer.                                                 *)

(* Where Run goes: on, to the end of the expression, or to a syntax error. *)
Goes ==
    \/ pc' \in Reading /\ reply' = reply
    \/ pc' = "built" /\ reply' = reply /\ depth' = 0
    \/ Fail

(* A step of the lexer leaves the writer and the program alone.            *)
LEMMA LexerKeepsWriter ==
    ASSUME WriterOK, pc \in Reading, Goes, UNCHANGED <<writerVars, said>>
    PROVE  WriterOK'
<1>. USE DEF writerVars
<1>1. pieces = <<>>
  BY DEF WriterOK, Reading
<1>2. RepliesDelivered' /\ WriterTypeOK(ReplyChars)'
  BY DEF WriterOK, RepliesDelivered, WriterTypeOK
<1>3. pc' = "reply" => reply' \in Replies
  BY DEF Goes, Fail, Replies, Reading
<1>. QED  BY <1>1, <1>2, <1>3 DEF WriterOK

(* The end of the input, or a zero.                                        *)
LEMMA EndOfInputGoes ==
    ASSUME EndOfInput, depth' = depth
    PROVE  Goes
BY DEF EndOfInput, Goes, Reading

(* A step that adds nothing to the program.                                *)
LEMMA QuietKeepsFrames ==
    ASSUME FramesOK, StateOK, pc \in Reading, Goes, UNCHANGED <<code, depth>>,
           termBegin' = 0 \/ termType' # "op" \/ UNCHANGED <<termBegin, termType>>
    PROVE  FramesOK'
<1>1. PICK d \in Nat : Nested(code, d) /\ d + Pending <= depth
  BY DEF FramesOK
<1>2. Pending \in {0, 1} /\ Pending' \in {0, 1} /\ Pending' <= Pending
  BY DEF Pending
<1>3. d + Pending' <= depth'
  <2>1. PICK p \in Nat, q \in Nat : p = Pending /\ q = Pending'
    BY <1>2
  <2>2. PICK m \in Nat : m = depth /\ m = depth' /\ d + p <= m
    BY <1>1, <2>1 DEF StateOK
  <2>3. q <= p
    BY <1>2, <2>1
  <2>4. d + q <= m
    BY <2>2, <2>3
  <2>. QED  BY <2>1, <2>2, <2>4
<1>4. Nested(code', d)
  BY <1>1
<1>5. pc' = "built" => depth' = 0
  BY DEF Goes, Fail, Reading
<1>6. pc' # "exec"
  BY DEF Goes, Fail, Reading
<1>. QED  BY <1>3, <1>4, <1>5, <1>6 DEF FramesOK

(* What is left to show of a step that reads a character.                  *)
LEMMA CharKeeps ==
    ASSUME EndpointIInv, pc \in Reading, ReadAvailableChar, TermStep, Goes,
           escaped' \in BOOLEAN, wasEscaped' \in BOOLEAN,
           tokenSize' \in 0 .. 4, first' = first, depth' \in Nat,
           code' \in Seq(Instructions), Len(code') >= Len(code), FramesOK',
           UNCHANGED <<programVars, writerVars, said>>
    PROVE  EndpointIInv'
<1>1. ReaderOK' /\ TermOK'
  BY CharKeepsReader, CharKeepsTerm DEF EndpointIInv
<1>2. Len(seen) \in Nat /\ Len(seen') = Len(seen) + 1
  BY CharKeepsReader DEF EndpointIInv
<1>3. StateOK'
  BY <1>2 DEF EndpointIInv, StateOK, Goes, Fail
<1>4. ProgramTypeOK'
  <2>1. Len(code) \in Nat /\ Len(code') \in Nat
    BY LenProperties DEF EndpointIInv, StateOK
  <2>2. ip' \in 1 .. Len(code') + 1
    BY <2>1 DEF EndpointIInv, ProgramTypeOK, programVars
  <2>. QED  BY <2>2 DEF EndpointIInv, ProgramTypeOK, programVars
<1>5. WriterOK'
  BY LexerKeepsWriter DEF EndpointIInv
<1>. QED  BY <1>1, <1>3, <1>4, <1>5 DEF EndpointIInv

(* A step that reads a character and adds nothing to the program.          *)
LEMMA QuietCharKeeps ==
    ASSUME EndpointIInv, pc \in Reading, ReadAvailableChar, Goes,
           UNCHANGED <<termType, termBegin, termBuf, start, first, depth, code>>,
           escaped' \in BOOLEAN, wasEscaped' \in BOOLEAN, tokenSize' \in 0 .. 4,
           UNCHANGED <<programVars, writerVars, said>>
    PROVE  EndpointIInv'
<1>1. FramesOK'
  BY QuietKeepsFrames DEF EndpointIInv
<1>2. TermStep
  BY DEF TermStep
<1>3. depth' \in Nat /\ code' \in Seq(Instructions) /\ Len(code') >= Len(code)
  <2>1. Len(code) \in Nat
    BY LenProperties DEF EndpointIInv, StateOK
  <2>. QED  BY <2>1 DEF EndpointIInv, StateOK
<1>. QED  BY <1>1, <1>2, <1>3, CharKeeps

(* A term that is over adds to the program.                                *)
LEMMA EmitKeeps ==
    ASSUME EndpointIInv, pc \in Reading, ReadAvailableChar, TermStep,
           code' = code \o FinalizeEmits, NEW p \in Nat, p = Pending',
           depth' \in Nat, depth + p <= depth', UNCHANGED <<pc, reply, first>>,
           escaped' \in BOOLEAN, wasEscaped' \in BOOLEAN, tokenSize' \in 0 .. 4,
           UNCHANGED <<programVars, writerVars, said>>
    PROVE  EndpointIInv'
<1>1. PICK d \in Nat : Nested(code, d) /\ d + Pending <= depth
  BY DEF EndpointIInv, FramesOK
<1>2. /\ code' \in Seq(Instructions) /\ Len(code') >= Len(code)
      /\ \E e \in Nat : e <= d + Pending /\ Nested(code', e)
  BY <1>1, EmitsNested DEF EndpointIInv
<1>3. PICK e \in Nat : e <= d + Pending /\ Nested(code', e)
  BY <1>2
<1>4. PICK q \in Nat : q = Pending
  BY DEF Pending
<1>5. PICK m \in Nat, k \in Nat : m = depth /\ k = depth'
  BY DEF EndpointIInv, StateOK
<1>6. PICK r \in Nat : r = Pending' /\ depth + r <= depth'
  OBVIOUS
<1>7. e <= d + q
  BY <1>3, <1>4
<1>8. d + q <= m
  BY <1>1, <1>4, <1>5
<1>9. m + r <= k
  BY <1>5, <1>6
<1>10. e + r <= k
  BY <1>7, <1>8, <1>9
<1>11. FramesOK'
  <2>1. pc' # "exec" /\ pc' # "built"
    BY DEF Reading
  <2>2. e + Pending' <= depth'
    BY <1>5, <1>6, <1>10
  <2>. QED  BY <1>3, <2>1, <2>2 DEF FramesOK
<1>12. Goes
  BY DEF Goes
<1>. QED  BY <1>2, <1>11, <1>12, CharKeeps

(* An error of the text.                                                   *)
LEMMA FailHereKeeps ==
    ASSUME EndpointIInv, pc \in Reading, ReadAvailableChar, FailHere,
           escaped' = FALSE, UNCHANGED tokenSize,
           UNCHANGED <<programVars, writerVars, said>>
    PROVE  EndpointIInv'
<1>1. Goes
  BY DEF FailHere, Goes
<1>2. escaped' \in BOOLEAN /\ wasEscaped' \in BOOLEAN /\ tokenSize' \in 0 .. 4
  BY DEF FailHere, EndpointIInv, StateOK
<1>3. UNCHANGED <<termType, termBegin, termBuf, start, first, depth, code>>
  BY DEF FailHere
<1>. QED  BY <1>1, <1>2, <1>3, QuietCharKeeps

(* Run reads a character for its switch.                                   *)
LEMMA SwitchReads ==
    ASSUME EndpointIInv, NEW c, Switch(c)
    PROVE  /\ pc \in Reading /\ ReadAvailableChar
           /\ escaped' = FALSE /\ UNCHANGED tokenSize
           /\ escaped' \in BOOLEAN /\ tokenSize' \in 0 .. 4
           /\ wasEscaped \in BOOLEAN /\ depth \in Nat
BY DEF Switch, Next1, Reading, EndpointIInv, StateOK

(* OpBegin.                                                                *)
LEMMA OpBeginKeeps ==
    ASSUME EndpointIInv, OpBegin, UNCHANGED <<programVars, writerVars, said>>
    PROVE  EndpointIInv'
<1>1. Switch("(")
  BY DEF OpBegin
<1>2. /\ pc \in Reading /\ ReadAvailableChar
      /\ escaped' = FALSE /\ UNCHANGED tokenSize
      /\ escaped' \in BOOLEAN /\ tokenSize' \in 0 .. 4
      /\ wasEscaped \in BOOLEAN /\ depth \in Nat
  BY <1>1, SwitchReads
<1>3. CASE FinalizeFails
  BY <1>2, <1>3, FailHereKeeps DEF OpBegin
<1>4. CASE ~FinalizeFails
  <2>1. /\ code' = code \o FinalizeEmits
        /\ depth' = depth + 1
        /\ StartTerm("op", pos + 2, Len(seen) + 1)
        /\ termBuf' = <<>>
        /\ UNCHANGED <<pc, wasEscaped, reply, first>>
    BY <1>4 DEF OpBegin
  <2>2. TermStep
    BY <2>1 DEF TermStep
  <2>3. pos \in Nat
    BY DEF EndpointIInv, ReaderOK, ReaderTypeOK
  <2>4. 1 = Pending'
    BY <2>1, <2>3 DEF StartTerm, Pending
  <2>5. depth' \in Nat /\ depth + 1 <= depth' /\ 1 \in Nat
    BY <1>2, <2>1
  <2>6. wasEscaped' \in BOOLEAN
    BY <1>2, <2>1
  <2>. QED  BY <1>2, <2>1, <2>2, <2>4, <2>5, <2>6, EmitKeeps
<1>. QED  BY <1>3, <1>4

(* OpEnd.                                                                  *)
LEMMA OpEndKeeps ==
    ASSUME EndpointIInv, OpEnd, UNCHANGED <<programVars, writerVars, said>>
    PROVE  EndpointIInv'
<1>1. Switch(")")
  BY DEF OpEnd
<1>2. /\ pc \in Reading /\ ReadAvailableChar
      /\ escaped' = FALSE /\ UNCHANGED tokenSize
      /\ escaped' \in BOOLEAN /\ tokenSize' \in 0 .. 4
      /\ wasEscaped \in BOOLEAN /\ depth \in Nat
  BY <1>1, SwitchReads
<1>3. CASE FinalizeFails \/ depth = 0
  BY <1>2, <1>3, FailHereKeeps DEF OpEnd
<1>4. CASE ~(FinalizeFails \/ depth = 0)
  <2>1. /\ code' = Append(code \o FinalizeEmits, Barrier)
        /\ depth' = depth - 1
        /\ pc' = IF depth = 1 THEN "built" ELSE "lex"
        /\ FinishTerm
        /\ UNCHANGED <<wasEscaped, reply, first>>
    BY <1>4 DEF OpEnd
  <2>2. PICK d \in Nat : Nested(code, d) /\ d + Pending <= depth
    BY <1>2 DEF EndpointIInv, FramesOK
  <2>3. /\ code \o FinalizeEmits \in Seq(Instructions)
        /\ Len(code \o FinalizeEmits) >= Len(code)
        /\ \E e \in Nat : e <= d + Pending /\ Nested(code \o FinalizeEmits, e)
    BY <2>2, EmitsNested DEF EndpointIInv
  <2>4. PICK c \in Seq(Instructions), e \in Nat :
           c = code \o FinalizeEmits /\ e <= d + Pending /\ Nested(c, e)
    BY <2>3
  <2>5. Barrier \in Instructions /\ Barrier.kind = "barrier"
    BY EmptySeq DEF Barrier, Instruction, Instructions
  <2>6. PICK q \in Nat : q = Pending
    BY DEF Pending
  <2>7. PICK m \in Nat : m = depth - 1 /\ m = depth' /\ depth = m + 1
    BY <1>2, <1>4, <2>1
  <2>8. e <= m + 1
    <3>1. e <= d + q /\ d + q <= m + 1
      BY <2>2, <2>4, <2>6, <2>7
    <3>. QED  BY <3>1
  <2>9. Nested(Append(c, Barrier), m)
    BY <2>4, <2>5, <2>8, NestedAppend
  <2>10. /\ Append(c, Barrier) \in Seq(Instructions)
         /\ Len(Append(c, Barrier)) = Len(c) + 1
    BY <2>5, AppendProperties
  <2>11. code' \in Seq(Instructions) /\ Len(code') >= Len(code)
    <3>1. Len(code) \in Nat /\ Len(c) \in Nat /\ Len(c) >= Len(code)
      BY <2>3, <2>4, LenProperties DEF EndpointIInv, StateOK
    <3>. QED  BY <2>1, <2>4, <2>10, <3>1
  <2>12. FramesOK'
    <3>1. Pending' = 0
      BY <2>1 DEF FinishTerm, Pending
    <3>2. m + Pending' <= depth'
      <4>1. m + 0 <= m
        OBVIOUS
      <4>. QED  BY <2>7, <3>1, <4>1
    <3>3. Nested(code', m)
      BY <2>1, <2>4, <2>9
    <3>4. pc' = "built" => depth' = 0
      BY <1>2, <2>1
    <3>5. pc' # "exec"
      BY <2>1
    <3>. QED  BY <3>2, <3>3, <3>4, <3>5 DEF FramesOK
  <2>13. Goes
    BY <1>2, <2>1 DEF Goes, Reading
  <2>14. TermStep
    BY <2>1 DEF TermStep
  <2>15. depth' \in Nat /\ wasEscaped' \in BOOLEAN /\ first' = first
    BY <1>2, <2>1, <2>7
  <2>. QED  BY <1>2, <2>11, <2>12, <2>13, <2>14, <2>15, CharKeeps
<1>. QED  BY <1>3, <1>4

(* QuoteChar.                                                              *)
LEMMA QuoteCharKeeps ==
    ASSUME EndpointIInv, QuoteChar, UNCHANGED <<programVars, writerVars, said>>
    PROVE  EndpointIInv'
<1>1. Switch("quote")
  BY DEF QuoteChar
<1>2. /\ pc \in Reading /\ ReadAvailableChar
      /\ escaped' = FALSE /\ UNCHANGED tokenSize
      /\ escaped' \in BOOLEAN /\ tokenSize' \in 0 .. 4
      /\ wasEscaped \in BOOLEAN /\ depth \in Nat
  BY <1>1, SwitchReads
<1>3. CASE FinalizeFails
  BY <1>2, <1>3, FailHereKeeps DEF QuoteChar
<1>4. CASE ~FinalizeFails
  <2>1. /\ code' = code \o FinalizeEmits
        /\ UNCHANGED <<pc, depth, reply, first>>
        /\ \/ FinishTerm /\ wasEscaped' = FALSE
           \/ /\ StartTerm("str", pos + 2, Len(seen) + 1)
              /\ termBuf' = <<>> /\ wasEscaped' = wasEscaped
    BY <1>4 DEF QuoteChar
  <2>2. TermStep
    BY <2>1 DEF TermStep
  <2>3. 0 = Pending'
    BY <2>1 DEF StartTerm, FinishTerm, Pending
  <2>4. depth' \in Nat /\ depth + 0 <= depth' /\ 0 \in Nat
    BY <1>2, <2>1
  <2>5. wasEscaped' \in BOOLEAN
    BY <1>2, <2>1
  <2>. QED  BY <1>2, <2>1, <2>2, <2>3, <2>4, <2>5, EmitKeeps
<1>. QED  BY <1>3, <1>4

(* WhiteSpace.                                                             *)
LEMMA WhiteSpaceKeeps ==
    ASSUME EndpointIInv, NEW c, WhiteSpace(c),
           UNCHANGED <<programVars, writerVars, said>>
    PROVE  EndpointIInv'
<1>1. Switch(c)
  BY DEF WhiteSpace
<1>2. /\ pc \in Reading /\ ReadAvailableChar
      /\ escaped' = FALSE /\ UNCHANGED tokenSize
      /\ escaped' \in BOOLEAN /\ tokenSize' \in 0 .. 4
      /\ wasEscaped \in BOOLEAN /\ depth \in Nat
  BY <1>1, SwitchReads
<1>3. CASE FinalizeFails
  BY <1>2, <1>3, FailHereKeeps DEF WhiteSpace
<1>4. CASE ~FinalizeFails
  <2>1. /\ code' = code \o FinalizeEmits /\ FinishTerm
        /\ UNCHANGED <<pc, depth, wasEscaped, reply, first>>
    BY <1>4 DEF WhiteSpace
  <2>2. TermStep
    BY <2>1 DEF TermStep
  <2>3. 0 = Pending'
    BY <2>1 DEF FinishTerm, Pending
  <2>4. depth' \in Nat /\ depth + 0 <= depth' /\ 0 \in Nat
    BY <1>2, <2>1
  <2>5. wasEscaped' \in BOOLEAN
    BY <1>2, <2>1
  <2>. QED  BY <1>2, <2>1, <2>2, <2>3, <2>4, <2>5, EmitKeeps
<1>. QED  BY <1>3, <1>4

(* TermChar.                                                               *)
LEMMA TermCharKeeps ==
    ASSUME EndpointIInv, NEW c, TermChar(c),
           UNCHANGED <<programVars, writerVars, said>>
    PROVE  EndpointIInv'
<1>1. Switch(c) /\ UNCHANGED <<pc, depth, termBuf, wasEscaped, code, reply, first>>
  BY DEF TermChar
<1>2. /\ pc \in Reading /\ ReadAvailableChar
      /\ escaped' \in BOOLEAN /\ tokenSize' \in 0 .. 4
      /\ wasEscaped \in BOOLEAN /\ depth \in Nat
  BY <1>1, SwitchReads
<1>3. Goes
  BY <1>1, <1>2 DEF Goes
<1>4. CASE termBegin = 0
  <2>1. StartTerm("value", pos + 1, Len(seen))
    BY <1>4 DEF TermChar
  <2>2. TermStep
    BY <1>1, <1>4, <2>1 DEF TermStep
  <2>3. termType' # "op"
    BY <2>1 DEF StartTerm
  <2>4. FramesOK'
    BY <1>1, <1>2, <1>3, <2>3, QuietKeepsFrames DEF EndpointIInv
  <2>5. depth' \in Nat /\ code' \in Seq(Instructions) /\ Len(code') >= Len(code)
    <3>1. Len(code) \in Nat
      BY LenProperties DEF EndpointIInv, StateOK
    <3>. QED  BY <1>1, <3>1 DEF EndpointIInv, StateOK
  <2>. QED  BY <1>1, <1>2, <1>3, <2>2, <2>4, <2>5, CharKeeps
<1>5. CASE termBegin # 0
  <2>1. UNCHANGED <<termType, termBegin, termBuf, start, first, depth, code>>
    BY <1>1, <1>5 DEF TermChar
  <2>2. wasEscaped' \in BOOLEAN
    BY <1>1, <1>2
  <2>. QED  BY <1>2, <1>3, <2>1, <2>2, QuietCharKeeps
<1>. QED  BY <1>4, <1>5

(* The steps that read a character and leave term and program alone.       *)
LEMMA QuietStepsKeep ==
    ASSUME EndpointIInv, UNCHANGED <<programVars, writerVars, said>>,
           \/ ReadNul \/ CommentBegin \/ PayloadBegin
           \/ \E c \in Chars : \/ StringChar(c) \/ CommentChar(c)
                              \/ PayloadTag(c) \/ PayloadClose(c)
    PROVE  EndpointIInv'
<1>0. escaped \in BOOLEAN /\ wasEscaped \in BOOLEAN /\ tokenSize \in 0 .. 4
  BY DEF EndpointIInv, StateOK
<1>1. CASE ReadNul
  <2>1. /\ ReadAvailableChar /\ EndOfInput
        /\ UNCHANGED <<depth, termType, termBegin, termBuf, escaped, wasEscaped,
                       tokenSize, code, first, start>>
    BY <1>1 DEF ReadNul, stateVars
  <2>2. pc \in Reading
    BY <2>1 DEF EndOfInput, Reading
  <2>3. Goes
    BY <2>1, EndOfInputGoes
  <2>. QED  BY <1>0, <2>1, <2>2, <2>3, QuietCharKeeps
<1>2. CASE CommentBegin
  <2>1. Switch(";") /\ pc' = "comment"
        /\ UNCHANGED <<depth, termType, termBegin, termBuf, wasEscaped, code,
                       reply, first, start>>
    BY <1>2 DEF CommentBegin
  <2>2. Goes
    BY <2>1 DEF Goes, Reading
  <2>3. /\ pc \in Reading /\ ReadAvailableChar
        /\ escaped' \in BOOLEAN /\ tokenSize' \in 0 .. 4
    BY <2>1, SwitchReads
  <2>. QED  BY <1>0, <2>1, <2>2, <2>3, QuietCharKeeps
<1>3. CASE PayloadBegin
  <2>1. /\ pc \in Reading /\ ReadAvailableChar /\ pc' = "tag" /\ reply' = reply
        /\ escaped' = FALSE /\ tokenSize' = 0
        /\ UNCHANGED <<depth, termType, termBegin, termBuf, wasEscaped, code,
                       first, start>>
    BY <1>3 DEF PayloadBegin, Next1, Reading
  <2>2. Goes
    BY <2>1 DEF Goes, Reading
  <2>3. escaped' \in BOOLEAN
    BY <2>1
  <2>4. wasEscaped' \in BOOLEAN
    BY <1>0, <2>1
  <2>5. tokenSize' \in 0 .. 4
    BY <2>1
  <2>. QED  BY <2>1, <2>2, <2>3, <2>4, <2>5, QuietCharKeeps
<1>4. ASSUME NEW c \in Chars, StringChar(c) PROVE EndpointIInv'
  <2>1. /\ pc \in Reading /\ ReadAvailableChar
        /\ escaped' \in BOOLEAN /\ wasEscaped' \in BOOLEAN
        /\ UNCHANGED <<pc, depth, termType, termBegin, termBuf, tokenSize, code,
                       reply, first, start>>
    BY <1>4 DEF StringChar, Next1, Reading
  <2>2. Goes
    BY <2>1 DEF Goes
  <2>. QED  BY <1>0, <2>1, <2>2, QuietCharKeeps
<1>5. ASSUME NEW c \in Chars, CommentChar(c) PROVE EndpointIInv'
  <2>1. /\ pc \in Reading /\ ReadAvailableChar /\ pc' \in Reading /\ reply' = reply
        /\ UNCHANGED <<depth, termType, termBegin, termBuf, escaped, wasEscaped,
                       tokenSize, code, first, start>>
    BY <1>5 DEF CommentChar, Next1, Reading, stateVars
  <2>2. Goes
    BY <2>1 DEF Goes
  <2>. QED  BY <1>0, <2>1, <2>2, QuietCharKeeps
<1>6. ASSUME NEW c \in Chars, PayloadTag(c) PROVE EndpointIInv'
  <2>1. /\ pc \in Reading /\ ReadAvailableChar
        /\ UNCHANGED <<depth, termType, termBegin, termBuf, escaped, wasEscaped,
                       code, first, start>>
    BY <1>6 DEF PayloadTag, Next1, Reading
  <2>2. Goes
    BY <1>6, <2>1 DEF PayloadTag, Goes, Reading
  <2>3. tokenSize' \in 0 .. 4
    BY <1>0, <1>6 DEF PayloadTag
  <2>. QED  BY <1>0, <2>1, <2>2, <2>3, QuietCharKeeps
<1>7. ASSUME NEW c \in Chars, PayloadClose(c) PROVE EndpointIInv'
  <2>1. /\ pc \in Reading /\ ReadAvailableChar /\ Fail
        /\ UNCHANGED <<depth, termType, termBegin, termBuf, escaped, wasEscaped,
                       tokenSize, code, first, start>>
    BY <1>7 DEF PayloadClose, LexerCustomData, Next1, Reading, stateVars
  <2>2. Goes
    BY <2>1 DEF Goes
  <2>. QED  BY <1>0, <2>1, <2>2, QuietCharKeeps
<1>. QED  BY <1>1, <1>2, <1>3, <1>4, <1>5, <1>6, <1>7

(* A step that reads no character keeps what is not of the reader.         *)
LEMMA RefillKeepsRest ==
    ASSUME EndpointIInv, pc \in Reading, Goes, seen' = seen,
           UNCHANGED <<depth, termType, escaped, wasEscaped, tokenSize, code,
                       first, start>>,
           termBegin' = 0 \/ (termBegin # 0 /\ termBegin' # 0),
           UNCHANGED <<programVars, writerVars, said>>
    PROVE  StateOK' /\ ProgramTypeOK' /\ FramesOK' /\ WriterOK'
<1>1. StateOK'
  BY DEF EndpointIInv, StateOK, Goes, Fail
<1>2. ProgramTypeOK'
  BY DEF EndpointIInv, ProgramTypeOK, programVars
<1>3. WriterOK'
  BY LexerKeepsWriter DEF EndpointIInv
<1>4. FramesOK'
  <2>1. PICK d \in Nat : Nested(code, d) /\ d + Pending <= depth
    BY DEF EndpointIInv, FramesOK
  <2>2. PICK q \in Nat, r \in Nat : q = Pending /\ r = Pending'
    BY DEF Pending
  <2>3. r <= q
    BY <2>2 DEF Pending
  <2>4. PICK m \in Nat : m = depth /\ m = depth'
    BY DEF EndpointIInv, StateOK
  <2>5. d + q <= m
    BY <2>1, <2>2, <2>4
  <2>6. d + r <= m
    BY <2>3, <2>5
  <2>7. d + Pending' <= depth'
    BY <2>2, <2>4, <2>6
  <2>8. Nested(code', d)
    BY <2>1
  <2>9. pc' # "exec" /\ (pc' = "built" => depth' = 0)
    BY DEF Goes, Fail, Reading
  <2>. QED  BY <2>7, <2>8, <2>9 DEF FramesOK
<1>. QED  BY <1>1, <1>2, <1>3, <1>4

(* RefillBuffer.                                                           *)
LEMMA RefillBufferKeeps ==
    ASSUME EndpointIInv, NEW n \in 1 .. BufSize, RefillBuffer(n),
           UNCHANGED <<programVars, writerVars, said>>
    PROVE  EndpointIInv'
<1>1. /\ pc \in Reading /\ Available = <<>> /\ SaveTerm /\ RefillAvailable(n)
      /\ termBegin' = IF termBegin = 0 THEN 0 ELSE 1
      /\ UNCHANGED <<pc, depth, termType, escaped, wasEscaped, tokenSize, code,
                     reply, first, start>>
  BY DEF RefillBuffer
<1>2. n \in Nat
  BY ReaderAssumption
<1>3. ReaderOK'
  BY <1>1, <1>2, RefillKeepsReader DEF EndpointIInv
<1>4. pos' = 0 /\ UNCHANGED <<seen, readError>>
  BY <1>1 DEF RefillAvailable, DoRead
<1>5. TermOK'
  BY <1>1, <1>4, RefillKeepsTerm DEF EndpointIInv
<1>6. Goes
  BY <1>1 DEF Goes
<1>7. StateOK' /\ ProgramTypeOK' /\ FramesOK' /\ WriterOK'
  BY <1>1, <1>4, <1>6, RefillKeepsRest
<1>. QED  BY <1>3, <1>5, <1>7 DEF EndpointIInv

(* RefillBufferFails.                                                      *)
LEMMA RefillBufferFailsKeeps ==
    ASSUME EndpointIInv, RefillBufferFails,
           UNCHANGED <<programVars, writerVars, said>>
    PROVE  EndpointIInv'
<1>1. /\ pc \in Reading /\ Available = <<>> /\ SaveTerm /\ RefillFails
      /\ termBegin' = 0 /\ EndOfInput
      /\ UNCHANGED <<depth, termType, escaped, wasEscaped, tokenSize, code,
                     first, start>>
  BY DEF RefillBufferFails
<1>2. ReaderOK' /\ pos' = pos
  BY <1>1, RefillFailsKeepsReader DEF EndpointIInv
<1>3. UNCHANGED seen /\ readError' = TRUE
  BY <1>1 DEF RefillFails
<1>4. termBuf' \in Seq(Chars)
  <2>1. pos = Len(chunk)
    BY <1>1, NothingAvailable DEF EndpointIInv, ReaderOK
  <2>2. termBegin # 0 => termBuf' = Term
    BY <1>1, <2>1 DEF SaveTerm, Term
  <2>3. termBegin # 0 => Term \in Seq(Chars)
    BY TermIsSeq DEF EndpointIInv
  <2>4. termBegin = 0 => termBuf' = termBuf
    BY <1>1 DEF SaveTerm
  <2>. QED  BY <2>2, <2>3, <2>4 DEF EndpointIInv, TermOK
<1>5. TermOK'
  BY <1>1, <1>2, <1>3, <1>4 DEF EndpointIInv, TermOK, ReaderOK, ReaderTypeOK
<1>6. Goes
  BY <1>1, EndOfInputGoes
<1>7. StateOK' /\ ProgramTypeOK' /\ FramesOK' /\ WriterOK'
  BY <1>1, <1>3, <1>6, RefillKeepsRest
<1>. QED  BY <1>2, <1>5, <1>7 DEF EndpointIInv

(* All steps of the lexer.                                                 *)
LEMMA LexerStepKeeps ==
    ASSUME EndpointIInv, LexerStep, UNCHANGED <<programVars, writerVars, said>>
    PROVE  EndpointIInv'
BY RefillBufferKeeps, RefillBufferFailsKeeps, QuietStepsKeep, OpBeginKeeps,
   OpEndKeeps, QuoteCharKeeps, WhiteSpaceKeeps, TermCharKeeps DEF LexerStep

-----------------------------------------------------------------------------
(* The steps of the program.                                               *)

(* The barriers of a stack can be counted.                                 *)
LEMMA BarriersAreFinite ==
    ASSUME NEW s \in Seq(Instructions)
    PROVE  IsFiniteSet(Barriers(s)) /\ Cardinality(Barriers(s)) \in Nat
<1>1. PICK n \in Nat : n = Len(s)
  BY LenProperties
<1>2. IsFiniteSet(1 .. n)
  BY FS_Interval
<1>3. Barriers(s) \subseteq 1 .. n
  BY <1>1 DEF Barriers
<1>4. IsFiniteSet(Barriers(s))
  BY <1>2, <1>3, FS_Subset
<1>. QED  BY <1>4, FS_CardinalityType

(* The topmost barrier, when there is one.                                 *)
LEMMA TopBarrierIs ==
    ASSUME NEW s \in Seq(Instructions), Barriers(s) # {}
    PROVE  TopBarrier(s) \in Barriers(s) /\ \A j \in Barriers(s) : j <= TopBarrier(s)
<1>1. PICK n \in Nat : n = Len(s)
  BY LenProperties
<1>2. Barriers(s) \subseteq 1 .. n
  BY <1>1 DEF Barriers
<1>3. \E k \in Barriers(s) : \A j \in Barriers(s) : j <= k
  BY <1>2, GreatestOne
<1>4. TopBarrier(s) = CHOOSE i \in Barriers(s) : \A j \in Barriers(s) : j <= i
  BY DEF TopBarrier, Barriers
<1>. QED  BY <1>3, <1>4

(* It is an index of the stack or zero, and nothing above it is a barrier. *)
LEMMA TopBarrierBounds ==
    ASSUME NEW s \in Seq(Instructions)
    PROVE  /\ TopBarrier(s) \in 0 .. Len(s)
           /\ \A i \in TopBarrier(s) + 1 .. Len(s) : s[i].kind # "barrier"
           /\ TopBarrier(s) = 0 <=> Barriers(s) = {}
<1>1. PICK n \in Nat : n = Len(s)
  BY LenProperties
<1>2. CASE Barriers(s) = {}
  <2>1. TopBarrier(s) = 0
    BY <1>2 DEF TopBarrier, Barriers
  <2>2. \A i \in 1 .. n : s[i].kind # "barrier"
    BY <1>1, <1>2 DEF Barriers
  <2>. QED  BY <1>1, <1>2, <2>1, <2>2
<1>3. CASE Barriers(s) # {}
  <2>1. TopBarrier(s) \in Barriers(s) /\ \A j \in Barriers(s) : j <= TopBarrier(s)
    BY <1>3, TopBarrierIs
  <2>2. PICK top \in 1 .. n : top = TopBarrier(s)
    BY <1>1, <2>1 DEF Barriers
  <2>3. ASSUME NEW i \in top + 1 .. n, s[i].kind = "barrier" PROVE FALSE
    <3>1. i \in 1 .. Len(s) /\ ~(i <= top)
      BY <1>1
    <3>2. i \in Barriers(s)
      BY <2>3, <3>1 DEF Barriers
    <3>. QED  BY <2>1, <2>2, <3>1, <3>2
  <2>. QED  BY <1>1, <1>3, <2>2, <2>3
<1>. QED  BY <1>2, <1>3

(* A call gets what is above the barrier.                                  *)
LEMMA CallArgsAre ==
    ASSUME NEW s \in Seq(Instructions)
    PROVE  /\ CallArgs(s) \in Seq(Instructions)
           /\ \A i \in 1 .. Len(CallArgs(s)) :
                 /\ CallArgs(s)[i].kind # "barrier"
                 /\ \E j \in 1 .. Len(s) : CallArgs(s)[i] = s[j]
<1>1. PICK n \in Nat : n = Len(s)
  BY LenProperties
<1>2. PICK top \in 0 .. n : top = TopBarrier(s) /\ \A i \in top + 1 .. n : s[i].kind # "barrier"
  BY <1>1, TopBarrierBounds
<1>3. \A i \in top + 1 .. n : i \in 1 .. Len(s)
  BY <1>1
<1>4. \A i \in top + 1 .. n : s[i] \in Instructions
  BY <1>3, ElementOfSeq
<1>5. top + 1 \in Int /\ n \in Int
  OBVIOUS
<1>6. PICK args \in Seq(Instructions) :
         /\ args = SubSeq(s, top + 1, n)
         /\ Len(args) = IF top + 1 <= n THEN n - (top + 1) + 1 ELSE 0
         /\ \A i \in 1 .. n - (top + 1) + 1 : args[i] = s[top + 1 + i - 1]
  <2>1. /\ SubSeq(s, top + 1, n) \in Seq(Instructions)
        /\ Len(SubSeq(s, top + 1, n)) = IF top + 1 <= n THEN n - (top + 1) + 1 ELSE 0
        /\ \A i \in 1 .. n - (top + 1) + 1 :
              SubSeq(s, top + 1, n)[i] = s[top + 1 + i - 1]
    BY <1>4, <1>5, SubSeqProperties
  <2>. QED  BY <2>1, Zenon
<1>7. Len(args) = n - top
  BY <1>1, <1>6
<1>8. PICK m \in Nat : m = n - top /\ m = Len(args)
  BY <1>7, LenProperties
<1>9. CallArgs(s) = [i \in 1 .. m |-> args[(m - i) + 1]]
  BY <1>1, <1>2, <1>6, <1>8 DEF CallArgs, Reverse
<1>10. ASSUME NEW i \in 1 .. m
       PROVE  /\ args[(m - i) + 1] \in Instructions
              /\ args[(m - i) + 1].kind # "barrier"
              /\ \E j \in 1 .. Len(s) : args[(m - i) + 1] = s[j]
  <2>1. (m - i) + 1 \in 1 .. m
    OBVIOUS
  <2>2. PICK k \in 1 .. m : k = (m - i) + 1
    BY <2>1
  <2>3. k \in 1 .. n - (top + 1) + 1 /\ top + 1 + k - 1 \in top + 1 .. n
    BY <1>8
  <2>4. args[k] = s[top + 1 + k - 1]
    BY <1>6, <2>3
  <2>. QED  BY <1>2, <1>3, <1>4, <2>2, <2>3, <2>4
<1>11. CallArgs(s) \in Seq(Instructions) /\ Len(CallArgs(s)) = m
  <2>1. \A i \in 1 .. m : args[(m - i) + 1] \in Instructions
    BY <1>10
  <2>. DEFINE e(i) == args[(m - i) + 1]
  <2>. HIDE DEF e
  <2>2. \A i \in 1 .. m : e(i) \in Instructions
    BY <2>1 DEF e
  <2>3. [i \in 1 .. m |-> e(i)] \in Seq(Instructions) /\ Len([i \in 1 .. m |-> e(i)]) = m
    BY <2>2
  <2>. QED  BY <1>9, <2>3 DEF e
<1>. QED  BY <1>9, <1>10, <1>11

(* What a call returns are values and no barriers.                         *)
LEMMA CallOutputIs ==
    ASSUME NEW s \in Seq(Instructions), NEW name,
           \A i \in 1 .. Len(s) : IsValue(s[i])
    PROVE  /\ CallOutput(name, CallArgs(s)) \in Seq(Instructions)
           /\ \A i \in 1 .. Len(CallOutput(name, CallArgs(s))) :
                 /\ IsValue(CallOutput(name, CallArgs(s))[i])
                 /\ CallOutput(name, CallArgs(s))[i].kind # "barrier"
<1>1. CASE name = <<"l">>
  <2>1. PICK args \in Seq(Instructions) :
           /\ args = CallArgs(s)
           /\ \A i \in 1 .. Len(args) :
                 args[i].kind # "barrier" /\ \E j \in 1 .. Len(s) : args[i] = s[j]
    BY CallArgsAre
  <2>2. CallOutput(name, CallArgs(s)) = args
    BY <1>1, <2>1 DEF CallOutput
  <2>. QED  BY <2>1, <2>2
<1>2. CASE name # <<"l">>
  <2>. DEFINE x == Instruction("num", <<Number>>)
  <2>1. x \in Instructions /\ x.kind = "num"
    <3>1. <<Number>> \in Seq(Chars)
      BY ProgramAssumption
    <3>. QED  BY <3>1 DEF Instruction, Instructions
  <2>2. CallOutput(name, CallArgs(s)) = <<x>>
    BY <1>2 DEF CallOutput
  <2>. HIDE DEF x
  <2>3. <<x>> \in Seq(Instructions) /\ Len(<<x>>) = 1 /\ <<x>>[1] = x
    BY <2>1
  <2>. QED  BY <2>1, <2>2, <2>3 DEF IsValue
<1>. QED  BY <1>1, <1>2

(* A call with a barrier under its arguments takes that barrier and leaves *)
(* the others.                                                             *)
LEMMA CallTakesBarrier ==
    ASSUME NEW s \in Seq(Instructions), NEW name,
           \A i \in 1 .. Len(s) : IsValue(s[i]), Barriers(s) # {},
           NEW t, t = PurgeStackFrame(s) \o CallOutput(name, CallArgs(s))
    PROVE  /\ t \in Seq(Instructions)
           /\ \A i \in 1 .. Len(t) : IsValue(t[i])
           /\ Cardinality(Barriers(t)) = Cardinality(Barriers(s)) - 1
<1>1. PICK n \in Nat : n = Len(s)
  BY LenProperties
<1>2. TopBarrier(s) \in Barriers(s) /\ \A j \in Barriers(s) : j <= TopBarrier(s)
  BY TopBarrierIs
<1>3. PICK top \in 1 .. n : top = TopBarrier(s)
  BY <1>1, <1>2 DEF Barriers
<1>4. PurgeStackFrame(s) = SubSeq(s, 1, top - 1)
  BY <1>3 DEF PurgeStackFrame
<1>5. \A i \in 1 .. top - 1 : s[i] \in Instructions
  <2>1. \A i \in 1 .. top - 1 : i \in 1 .. Len(s)
    BY <1>1
  <2>. QED  BY <2>1, ElementOfSeq
<1>6. 1 \in Int /\ top - 1 \in Int
  OBVIOUS
<1>7. PICK a \in Seq(Instructions) :
         /\ a = SubSeq(s, 1, top - 1)
         /\ Len(a) = IF 1 <= top - 1 THEN (top - 1) - 1 + 1 ELSE 0
         /\ \A i \in 1 .. (top - 1) - 1 + 1 : a[i] = s[1 + i - 1]
  <2>1. /\ SubSeq(s, 1, top - 1) \in Seq(Instructions)
        /\ Len(SubSeq(s, 1, top - 1)) = IF 1 <= top - 1 THEN (top - 1) - 1 + 1 ELSE 0
        /\ \A i \in 1 .. (top - 1) - 1 + 1 : SubSeq(s, 1, top - 1)[i] = s[1 + i - 1]
    BY <1>5, <1>6, SubSeqProperties
  <2>. QED  BY <2>1, Zenon
<1>8. Len(a) = top - 1 /\ \A i \in 1 .. top - 1 : a[i] = s[i]
  BY <1>7
<1>9. PICK b \in Seq(Instructions) :
         /\ b = CallOutput(name, CallArgs(s))
         /\ \A i \in 1 .. Len(b) : IsValue(b[i]) /\ b[i].kind # "barrier"
  BY CallOutputIs
<1>10. PICK k \in Nat, m \in Nat : k = top - 1 /\ m = Len(b)
  <2>1. top - 1 \in Nat
    OBVIOUS
  <2>2. Len(b) \in Nat
    BY LenProperties
  <2>. QED  BY <2>1, <2>2
<1>11. t = a \o b
  BY <1>4, <1>7, <1>9
<1>12. /\ t \in Seq(Instructions)
       /\ Len(t) = k + m
       /\ \A i \in 1 .. k + m : t[i] = IF i <= k THEN a[i] ELSE b[i - k]
  BY <1>8, <1>10, <1>11, ConcatProperties
<1>13. \A i \in 1 .. k : i \in 1 .. k + m /\ t[i] = s[i] /\ i \in 1 .. Len(s)
  BY <1>1, <1>8, <1>10, <1>12
<1>14. ASSUME NEW i \in 1 .. k + m, ~(i <= k)
       PROVE  IsValue(t[i]) /\ t[i].kind # "barrier"
  <2>1. i - k \in 1 .. m
    BY <1>14
  <2>. QED  BY <1>9, <1>10, <1>12, <1>14, <2>1
<1>15. \A i \in 1 .. k + m : i <= k => i \in 1 .. k
  OBVIOUS
<1>16. \A i \in 1 .. Len(t) : IsValue(t[i])
  BY <1>12, <1>13, <1>14, <1>15
<1>17. Barriers(t) = Barriers(s) \ {top}
  <2>1. ASSUME NEW i \in Barriers(t) PROVE i \in Barriers(s) \ {top}
    <3>1. i \in 1 .. k + m /\ t[i].kind = "barrier"
      BY <1>12, <2>1 DEF Barriers
    <3>2. i \in 1 .. k
      BY <1>14, <1>15, <3>1
    <3>3. i # top
      BY <1>10, <3>2
    <3>. QED  BY <1>13, <3>1, <3>2, <3>3 DEF Barriers
  <2>2. ASSUME NEW i \in Barriers(s) \ {top} PROVE i \in Barriers(t)
    <3>1. i \in 1 .. n /\ s[i].kind = "barrier" /\ i <= top /\ i # top
      BY <1>1, <1>2, <1>3 DEF Barriers
    <3>2. i \in 1 .. k
      BY <1>10, <3>1
    <3>. QED  BY <1>12, <1>13, <3>1, <3>2 DEF Barriers
  <2>. QED  BY <2>1, <2>2
<1>18. IsFiniteSet(Barriers(s)) /\ top \in Barriers(s)
  BY <1>2, <1>3, BarriersAreFinite
<1>19. Cardinality(Barriers(s) \ {top}) = Cardinality(Barriers(s)) - 1
  BY <1>18, FS_RemoveElement
<1>. QED  BY <1>12, <1>16, <1>17, <1>19

(* A push adds at most one barrier.                                        *)
LEMMA PushAddsBarrier ==
    ASSUME NEW s \in Seq(Instructions), NEW x \in Instructions,
           NEW t, t = Append(s, x)
    PROVE  Cardinality(Barriers(t)) =
               Cardinality(Barriers(s)) + IF x.kind = "barrier" THEN 1 ELSE 0
<1>1. PICK n \in Nat : n = Len(s)
  BY LenProperties
<1>2. /\ t \in Seq(Instructions) /\ Len(t) = n + 1 /\ t[n + 1] = x
      /\ \A i \in 1 .. n : t[i] = s[i]
  BY <1>1, AppendProperties
<1>3. IsFiniteSet(Barriers(s)) /\ Cardinality(Barriers(s)) \in Nat
  BY BarriersAreFinite
<1>4. \A i \in 1 .. n + 1 : i = n + 1 \/ i \in 1 .. n
  OBVIOUS
<1>5. \A i \in 1 .. n : i \in 1 .. n + 1
  OBVIOUS
<1>6. CASE x.kind = "barrier"
  <2>1. Barriers(t) = Barriers(s) \cup {n + 1}
    BY <1>1, <1>2, <1>4, <1>5, <1>6 DEF Barriers
  <2>2. n + 1 \notin Barriers(s)
    BY <1>1 DEF Barriers
  <2>3. Cardinality(Barriers(s) \cup {n + 1}) = Cardinality(Barriers(s)) + 1
    BY <1>3, <2>2, FS_AddElement
  <2>. QED  BY <1>6, <2>1, <2>3
<1>7. CASE x.kind # "barrier"
  <2>1. Barriers(t) = Barriers(s)
    BY <1>1, <1>2, <1>4, <1>5, <1>7 DEF Barriers
  <2>. QED  BY <1>3, <1>7, <2>1
<1>. QED  BY <1>6, <1>7

(* Reversed twice, code is as it was.                                      *)
LEMMA ReversedCode ==
    ASSUME NEW c \in Seq(Instructions)
    PROVE  /\ Reverse(c) \in Seq(Instructions)
           /\ Len(Reverse(c)) = Len(c)
           /\ \A i \in 1 .. Len(c) : Reverse(c)[(Len(c) - i) + 1] = c[i]
           /\ Reverse(Reverse(c)) = c
<1>1. PICK n \in Nat : n = Len(c)
  BY LenProperties
<1>2. \A i \in 1 .. n : (n - i) + 1 \in 1 .. n /\ (n - ((n - i) + 1)) + 1 = i
  OBVIOUS
<1>3. \A i \in 1 .. n : c[i] \in Instructions
  BY <1>1, ElementOfSeq
<1>. DEFINE e(i) == c[(n - i) + 1]
            r == [i \in 1 .. n |-> e(i)]
<1>4. Reverse(c) = r
  BY <1>1 DEF Reverse
<1>5. \A i \in 1 .. n : e(i) \in Instructions
  BY <1>2, <1>3
<1>6. r \in Seq(Instructions) /\ Len(r) = n
  <2>. HIDE DEF e
  <2>. QED  BY <1>5
<1>7. \A i \in 1 .. n : r[(n - i) + 1] = c[i]
  BY <1>2
<1>. HIDE DEF r
<1>8. Reverse(r) = [i \in 1 .. n |-> r[(n - i) + 1]]
  BY <1>6 DEF Reverse
<1>9. Reverse(r) = c
  <2>1. Reverse(r) = [i \in 1 .. n |-> c[i]]
    BY <1>7, <1>8
  <2>2. c = [i \in 1 .. n |-> c[i]]
    BY <1>1
  <2>. QED  BY <2>1, <2>2
<1>. QED  BY <1>1, <1>4, <1>6, <1>7, <1>9

(* A step of the program leaves the writer alone.                          *)
LEMMA ProgramKeepsWriter ==
    ASSUME WriterOK, pc \in {"built", "exec"}, UNCHANGED <<writerVars, said>>,
           pc' \in {"exec", "reply"}, pc' = "reply" => reply' \in Replies
    PROVE  WriterOK'
<1>. USE DEF writerVars
<1>1. pieces = <<>>
  BY DEF WriterOK
<1>2. RepliesDelivered' /\ WriterTypeOK(ReplyChars)'
  BY DEF WriterOK, RepliesDelivered, WriterTypeOK
<1>. QED  BY <1>1, <1>2 DEF WriterOK

(* A step that is none of the lexer leaves reader and term alone.          *)
LEMMA ReaderStays ==
    ASSUME ReaderOK, TermOK, UNCHANGED readerVars,
           UNCHANGED <<termType, termBegin, termBuf, start>>
    PROVE  ReaderOK' /\ TermOK'
<1>. USE DEF readerVars
<1>1. ReaderOK'
  BY DEF ReaderOK, ReaderTypeOK, NothingSkipped, Available
<1>2. TermOK'
  BY DEF TermOK, Term
<1>. QED  BY <1>1, <1>2

(* Build: every call of the code has its barrier after it, that is before  *)
(* it when the code runs.                                                  *)
LEMMA BuildKeeps ==
    ASSUME EndpointIInv, Build, UNCHANGED <<writerVars, said>>
    PROVE  EndpointIInv'
<1>1. /\ pc = "built" /\ pc' = "exec" /\ code' = Reverse(code)
      /\ ip' = 1 /\ stack' = <<>>
      /\ UNCHANGED <<readerVars, depth, termType, termBegin, termBuf, escaped,
                     wasEscaped, tokenSize, reply, first, start>>
  BY DEF Build
<1>2. code \in Seq(Instructions)
  BY DEF EndpointIInv, StateOK
<1>3. ReaderOK' /\ TermOK'
  BY <1>1, ReaderStays DEF EndpointIInv
<1>4. /\ code' \in Seq(Instructions) /\ Len(code') = Len(code)
      /\ Reverse(code') = code
  BY <1>1, <1>2, ReversedCode
<1>5. StateOK'
  <2>1. seen' = seen
    BY <1>1 DEF readerVars
  <2>. QED  BY <1>1, <1>4, <2>1 DEF EndpointIInv, StateOK
<1>6. ProgramTypeOK'
  <2>1. Len(code') \in Nat
    BY <1>4, LenProperties
  <2>2. 1 \in 1 .. Len(code') + 1
    BY <2>1
  <2>3. stack' \in Seq(Instructions) /\ Len(stack') = 0
    BY <1>1
  <2>. QED  BY <1>1, <2>2, <2>3 DEF ProgramTypeOK
<1>7. FramesOK'
  <2>1. PICK d \in Nat : Nested(code, d) /\ d + Pending <= depth /\ depth = 0
    BY <1>1 DEF EndpointIInv, FramesOK
  <2>2. Pending \in Nat
    BY DEF Pending
  <2>3. PICK n \in Nat : n = Len(code)
    BY <1>2, LenProperties
  <2>4. PICK g \in [0 .. n -> Nat] : Follows(g, code) /\ g[n] <= d
    BY <2>1, <2>3 DEF Nested
  <2>5. g[n] <= 0
    <3>1. d = 0
      BY <2>1, <2>2
    <3>. QED  BY <2>4, <3>1
  <2>6. Cardinality(Barriers(stack')) = 0
    <3>1. Barriers(stack') = {}
      <4>1. Len(stack') = 0
        BY <1>1
      <4>. QED  BY <4>1 DEF Barriers
    <3>. QED  BY <3>1, FS_EmptySet
  <2>7. Len(code') + 1 - ip' = n
    BY <1>1, <1>4, <2>3
  <2>8. /\ Follows(g, Reverse(code'))
        /\ g[Len(code') + 1 - ip'] <= Cardinality(Barriers(stack'))
    BY <1>4, <2>4, <2>5, <2>6, <2>7
  <2>9. g \in [0 .. Len(code') -> Nat]
    BY <1>4, <2>3, <2>4
  <2>. QED  BY <1>1, <2>8, <2>9 DEF FramesOK, Reading
<1>8. WriterOK'
  BY <1>1, ProgramKeepsWriter DEF EndpointIInv
<1>. QED  BY <1>3, <1>5, <1>6, <1>7, <1>8 DEF EndpointIInv

(* The instruction that is executed next, and the frames that are open     *)
(* before and after it.                                                    *)
LEMMA NextInstruction ==
    ASSUME EndpointIInv, pc = "exec", ip <= Len(code)
    PROVE  /\ code[ip] \in Instructions
           /\ ip \in Nat /\ ip + 1 \in 1 .. Len(code) + 1
           /\ stack \in Seq(Instructions)
           /\ \A i \in 1 .. Len(stack) : IsValue(stack[i])
           /\ \E g \in [0 .. Len(code) -> Nat], a, b \in Nat :
                 /\ Follows(g, Reverse(code))
                 /\ a = g[Len(code) + 1 - ip]
                 /\ b = g[Len(code) + 1 - (ip + 1)]
                 /\ a <= Cardinality(Barriers(stack))
                 /\ code[ip].kind = "call" => b + 1 <= a
                 /\ code[ip].kind = "barrier" => b <= a + 1
                 /\ code[ip].kind \notin {"call", "barrier"} => b <= a
<1>1. code \in Seq(Instructions)
  BY DEF EndpointIInv, StateOK
<1>2. PICK n \in Nat : n = Len(code)
  BY <1>1, LenProperties
<1>3. PICK k \in 1 .. n : k = ip
  BY <1>2 DEF EndpointIInv, ProgramTypeOK
<1>4. code[k] \in Instructions
  BY <1>1, <1>2, <1>3, ElementOfSeq
<1>5. PICK g \in [0 .. n -> Nat] :
         /\ Follows(g, Reverse(code))
         /\ g[n + 1 - k] <= Cardinality(Barriers(stack))
  BY <1>2, <1>3 DEF EndpointIInv, FramesOK
<1>6. PICK j \in 1 .. n : j = (n - k) + 1 /\ j = n + 1 - k /\ j - 1 = n + 1 - (k + 1)
  <2>1. (n - k) + 1 \in 1 .. n
    OBVIOUS
  <2>. QED  BY <2>1
<1>7. PICK r \in Seq(Instructions) : r = Reverse(code) /\ Len(r) = n /\ r[j] = code[k]
  BY <1>1, <1>2, <1>3, <1>6, ReversedCode
<1>8. /\ r[j].kind = "call" => g[j - 1] + 1 <= g[j]
      /\ r[j].kind = "barrier" => g[j - 1] <= g[j] + 1
      /\ r[j].kind \notin {"call", "barrier"} => g[j - 1] <= g[j]
  BY <1>5, <1>7 DEF Follows
<1>9. j \in 0 .. n /\ j - 1 \in 0 .. n
  OBVIOUS
<1>10. PICK a \in Nat, b \in Nat : a = g[j] /\ b = g[j - 1]
  BY <1>9
<1>11. /\ Follows(g, Reverse(code))
       /\ a = g[Len(code) + 1 - ip]
       /\ b = g[Len(code) + 1 - (ip + 1)]
       /\ a <= Cardinality(Barriers(stack))
       /\ code[ip].kind = "call" => b + 1 <= a
       /\ code[ip].kind = "barrier" => b <= a + 1
       /\ code[ip].kind \notin {"call", "barrier"} => b <= a
  BY <1>2, <1>3, <1>5, <1>6, <1>7, <1>8, <1>10
<1>12. ip \in Nat /\ ip + 1 \in 1 .. Len(code) + 1
  BY <1>2, <1>3
<1>13. g \in [0 .. Len(code) -> Nat]
  BY <1>2
<1>. QED  BY <1>3, <1>4, <1>11, <1>12, <1>13 DEF EndpointIInv, ProgramTypeOK

(* What is left to show of a step of Execute that goes on.                 *)
LEMMA ExecuteKeeps ==
    ASSUME EndpointIInv, InExec, UNCHANGED <<pc, reply, writerVars, said>>,
           ProgramTypeOK', FramesOK'
    PROVE  EndpointIInv'
<1>1. pc = "exec" /\ UNCHANGED <<readerVars, stateVars>>
  BY DEF InExec
<1>2. ReaderOK' /\ TermOK'
  BY <1>1, ReaderStays DEF EndpointIInv, stateVars
<1>3. StateOK'
  BY <1>1 DEF EndpointIInv, StateOK, stateVars, readerVars
<1>4. WriterOK'
  BY <1>1, ProgramKeepsWriter DEF EndpointIInv
<1>. QED  BY <1>2, <1>3, <1>4 DEF EndpointIInv

(* A push.                                                                 *)
LEMMA ExecutePushKeeps ==
    ASSUME EndpointIInv, ExecutePush, UNCHANGED <<writerVars, said>>
    PROVE  EndpointIInv'
<1>1. /\ InExec /\ pc = "exec" /\ ip <= Len(code) /\ code[ip].kind # "call"
      /\ stack' = Append(stack, code[ip]) /\ ip' = ip + 1
      /\ UNCHANGED <<pc, reply, code>>
  BY DEF ExecutePush, InExec, stateVars
<1>2. /\ code[ip] \in Instructions
      /\ ip \in Nat /\ ip + 1 \in 1 .. Len(code) + 1
      /\ stack \in Seq(Instructions)
      /\ \A i \in 1 .. Len(stack) : IsValue(stack[i])
  BY <1>1, NextInstruction
<1>3. PICK g \in [0 .. Len(code) -> Nat], a, b \in Nat :
         /\ Follows(g, Reverse(code))
         /\ b = g[Len(code) + 1 - (ip + 1)]
         /\ a <= Cardinality(Barriers(stack))
         /\ code[ip].kind = "barrier" => b <= a + 1
         /\ code[ip].kind \notin {"call", "barrier"} => b <= a
  BY <1>1, NextInstruction
<1>4. IsValue(code[ip])
  BY <1>1, <1>2 DEF IsValue, Instructions
<1>5. ProgramTypeOK'
  <2>1. PICK n \in Nat : n = Len(stack)
    BY <1>2, LenProperties
  <2>2. /\ stack' \in Seq(Instructions) /\ Len(stack') = n + 1
        /\ stack'[n + 1] = code[ip] /\ \A i \in 1 .. n : stack'[i] = stack[i]
    BY <1>1, <1>2, <2>1, AppendProperties
  <2>3. \A i \in 1 .. n + 1 : i = n + 1 \/ i \in 1 .. n
    OBVIOUS
  <2>4. \A i \in 1 .. Len(stack') : IsValue(stack'[i])
    BY <1>2, <1>4, <2>1, <2>2, <2>3
  <2>5. ip' \in 1 .. Len(code') + 1
    BY <1>1, <1>2
  <2>. QED  BY <2>2, <2>4, <2>5 DEF ProgramTypeOK, IsValue
<1>6. FramesOK'
  <2>1. PICK p \in Nat : p = Cardinality(Barriers(stack))
    BY <1>2, BarriersAreFinite
  <2>2. Cardinality(Barriers(stack')) = p + IF code[ip].kind = "barrier" THEN 1 ELSE 0
    BY <1>1, <1>2, <2>1, PushAddsBarrier
  <2>3. a <= p
    BY <1>3, <2>1
  <2>4. b <= Cardinality(Barriers(stack'))
    <3>1. CASE code[ip].kind = "barrier"
      BY <1>3, <2>2, <2>3, <3>1
    <3>2. CASE code[ip].kind # "barrier"
      <4>1. b <= a
        BY <1>1, <1>3, <3>2
      <4>2. Cardinality(Barriers(stack')) = p
        BY <2>2, <3>2
      <4>. QED  BY <2>3, <4>1, <4>2
    <3>. QED  BY <3>1, <3>2
  <2>. QED  BY <1>1, <1>3, <2>4 DEF FramesOK, Reading
<1>. QED  BY <1>1, <1>5, <1>6, ExecuteKeeps

(* A call finds a barrier.                                                 *)
LEMMA CallHasBarrier ==
    ASSUME EndpointIInv, pc = "exec", ip <= Len(code), code[ip].kind = "call"
    PROVE  Barriers(stack) # {}
<1>1. stack \in Seq(Instructions)
  BY NextInstruction
<1>2. PICK a, b \in Nat : a <= Cardinality(Barriers(stack)) /\ b + 1 <= a
  BY NextInstruction
<1>3. Cardinality(Barriers(stack)) # 0
  <2>1. PICK p \in Nat : p = Cardinality(Barriers(stack))
    BY <1>1, BarriersAreFinite
  <2>2. a <= p /\ b + 1 <= a
    BY <1>2, <2>1
  <2>3. p # 0
    BY <2>2
  <2>. QED  BY <2>1, <2>3
<1>. QED  BY <1>3, FS_EmptySet

(* A call, which fails, or takes its frame off the stack.                  *)
LEMMA ExecuteCallKeeps ==
    ASSUME EndpointIInv, ExecuteCall, UNCHANGED <<writerVars, said>>
    PROVE  EndpointIInv'
<1>. DEFINE name == code[ip].arg
            args == CallArgs(stack)
<1>1. /\ InExec /\ pc = "exec" /\ ip <= Len(code) /\ code[ip].kind = "call"
      /\ UNCHANGED <<readerVars, stateVars>>
  BY DEF ExecuteCall, InExec
<1>2. \/ pc' = "reply" /\ reply' = <<"failed">> /\ UNCHANGED programVars
      \/ /\ stack' = PurgeStackFrame(stack) \o CallOutput(name, args)
         /\ ip' = ip + 1
         /\ UNCHANGED <<pc, reply>>
  BY DEF ExecuteCall
<1>3. CASE pc' = "reply" /\ reply' = <<"failed">> /\ UNCHANGED programVars
  <2>1. ReaderOK' /\ TermOK'
    BY <1>1, ReaderStays DEF EndpointIInv, stateVars
  <2>2. StateOK'
    BY <1>1, <1>3 DEF EndpointIInv, StateOK, stateVars, readerVars
  <2>3. ProgramTypeOK'
    BY <1>1, <1>3 DEF EndpointIInv, ProgramTypeOK, programVars, stateVars
  <2>4. FramesOK'
    BY <1>3 DEF FramesOK, Reading
  <2>5. WriterOK'
    <3>1. reply' \in Replies
      BY <1>3 DEF Replies
    <3>. QED  BY <1>1, <1>3, <3>1, ProgramKeepsWriter DEF EndpointIInv
  <2>. QED  BY <2>1, <2>2, <2>3, <2>4, <2>5 DEF EndpointIInv
<1>4. CASE /\ stack' = PurgeStackFrame(stack) \o CallOutput(name, args)
           /\ ip' = ip + 1
           /\ UNCHANGED <<pc, reply>>
  <2>1. /\ ip \in Nat /\ ip + 1 \in 1 .. Len(code) + 1
        /\ stack \in Seq(Instructions)
        /\ \A i \in 1 .. Len(stack) : IsValue(stack[i])
    BY <1>1, NextInstruction
  <2>2. PICK g \in [0 .. Len(code) -> Nat], a, b \in Nat :
           /\ Follows(g, Reverse(code))
           /\ b = g[Len(code) + 1 - (ip + 1)]
           /\ a <= Cardinality(Barriers(stack))
           /\ b + 1 <= a
    BY <1>1, NextInstruction
  <2>3. Barriers(stack) # {}
    BY <1>1, CallHasBarrier
  <2>4. /\ stack' \in Seq(Instructions)
        /\ \A i \in 1 .. Len(stack') : IsValue(stack'[i])
        /\ Cardinality(Barriers(stack')) = Cardinality(Barriers(stack)) - 1
    BY <1>4, <2>1, <2>3, CallTakesBarrier
  <2>5. code' = code
    BY <1>1 DEF stateVars
  <2>6. ProgramTypeOK'
    BY <1>4, <2>1, <2>4, <2>5 DEF ProgramTypeOK, IsValue
  <2>7. b <= Cardinality(Barriers(stack'))
    <3>1. PICK p \in Nat : p = Cardinality(Barriers(stack))
      BY <2>1, BarriersAreFinite
    <3>2. a <= p /\ b + 1 <= a /\ Cardinality(Barriers(stack')) = p - 1
      BY <2>2, <2>4, <3>1
    <3>3. b <= p - 1
      BY <3>2
    <3>. QED  BY <3>2, <3>3
  <2>8. FramesOK'
    BY <1>1, <1>4, <2>2, <2>5, <2>7 DEF FramesOK, Reading
  <2>. QED  BY <1>1, <1>4, <2>6, <2>8, ExecuteKeeps
<1>. QED  BY <1>2, <1>3, <1>4

(* The stack is the reply.                                                 *)
LEMMA ExecuteEndsKeeps ==
    ASSUME EndpointIInv, ExecuteEnds, UNCHANGED <<writerVars, said>>
    PROVE  EndpointIInv'
<1>1. /\ pc = "exec" /\ UNCHANGED <<readerVars, stateVars, programVars>>
      /\ pc' = "reply" /\ reply' = <<"values", stack>>
  BY DEF ExecuteEnds, InExec
<1>2. ReaderOK' /\ TermOK'
  BY <1>1, ReaderStays DEF EndpointIInv, stateVars
<1>3. StateOK'
  BY <1>1 DEF EndpointIInv, StateOK, stateVars, readerVars
<1>4. ProgramTypeOK'
  BY <1>1 DEF EndpointIInv, ProgramTypeOK, programVars, stateVars
<1>5. FramesOK'
  BY <1>1 DEF FramesOK, Reading
<1>6. reply' \in Replies
  BY <1>1 DEF EndpointIInv, ProgramTypeOK, Replies
<1>7. WriterOK'
  BY <1>1, <1>6, ProgramKeepsWriter DEF EndpointIInv
<1>. QED  BY <1>2, <1>3, <1>4, <1>5, <1>7 DEF EndpointIInv

-----------------------------------------------------------------------------
(* The steps of the writer, and from one expression to the next.           *)

Assoc(x, y, z) == (x \o y) \o z = x \o (y \o z)

(* ConcatAssociative for all sequences of a set.                           *)
LEMMA Associates ==
    ASSUME NEW S
    PROVE  \A x, y, z \in Seq(S) : Assoc(x, y, z)
BY ConcatAssociative DEF Assoc

(* What is moved from one sequence to the end of the one before it: a from *)
(* what is to be written into the buffer, or out of the buffer.            *)
Moved(d, o, a, b, r) ==
    /\ (d \o (o \o a)) \o (b \o r) = (d \o o) \o ((a \o b) \o r)
    /\ (d \o (a \o b)) \o r = (d \o a) \o (b \o r)
    /\ (d \o (a \o b)) \o r = ((d \o a) \o b) \o r

(* The whole stays the same.                                               *)
LEMMA MovedIsSame ==
    ASSUME NEW S, NEW d \in Seq(S), NEW o \in Seq(S), NEW a \in Seq(S),
           NEW b \in Seq(S), NEW r \in Seq(S)
    PROVE  Moved(d, o, a, b, r)
<1>1. \A x, y, z \in Seq(S) : Assoc(x, y, z)
  BY Associates
<1>2. d \o o \in Seq(S) /\ b \o r \in Seq(S) /\ d \o a \in Seq(S)
  BY ConcatProperties
<1>3. /\ Assoc(d, o, a) /\ Assoc(a, b, r) /\ Assoc(d, a, b)
      /\ Assoc(d \o o, a, b \o r) /\ Assoc(d \o a, b, r)
  BY <1>1, <1>2
<1>. QED  BY <1>3, Zenon DEF Assoc, Moved

(* A sequence is a beginning of what it is continued to.                   *)
LEMMA PrefixOfConcat ==
    ASSUME NEW S, NEW a \in Seq(S), NEW b \in Seq(S)
    PROVE  IsPrefix(a, a \o b)
<1>1. PICK m \in Nat, n \in Nat : m = Len(a) /\ n = Len(b)
  BY LenProperties
<1>. DEFINE c == a \o b
<1>2. /\ c \in Seq(S) /\ Len(c) = m + n
      /\ \A i \in 1 .. m + n : c[i] = IF i <= m THEN a[i] ELSE b[i - m]
  BY <1>1, ConcatProperties
<1>. HIDE DEF c
<1>3. \A i \in 1 .. m : i \in 1 .. m + n /\ i <= m
  BY <1>1
<1>4. m <= Len(c)
  BY <1>1, <1>2
<1>5. m \in 0 .. Len(c)
  BY <1>1, <1>2
<1>6. \A i \in 1 .. m : c[i] = a[i] /\ c[i] \in S
  BY <1>1, <1>2, <1>3, ElementOfSeq
<1>7. 1 \in Int /\ m \in Int
  OBVIOUS
<1>8. /\ SubSeq(c, 1, m) \in Seq(S)
      /\ Len(SubSeq(c, 1, m)) = IF 1 <= m THEN m - 1 + 1 ELSE 0
      /\ \A i \in 1 .. m - 1 + 1 : SubSeq(c, 1, m)[i] = c[1 + i - 1]
  BY <1>6, <1>7, SubSeqProperties
<1>9. Len(SubSeq(c, 1, m)) = m /\ \A i \in 1 .. m : SubSeq(c, 1, m)[i] = a[i]
  BY <1>6, <1>8
<1>10. SubSeq(c, 1, m) = a
  BY <1>1, <1>8, <1>9, SeqEqual
<1>11. SubSeq(a, 1, m) = a
  BY <1>1, SubSeqFull
<1>. QED  BY <1>1, <1>4, <1>10, <1>11 DEF IsPrefix, c

(* A beginning makes the whole with what follows it.                       *)
LEMMA PrefixIs ==
    ASSUME NEW S, NEW a \in Seq(S), NEW b \in Seq(S), IsPrefix(a, b)
    PROVE  \E c \in Seq(S) : b = a \o c
<1>1. PICK m \in Nat, n \in Nat : m = Len(a) /\ n = Len(b)
  BY LenProperties
<1>2. m \in 0 .. Len(b) /\ SubSeq(a, 1, m) = SubSeq(b, 1, m)
  BY <1>1 DEF IsPrefix
<1>3. SubSeq(a, 1, m) = a
  BY <1>1, SubSeqFull
<1>4. /\ SubSeq(b, m + 1, Len(b)) \in Seq(S)
      /\ SubSeq(b, 1, m) \o SubSeq(b, m + 1, Len(b)) = b
  BY <1>2, SplitAt
<1>. QED  BY <1>2, <1>3, <1>4

(* A beginning stays one when more is said.                                *)
LEMMA PrefixGrows ==
    ASSUME NEW S, NEW a \in Seq(S), NEW b \in Seq(S), NEW c \in Seq(S),
           IsPrefix(a, b)
    PROVE  IsPrefix(a, b \o c)
<1>1. PICK d \in Seq(S) : b = a \o d
  BY PrefixIs
<1>2. (a \o d) \o c = a \o (d \o c)
  BY ConcatAssociative
<1>3. d \o c \in Seq(S)
  BY ConcatProperties
<1>. QED  BY <1>1, <1>2, <1>3, PrefixOfConcat

(* What is left to show of a step that is one of the writer.               *)
LEMMA AnswerKeeps ==
    ASSUME EndpointIInv, pc \in {"reply", "write", "send", "answered"},
           pc' \in {"write", "send", "answered"},
           UNCHANGED <<readerVars, stateVars, reply, programVars>>, WriterOK'
    PROVE  EndpointIInv'
<1>1. ReaderOK' /\ TermOK'
  BY ReaderStays DEF EndpointIInv, stateVars
<1>2. StateOK'
  BY DEF EndpointIInv, StateOK, stateVars, readerVars
<1>3. ProgramTypeOK'
  BY DEF EndpointIInv, ProgramTypeOK, programVars, stateVars
<1>4. FramesOK'
  BY DEF FramesOK, Reading
<1>. QED  BY <1>1, <1>2, <1>3, <1>4 DEF EndpointIInv

(* Reply: what is to be written is what is said.                           *)
LEMMA ReplyKeeps ==
    ASSUME EndpointIInv, Reply
    PROVE  EndpointIInv'
<1>1. /\ pc = "reply" /\ pc' = "write" /\ pieces' = Serialize(reply)
      /\ said' = said \o FlattenSeq(Serialize(reply))
      /\ UNCHANGED <<readerVars, stateVars, reply, programVars>>
      /\ UNCHANGED <<outBuf, writeError, delivered>>
  BY DEF Reply
<1>2. /\ outBuf \in Seq(ReplyChars) /\ delivered \in Seq(ReplyChars)
      /\ said \in Seq(ReplyChars) /\ pieces = <<>> /\ reply \in Replies
      /\ RepliesDelivered /\ WriterTypeOK(ReplyChars)
  BY <1>1 DEF EndpointIInv, WriterOK, WriterTypeOK
<1>3. pieces' \in Seq(Seq(ReplyChars))
  BY <1>1, <1>2, ReplyIsText
<1>4. PICK t \in Seq(ReplyChars) : t = FlattenSeq(pieces')
  BY <1>3, FlattenIsSeq
<1>5. said' = said \o t /\ said' \in Seq(ReplyChars)
  BY <1>1, <1>2, <1>4, ConcatProperties
<1>6. IsPrefix(delivered', said')
  BY <1>1, <1>2, <1>5, PrefixGrows DEF RepliesDelivered
<1>7. ~writeError' => delivered' \o outBuf' \o FlattenSeq(pieces') = said'
  <2>1. delivered \o outBuf \in Seq(ReplyChars)
    BY <1>2, ConcatProperties
  <2>2. FlattenSeq(pieces) = <<>>
    BY <1>2, FlattenNothing
  <2>3. ~writeError => delivered \o outBuf = said
    BY <1>2, <2>1, <2>2, ConcatEmptySeq DEF RepliesDelivered
  <2>. QED  BY <1>1, <1>4, <1>5, <2>3
<1>8. WriterTypeOK(ReplyChars)'
  BY <1>1, <1>2 DEF WriterTypeOK
<1>9. WriterOK'
  BY <1>1, <1>3, <1>5, <1>6, <1>7, <1>8 DEF WriterOK, RepliesDelivered
<1>. QED  BY <1>1, <1>9, AnswerKeeps

(* WriteData: what leaves the first piece enters the buffer.               *)
LEMMA WriteDataKeeps ==
    ASSUME EndpointIInv, pc = "write", WriteData, pc' = pc,
           UNCHANGED <<readerVars, stateVars, reply, programVars, said>>
    PROVE  EndpointIInv'
<1>1. /\ outBuf \in Seq(ReplyChars) /\ delivered \in Seq(ReplyChars)
      /\ pieces \in Seq(Seq(ReplyChars)) /\ RepliesDelivered
      /\ WriterTypeOK(ReplyChars) /\ said \in Seq(ReplyChars)
  BY DEF EndpointIInv, WriterOK, WriterTypeOK
<1>2. pieces # <<>> /\ UNCHANGED <<writeError, delivered>>
  BY DEF WriteData
<1>3. PICK h \in Seq(ReplyChars), rest \in Seq(Seq(ReplyChars)) :
         h = Head(pieces) /\ rest = Tail(pieces) /\ pieces = <<h>> \o rest
  <2>1. Head(pieces) \in Seq(ReplyChars) /\ Tail(pieces) \in Seq(Seq(ReplyChars))
    BY <1>1, <1>2, HeadTailProperties
  <2>2. pieces = <<Head(pieces)>> \o Tail(pieces)
    BY <1>1, <1>2, HeadTailProperties
  <2>. QED  BY <2>1, <2>2, Zenon
<1>4. PICK n \in Nat, m \in Nat, out \in Nat :
         n = Len(h) /\ m = Len(outBuf) /\ out = OutSize
  BY <1>1, LenProperties, WriterAssumption
<1>5. m <= out
  BY <1>1, <1>4 DEF WriterTypeOK
<1>6. PICK k \in 0 .. n :
         /\ m + k <= out
         /\ outBuf' = outBuf \o SubSeq(h, 1, k)
         /\ pieces' = IF k = n THEN rest
                      ELSE <<SubSeq(h, k + 1, n)>> \o rest
  <2>. DEFINE size == IF n < out - m THEN n ELSE out - m
  <2>1. size \in 0 .. n /\ m + size <= out
    BY <1>5
  <2>2. /\ outBuf' = outBuf \o SubSeq(h, 1, size)
        /\ pieces' = IF size = n THEN rest
                     ELSE <<SubSeq(h, size + 1, n)>> \o rest
    BY <1>3, <1>4 DEF WriteData, Room
  <2>. QED  BY <2>1, <2>2
<1>7. /\ SubSeq(h, 1, k) \in Seq(ReplyChars)
      /\ SubSeq(h, k + 1, n) \in Seq(ReplyChars)
      /\ Len(SubSeq(h, 1, k)) = k
      /\ Len(SubSeq(h, k + 1, n)) = n - k
      /\ SubSeq(h, 1, k) \o SubSeq(h, k + 1, n) = h
  BY <1>4, <1>6, SplitAt
<1>8. PICK a \in Seq(ReplyChars), b \in Seq(ReplyChars) :
         /\ a = SubSeq(h, 1, k) /\ b = SubSeq(h, k + 1, n)
         /\ Len(a) = k /\ Len(b) = n - k /\ a \o b = h
  BY <1>7
<1>9. outBuf' \in Seq(ReplyChars) /\ Len(outBuf') = m + k
  BY <1>1, <1>4, <1>6, <1>8, ConcatProperties
<1>10. WriterTypeOK(ReplyChars)'
  BY <1>1, <1>2, <1>4, <1>6, <1>9 DEF WriterTypeOK
<1>11. PICK r \in Seq(ReplyChars) : r = FlattenSeq(rest)
  BY <1>3, FlattenIsSeq
<1>12. FlattenSeq(pieces) = h \o r
  BY <1>3, <1>11, FlattenFirst
<1>13. pieces' \in Seq(Seq(ReplyChars)) /\ FlattenSeq(pieces') = b \o r
  <2>1. CASE k = n
    <3>1. Len(b) = 0
      BY <1>8, <2>1
    <3>2. b = <<>>
      BY <1>8, <3>1, EmptySeq
    <3>3. b \o r = r
      BY <1>11, <3>2, ConcatEmptySeq
    <3>. QED  BY <1>3, <1>6, <1>11, <2>1, <3>3
  <2>2. CASE k # n
    <3>1. pieces' = <<b>> \o rest
      BY <1>6, <1>8, <2>2
    <3>2. <<b>> \in Seq(Seq(ReplyChars))
      BY <1>8
    <3>. QED  BY <1>3, <1>8, <1>11, <3>1, <3>2, FlattenFirst, ConcatProperties
  <2>. QED  BY <2>1, <2>2
<1>14. ~writeError' => delivered' \o outBuf' \o FlattenSeq(pieces') = said
  <2>1. PICK d \in Seq(ReplyChars), o \in Seq(ReplyChars) : d = delivered /\ o = outBuf
    BY <1>1
  <2>2. a \o b = h
    BY <1>8
  <2>3. (d \o (o \o a)) \o (b \o r) = (d \o o) \o ((a \o b) \o r)
    <3>1. Moved(d, o, a, b, r)
      BY MovedIsSame
    <3>. QED  BY <3>1, Zenon DEF Moved
  <2>4. ~writeError => (d \o o) \o (h \o r) = said
    BY <1>1, <1>12, <2>1 DEF RepliesDelivered
  <2>. QED  BY <1>2, <1>6, <1>8, <1>13, <2>1, <2>2, <2>3, <2>4
<1>15. IsPrefix(delivered', said')
  BY <1>1, <1>2 DEF RepliesDelivered
<1>16. WriterOK'
  BY <1>1, <1>10, <1>13, <1>14, <1>15 DEF WriterOK, RepliesDelivered
<1>. QED  BY <1>16, AnswerKeeps

(* Send: what leaves the buffer is received.                               *)
LEMMA SendKeeps ==
    ASSUME EndpointIInv, pc = "send", NEW n \in 1 .. OutSize, Send(n), pc' = pc,
           UNCHANGED <<readerVars, stateVars, reply, programVars, said>>
    PROVE  EndpointIInv'
<1>1. /\ outBuf \in Seq(ReplyChars) /\ delivered \in Seq(ReplyChars)
      /\ pieces \in Seq(Seq(ReplyChars)) /\ RepliesDelivered
      /\ WriterTypeOK(ReplyChars) /\ said \in Seq(ReplyChars)
  BY DEF EndpointIInv, WriterOK, WriterTypeOK
<1>2. /\ ~writeError /\ n \in 1 .. Len(outBuf)
      /\ delivered' = delivered \o SubSeq(outBuf, 1, n)
      /\ outBuf' = SubSeq(outBuf, n + 1, Len(outBuf))
      /\ UNCHANGED <<pieces, writeError>>
  BY DEF Send
<1>3. PICK m \in Nat, out \in Nat : m = Len(outBuf) /\ out = OutSize
  BY <1>1, LenProperties, WriterAssumption
<1>4. n \in 0 .. Len(outBuf)
  BY <1>2, <1>3
<1>5. /\ SubSeq(outBuf, 1, n) \in Seq(ReplyChars)
      /\ SubSeq(outBuf, n + 1, Len(outBuf)) \in Seq(ReplyChars)
      /\ Len(SubSeq(outBuf, n + 1, Len(outBuf))) = Len(outBuf) - n
      /\ SubSeq(outBuf, 1, n) \o SubSeq(outBuf, n + 1, Len(outBuf)) = outBuf
  BY <1>1, <1>4, SplitAt
<1>6. PICK a \in Seq(ReplyChars), b \in Seq(ReplyChars) :
         /\ a = SubSeq(outBuf, 1, n) /\ b = SubSeq(outBuf, n + 1, Len(outBuf))
         /\ Len(b) = Len(outBuf) - n /\ a \o b = outBuf
  BY <1>5
<1>7. PICK d \in Seq(ReplyChars), r \in Seq(ReplyChars) :
         d = delivered /\ r = FlattenSeq(pieces)
  BY <1>1, FlattenIsSeq
<1>8. delivered' = d \o a /\ outBuf' = b /\ delivered' \in Seq(ReplyChars)
  BY <1>2, <1>6, <1>7, ConcatProperties
<1>9. WriterTypeOK(ReplyChars)'
  <2>1. m <= out
    BY <1>1, <1>3 DEF WriterTypeOK
  <2>2. m - n <= out
    BY <2>1
  <2>3. Len(outBuf') <= OutSize
    BY <1>3, <1>6, <1>8, <2>2
  <2>. QED  BY <1>1, <1>2, <1>8, <2>3 DEF WriterTypeOK
<1>10. PICK da \in Seq(ReplyChars), br \in Seq(ReplyChars) :
          da = d \o a /\ br = b \o r
  <2>1. d \o a \in Seq(ReplyChars) /\ b \o r \in Seq(ReplyChars)
    BY ConcatProperties
  <2>. QED  BY <2>1
<1>11. (d \o (a \o b)) \o r = said
  BY <1>1, <1>2, <1>6, <1>7 DEF RepliesDelivered
<1>12. (d \o (a \o b)) \o r = (d \o a) \o (b \o r) /\ (d \o (a \o b)) \o r = ((d \o a) \o b) \o r
  <2>1. Moved(d, a, a, b, r)
    BY MovedIsSame
  <2>. QED  BY <2>1, Zenon DEF Moved
<1>13. said = da \o br /\ (da \o b) \o r = said
  BY <1>10, <1>11, <1>12
<1>14. IsPrefix(da, said)
  BY <1>13, PrefixOfConcat
<1>15. RepliesDelivered'
  <2>1. said' = said /\ FlattenSeq(pieces') = r
    BY <1>2, <1>7
  <2>. QED  BY <1>8, <1>10, <1>13, <1>14, <2>1 DEF RepliesDelivered
<1>16. WriterOK'
  BY <1>1, <1>2, <1>9, <1>15 DEF WriterOK
<1>. QED  BY <1>16, AnswerKeeps

(* SendFails: what was received is still a beginning.                      *)
LEMMA SendFailsKeeps ==
    ASSUME EndpointIInv, pc = "send", SendFails, pc' = pc,
           UNCHANGED <<readerVars, stateVars, reply, programVars, said>>
    PROVE  EndpointIInv'
<1>1. /\ pieces \in Seq(Seq(ReplyChars)) /\ RepliesDelivered
      /\ WriterTypeOK(ReplyChars) /\ said \in Seq(ReplyChars)
  BY DEF EndpointIInv, WriterOK
<1>2. /\ writeError' = TRUE /\ outBuf' = <<>> /\ UNCHANGED delivered
      /\ pieces' = IF pieces = <<>> THEN <<>> ELSE Tail(pieces)
  BY DEF SendFails
<1>3. pieces' \in Seq(Seq(ReplyChars))
  BY <1>1, <1>2, HeadTailProperties
<1>4. WriterTypeOK(ReplyChars)'
  <2>1. Len(outBuf') = 0 /\ outBuf' \in Seq(ReplyChars) /\ 0 <= OutSize
    BY <1>2, WriterAssumption
  <2>. QED  BY <1>1, <1>2, <2>1 DEF WriterTypeOK
<1>5. RepliesDelivered'
  BY <1>1, <1>2 DEF RepliesDelivered
<1>6. WriterOK'
  BY <1>1, <1>3, <1>4, <1>5 DEF WriterOK
<1>. QED  BY <1>6, AnswerKeeps

(* The writer goes on to send, to the next piece, or is done.              *)
LEMMA WriterStays ==
    ASSUME EndpointIInv, pc \in {"write", "send"},
           pc' \in {"write", "send"} \/ (pc' = "answered" /\ pieces = <<>>),
           UNCHANGED <<readerVars, stateVars, reply, programVars, writerVars, said>>
    PROVE  EndpointIInv'
<1>1. RepliesDelivered' /\ WriterTypeOK(ReplyChars)'
  BY DEF EndpointIInv, WriterOK, RepliesDelivered, WriterTypeOK, writerVars
<1>2. WriterOK'
  BY <1>1 DEF EndpointIInv, WriterOK, writerVars
<1>. QED  BY <1>2, AnswerKeeps

(* NextExpression: a new lexer and an empty program.                       *)
LEMMA NextExpressionKeeps ==
    ASSUME EndpointIInv, NextExpression
    PROVE  EndpointIInv'
<1>1. /\ pc = "answered" /\ pc' \in {"closed", "lex"}
      /\ depth' = 0 /\ termType' = "value" /\ termBegin' = 0 /\ termBuf' = <<>>
      /\ escaped' = FALSE /\ wasEscaped' = FALSE /\ tokenSize' = 0
      /\ code' = <<>> /\ first' = Len(seen) /\ start' = 0 /\ ip' = 1
      /\ stack' = <<>> /\ UNCHANGED readerVars /\ UNCHANGED <<writerVars, said>>
  BY DEF NextExpression, KeepReader
<1>2. ReaderOK'
  BY <1>1 DEF EndpointIInv, ReaderOK, ReaderTypeOK, NothingSkipped, Available,
              readerVars
<1>3. Len(seen) \in Nat /\ seen' = seen /\ pos' \in Nat
  BY <1>1, LenProperties DEF EndpointIInv, ReaderOK, ReaderTypeOK, readerVars
<1>4. TermOK'
  <2>1. (readError \/ termBuf = <<>>)'
    BY <1>1
  <2>2. termBegin' \in 0 .. pos' + 1 /\ start' \in 0 .. Len(seen')
    <3>1. \A n \in Nat : 0 \in 0 .. n + 1 /\ 0 \in 0 .. n
      OBVIOUS
    <3>. QED  BY <1>1, <1>3, <3>1, Zenon
  <2>3. termBuf' \in Seq(Chars) /\ termType' \in {"op", "value", "str"}
    <3>1. <<>> \in Seq(Chars)
      OBVIOUS
    <3>. QED  BY <1>1, <3>1
  <2>. QED  BY <1>1, <2>1, <2>2, <2>3, Zenon DEF TermOK
<1>5. StateOK'
  <2>1. escaped' \in BOOLEAN /\ wasEscaped' \in BOOLEAN
    BY <1>1, Zenon
  <2>2. code' \in Seq(Instructions) /\ first' \in 0 .. Len(seen')
    BY <1>1, <1>3
  <2>. QED  BY <1>1, <2>1, <2>2 DEF StateOK, Reading
<1>6. ProgramTypeOK'
  BY <1>1 DEF ProgramTypeOK
<1>7. FramesOK'
  <2>1. Pending' = 0
    BY <1>1 DEF Pending
  <2>2. Nested(code', 0)
    BY <1>1, NestedNothing
  <2>3. 0 + Pending' <= depth'
    BY <1>1, <2>1
  <2>. QED  BY <1>1, <2>2, <2>3 DEF FramesOK
<1>8. WriterOK'
  <2>1. RepliesDelivered' /\ WriterTypeOK(ReplyChars)'
    BY <1>1 DEF EndpointIInv, WriterOK, RepliesDelivered, WriterTypeOK,
       writerVars
  <2>. QED  BY <1>1, <2>1 DEF EndpointIInv, WriterOK, writerVars
<1>. QED  BY <1>2, <1>4, <1>5, <1>6, <1>7, <1>8 DEF EndpointIInv

-----------------------------------------------------------------------------
(* The theorems.                                                           *)

(* A new connection.                                                       *)
LEMMA InitIsInvariant ==
    ASSUME Init
    PROVE  EndpointIInv
<1>. USE DEF Init, ReaderInit, LexerInit, ProgramInit, WriterInit
<1>1. ReaderOK
  <2>1. sent \in Seq(Chars) /\ Len(sent) \in Nat
    BY EndpointAssumption, LenProperties
  <2>2. Len(chunk) = 0 /\ chunk \in Seq(Chars) /\ seen \in Seq(Chars)
    OBVIOUS
  <2>3. ReaderTypeOK
    <3>1. readError \in BOOLEAN
      BY Zenon
    <3>. QED  BY <2>1, <2>2, <3>1, ReaderAssumption DEF ReaderTypeOK
  <2>4. Available = <<>>
    BY <2>3, NothingAvailable
  <2>5. NothingSkipped
    <3>1. SubSeq(sent, 1, 0) \in Seq(Chars) /\ Len(SubSeq(sent, 1, 0)) = 0
      BY <2>1, SplitAt
    <3>2. SubSeq(sent, 1, 0) = <<>>
      BY <3>1, EmptySeq
    <3>. QED  BY <2>2, <2>4, <3>2, ConcatEmptySeq DEF NothingSkipped
  <2>. QED  BY <2>2, <2>3, <2>5 DEF ReaderOK
<1>2. TermOK
  BY DEF TermOK
<1>3. StateOK
  <2>1. escaped \in BOOLEAN /\ wasEscaped \in BOOLEAN
    BY Zenon
  <2>. QED  BY <2>1 DEF StateOK, Reading
<1>4. ProgramTypeOK
  BY DEF ProgramTypeOK
<1>5. FramesOK
  <2>1. Pending = 0
    BY DEF Pending
  <2>2. Nested(code, 0)
    BY NestedNothing
  <2>3. 0 + Pending <= depth
    BY <2>1
  <2>. QED  BY <2>2, <2>3 DEF FramesOK, Reading
<1>6. WriterOK
  <2>1. WriterTypeOK(ReplyChars)
    <3>1. writeError \in BOOLEAN
      BY Zenon
    <3>. QED  BY <3>1, WriterAssumption DEF WriterTypeOK
  <2>2. RepliesDelivered
    <3>1. <<>> \in Seq(ReplyChars) /\ <<>> \o <<>> = <<>>
      OBVIOUS
    <3>2. IsPrefix(<<>>, <<>>)
      BY DEF IsPrefix
    <3>. QED  BY <3>1, <3>2, FlattenNothing DEF RepliesDelivered
  <2>. QED  BY <2>1, <2>2 DEF WriterOK
<1>. QED  BY <1>1, <1>2, <1>3, <1>4, <1>5, <1>6 DEF EndpointIInv

(* Every step keeps the invariant.                                         *)
LEMMA NextKeeps ==
    ASSUME EndpointIInv, [Next]_vars
    PROVE  EndpointIInv'
<1>1. CASE LexerStep /\ UNCHANGED <<programVars, writerVars, said>>
  BY <1>1, LexerStepKeeps
<1>2. CASE ProgramStep /\ UNCHANGED <<writerVars, said>>
  BY <1>2, BuildKeeps, ExecutePushKeeps, ExecuteCallKeeps, ExecuteEndsKeeps
     DEF ProgramStep
<1>3. CASE Reply
  BY <1>3, ReplyKeeps
<1>4. CASE Write
  <2>1. /\ pc = "write"
        /\ UNCHANGED <<readerVars, stateVars, reply, programVars, said>>
        /\ \/ WriteData /\ UNCHANGED pc
           \/ pc' = "send" /\ UNCHANGED writerVars
    BY <1>4 DEF Write
  <2>. QED  BY <2>1, WriteDataKeeps, WriterStays
<1>5. CASE Flush
  <2>1. /\ pc = "send"
        /\ UNCHANGED <<readerVars, stateVars, reply, programVars, said>>
        /\ \/ \E n \in 1 .. OutSize : Send(n) /\ UNCHANGED pc
           \/ SendFails /\ UNCHANGED pc
           \/ /\ pc' = IF pieces = <<>> THEN "answered" ELSE "write"
              /\ UNCHANGED writerVars
    BY <1>5 DEF Flush
  <2>. QED  BY <2>1, SendKeeps, SendFailsKeeps, WriterStays
<1>6. CASE NextExpression
  BY <1>6, NextExpressionKeeps
<1>7. CASE UNCHANGED vars
  <2>. USE DEF vars, readerVars, lexerVars, stateVars, programVars, writerVars
  <2>1. ReaderOK' /\ TermOK'
    BY <1>7, ReaderStays DEF EndpointIInv
  <2>2. StateOK' /\ ProgramTypeOK'
    BY <1>7 DEF EndpointIInv, StateOK, ProgramTypeOK
  <2>3. FramesOK'
    BY <1>7 DEF EndpointIInv, FramesOK, Pending
  <2>4. WriterOK'
    BY <1>7 DEF EndpointIInv, WriterOK, RepliesDelivered, WriterTypeOK
  <2>. QED  BY <2>1, <2>2, <2>3, <2>4 DEF EndpointIInv
<1>. QED  BY <1>1, <1>2, <1>3, <1>4, <1>5, <1>6, <1>7 DEF Next, Closed

(* What the invariant says of the lexer.                                   *)
LEMMA InvariantReads ==
    ASSUME EndpointIInv
    PROVE  ReadingInv
<1>1. termBegin \in 0 .. Len(chunk) + 1
  BY LenProperties DEF EndpointIInv, ReaderOK, ReaderTypeOK, TermOK
<1>2. LexerTypeOK
  BY <1>1 DEF EndpointIInv, TermOK, StateOK, LexerTypeOK
<1>3. TypeOK
  BY <1>2 DEF EndpointIInv, ReaderOK, WriterOK, TypeOK
<1>4. TermIsText
  BY DEF EndpointIInv, TermOK, Term, TermIsText
<1>. QED  BY <1>3, <1>4 DEF EndpointIInv, ReaderOK, ReadingInv

(* What the lexer has of the text at any moment is what was sent, however  *)
(* recv cut it: no character is lost, read twice or out of a buffer that   *)
(* was filled again (slang/lexer.h, base/stream.cc).                       *)
THEOREM LexerReadsText == Spec => []ReadingInv
<1>1. Init => EndpointIInv
  BY InitIsInvariant
<1>2. EndpointIInv /\ [Next]_vars => EndpointIInv'
  BY NextKeeps
<1>3. EndpointIInv => ReadingInv
  BY InvariantReads
<1>. QED  BY <1>1, <1>2, <1>3, PTL DEF Spec

(* Program::Execute never calls an operation without the barrier of its    *)
(* frame on the stack, whatever text was compiled.                         *)
THEOREM EveryCallHasFrame == Spec => []CallFindsFrame
<1>1. Init => EndpointIInv
  BY InitIsInvariant
<1>2. EndpointIInv /\ [Next]_vars => EndpointIInv'
  BY NextKeeps
<1>3. EndpointIInv => CallFindsFrame
  <2>. SUFFICES ASSUME EndpointIInv, pc = "exec", ip <= Len(code),
                       code[ip].kind = "call"
                PROVE  TopBarrier(stack) > 0
    BY DEF CallFindsFrame
  <2>1. Barriers(stack) # {} /\ stack \in Seq(Instructions)
    BY CallHasBarrier, NextInstruction
  <2>2. TopBarrier(stack) \in 0 .. Len(stack) /\ TopBarrier(stack) # 0
    BY <2>1, TopBarrierBounds
  <2>. QED  BY <2>2
<1>. QED  BY <1>1, <1>2, <1>3, PTL DEF Spec

(* The client receives the replies in order, all of them or, after a       *)
(* failure of send, a beginning of them (base/stream.cc, net/tcp.cc).      *)
THEOREM ClientReceivesReplies == Spec => []RepliesDelivered
<1>1. Init => EndpointIInv
  BY InitIsInvariant
<1>2. EndpointIInv /\ [Next]_vars => EndpointIInv'
  BY NextKeeps
<1>3. EndpointIInv => RepliesDelivered
  BY DEF EndpointIInv, WriterOK
<1>. QED  BY <1>1, <1>2, <1>3, PTL DEF Spec
=============================================================================
