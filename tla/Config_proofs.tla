--------------------------- MODULE Config_proofs ---------------------------
(***************************************************************************)
(* What holds of the configuration for all names, values, files and        *)
(* documents: the parser's stacks stay in step with the parentheses, and   *)
(* the last file or argument that has a key decides its value.             *)
(***************************************************************************)
EXTENDS Config, TLAPS, SequenceTheorems, WellFoundedInduction

-----------------------------------------------------------------------------
(* The inductive invariant.                                                *)

ValueRec == [type : Types \cup {"none"}, val : STRING \cup {""}]

(* A map as MergeValues and Emplace make one.                              *)
MapOK(m) ==
    \A key \in DOMAIN m :
        /\ key \in Seq(STRING) /\ key # <<>>
        /\ m[key] \in Seq(ValueRec) /\ m[key] # <<>>

MapsOK == MapOK(map) /\ MapOK(result)

(* An offset on the stack is below those above it and below the length of  *)
(* the key, so that every pop shortens the key, and the last one empties   *)
(* it.                                                                     *)
StackOK ==
    /\ curKey \in Seq(STRING)
    /\ keyStack \in Seq(Nat)
    /\ \A i, j \in 1 .. Len(keyStack) : i < j => keyStack[i] < keyStack[j]
    /\ keyStack = <<>> => curKey = <<>>
    /\ keyStack # <<>> =>
          keyStack[1] = 0 /\ keyStack[Len(keyStack)] < Len(curKey)

(* Values that are all strings can be located: a word brings a value with  *)
(* it that is not a string.                                                *)
ValuesOK ==
    /\ values \in Seq(Values)
    /\ (\A i \in 1 .. Len(values) : values[i].type = "String")
          => \A i \in 1 .. Len(values) : values[i].val \in DOMAIN ReplaceFilename

(* An unnamed parenthesis leaves the stack short of the depth for good.    *)
DepthOK ==
    /\ depth \in Nat
    /\ \E S : doc \in Seq(S)
    /\ pc \in Loading =>
          /\ Len(keyStack) <= depth
          /\ (\E i \in 1 .. Len(doc) : doc[i].kind = "open")
                => Len(keyStack) < depth

(* The result has every key that was merged, and its first value is that   *)
(* of any map after which none has the key.                                *)
FirstsOK ==
    /\ \E S : merged \in Seq(S)
    /\ \A i \in 1 .. Len(merged) : \A key \in DOMAIN merged[i] :
          /\ key \in DOMAIN result
          /\ (\A j \in i + 1 .. Len(merged) : key \notin DOMAIN merged[j])
                => result[key][1] = merged[i][key][1]

FlagsOK ==
    /\ pc \in Loading \cup {"next", "done", "failed"}
    /\ found \in BOOLEAN
    /\ nestedList \in BOOLEAN

ConfigIInv == FlagsOK /\ MapsOK /\ StackOK /\ ValuesOK /\ DepthOK /\ FirstsOK

-----------------------------------------------------------------------------
(* Maps of lists.                                                          *)

(* A set of numbers that is not empty has a least one.                     *)
LEMMA LeastOne ==
    ASSUME NEW T, T \subseteq Nat, T # {}
    PROVE  \E k \in T : \A l \in T : k <= l
<1>1. PICK k \in T : \A l \in T : ~(<<l, k>> \in OpToRel(<, Nat))
  BY NatLessThanWellFounded, WFMin
<1>2. \A l \in T : ~(l < k)
  BY <1>1 DEF OpToRel
<1>. QED  BY <1>2

(* A value is a type and a text.                                           *)
LEMMA ValuesAreRecords == Values \subseteq ValueRec
<1>1. Typed \subseteq ValueRec
  BY ConfigAssumption DEF ValueRec
<1>2. \A w \in STRING : String(w) \in ValueRec
  BY DEF String, ValueRec, Types
<1>3. None \in ValueRec
  BY DEF None, ValueRec
<1>4. \A s \in DOMAIN ReplaceFilename : ReplaceFilename[s] \in STRING
  BY ConfigAssumption
<1>. QED  BY <1>1, <1>2, <1>3, <1>4, ConfigAssumption DEF Values

(* CloneNode keeps the first value of the list it is given.                *)
LEMMA CloneNodeKeepsFirst ==
    ASSUME NEW head \in Seq(ValueRec), head # <<>>,
           NEW cloned \in Seq(ValueRec), cloned # <<>>
    PROVE  /\ CloneNode(head, cloned) \in Seq(ValueRec)
           /\ CloneNode(head, cloned) # <<>>
           /\ CloneNode(head, cloned)[1] = head[1]
<1>1. Tail(cloned) \in Seq(ValueRec)
  BY HeadTailProperties
<1>2. Len(head) \in Nat \ {0}
  BY EmptySeq
<1>3. /\ head \o Tail(cloned) \in Seq(ValueRec)
      /\ Len(head \o Tail(cloned)) = Len(head) + Len(Tail(cloned))
      /\ \A i \in 1 .. Len(head) + Len(Tail(cloned)) : (head \o Tail(cloned))[i] =
              IF i <= Len(head) THEN head[i] ELSE Tail(cloned)[i - Len(head)]
  BY <1>1, ConcatProperties
<1>4. Len(Tail(cloned)) \in Nat
  BY <1>1, LenProperties
<1>5. (head \o Tail(cloned))[1] = head[1] /\ Len(head \o Tail(cloned)) > 0
  BY <1>2, <1>3, <1>4
<1>6. head \o Tail(cloned) # <<>>
  BY <1>5, EmptySeq
<1>. QED  BY <1>3, <1>5, <1>6 DEF CloneNode

(* The merge of two maps is a map with the keys of both, in which the      *)
(* first value of the right one counts.                                    *)
LEMMA MergeIsMap ==
    ASSUME NEW l, NEW r, MapOK(l), MapOK(r)
    PROVE  /\ MapOK(MergeValues(l, r))
           /\ DOMAIN MergeValues(l, r) = DOMAIN l \cup DOMAIN r
           /\ \A key \in DOMAIN r : MergeValues(l, r)[key][1] = r[key][1]
           /\ \A key \in DOMAIN l \ DOMAIN r : MergeValues(l, r)[key] = l[key]
<1>1. DOMAIN MergeValues(l, r) = DOMAIN l \cup DOMAIN r
  BY DEF MergeValues
<1>2. \A key \in DOMAIN l \ DOMAIN r : MergeValues(l, r)[key] = l[key]
  BY DEF MergeValues
<1>3. ASSUME NEW key \in DOMAIN r
      PROVE  /\ MergeValues(l, r)[key] \in Seq(ValueRec)
             /\ MergeValues(l, r)[key] # <<>>
             /\ MergeValues(l, r)[key][1] = r[key][1]
  <2>. DEFINE cloned == IF key \in DOMAIN l THEN l[key] ELSE <<None>>
  <2>1. None \in ValueRec
    BY DEF None, ValueRec
  <2>2. cloned \in Seq(ValueRec) /\ cloned # <<>>
    BY <2>1 DEF MapOK
  <2>3. r[key] \in Seq(ValueRec) /\ r[key] # <<>>
    BY DEF MapOK
  <2>4. MergeValues(l, r)[key] = CloneNode(r[key], cloned)
    BY DEF MergeValues
  <2>. HIDE DEF cloned
  <2>. QED  BY <2>2, <2>3, <2>4, CloneNodeKeepsFirst
<1>. QED  BY <1>1, <1>2, <1>3 DEF MapOK

(* A new key of a map.                                                     *)
LEMMA EmplaceIsMap ==
    ASSUME NEW m, MapOK(m), NEW key \in Seq(STRING), key # <<>>,
           NEW list \in Seq(ValueRec), list # <<>>
    PROVE  MapOK(Emplace(m, key, list))
BY DEF MapOK, Emplace

(* What defines the function in Included.                                  *)
Merges(f, n, m, list) ==
    f = [i \in 0 .. n |->
            IF i = 0 THEN m ELSE MergeValues(f[i - 1], Files[list[i].val])]

(* There is such a function.                                               *)
LEMMA MergesExist ==
    ASSUME NEW m, NEW list, NEW n \in Nat
    PROVE  \E f : Merges(f, n, m, list)
<1>. DEFINE Missing == {k \in 0 .. n : ~\E f : Merges(f, k, m, list)}
<1>. SUFFICES ASSUME Missing # {}  PROVE FALSE
  OBVIOUS
<1>0. Missing \subseteq Nat
  OBVIOUS
<1>1. PICK k \in Missing : \A l \in Missing : k <= l
  BY <1>0, LeastOne
<1>2. k # 0
  <2>1. Merges([i \in 0 .. 0 |-> m], 0, m, list)
    BY DEF Merges
  <2>. QED  BY <1>1, <2>1
<1>3. k - 1 \in 0 .. n /\ k - 1 \notin Missing /\ k \in Nat /\ k \in 1 .. n
  BY <1>1, <1>2
<1>4. PICK f : Merges(f, k - 1, m, list)
  BY <1>3
<1>. DEFINE g == [i \in 0 .. k |->
                     IF i = k THEN MergeValues(f[k - 1], Files[list[k].val])
                     ELSE f[i]]
<1>5. \A i \in 0 .. k - 1 :
         f[i] = IF i = 0 THEN m ELSE MergeValues(f[i - 1], Files[list[i].val])
  BY <1>4 DEF Merges
<1>6. ASSUME NEW i \in 0 .. k
      PROVE  g[i] = IF i = 0 THEN m ELSE MergeValues(g[i - 1], Files[list[i].val])
  <2>1. CASE i = k
    <3>1. g[k - 1] = f[k - 1] /\ g[k] = MergeValues(f[k - 1], Files[list[k].val])
      BY <1>3
    <3>. QED  BY <1>2, <2>1, <3>1
  <2>2. CASE i # k
    <3>1. i \in 0 .. k - 1 /\ (i # 0 => i - 1 \in 0 .. k /\ i - 1 # k)
      BY <1>3, <2>2
    <3>2. g[i] = f[i] /\ (i # 0 => g[i - 1] = f[i - 1])
      BY <2>2, <3>1
    <3>. QED  BY <1>5, <3>1, <3>2
  <2>. QED  BY <2>1, <2>2
<1>7. Merges(g, k, m, list)
  BY <1>6 DEF Merges
<1>. QED  BY <1>1, <1>7

(* Files that can be included make a map of a map.                         *)
LEMMA IncludedIsMap ==
    ASSUME NEW m, MapOK(m), NEW list, Len(list) \in Nat,
           \A i \in 1 .. Len(list) : list[i].val \in DOMAIN Files
    PROVE  MapOK(Included(m, list))
<1>. PICK n \in Nat : n = Len(list)
  OBVIOUS
<1>. DEFINE f == CHOOSE g : Merges(g, n, m, list)
<1>1. Included(m, list) = f[n]
  BY DEF Included, Merges
<1>2. Merges(f, n, m, list)
  BY MergesExist
<1>. HIDE DEF f
<1>. DEFINE Bad == {k \in 0 .. n : ~MapOK(f[k])}
<1>3. Bad = {}
  <2>. SUFFICES ASSUME Bad # {}  PROVE FALSE
    OBVIOUS
  <2>0. Bad \subseteq Nat
    OBVIOUS
  <2>1. PICK k \in Bad : \A l \in Bad : k <= l
    BY <2>0, LeastOne
  <2>2. f[k] = IF k = 0 THEN m ELSE MergeValues(f[k - 1], Files[list[k].val])
    BY <1>2, <2>1 DEF Merges
  <2>3. k # 0
    BY <2>1, <2>2
  <2>4. k - 1 \in 0 .. n /\ k - 1 \notin Bad /\ k \in 1 .. n
    BY <2>1, <2>3
  <2>5. MapOK(Files[list[k].val])
    <3>. DEFINE file == Files[list[k].val]
    <3>1. [type : Types \cup {"none"}, val : STRING] \subseteq ValueRec
      BY DEF ValueRec
    <3>2. \A key \in DOMAIN file :
             /\ key \in Seq(STRING) /\ key # <<>>
             /\ file[key] \in Seq([type : Types \cup {"none"}, val : STRING])
             /\ file[key] # <<>>
      BY <2>4, ConfigAssumption
    <3>. HIDE DEF file
    <3>3. MapOK(file)
      BY <3>1, <3>2, SeqMonotonic DEF MapOK
    <3>. QED  BY <3>3 DEF file
  <2>6. MapOK(MergeValues(f[k - 1], Files[list[k].val]))
    BY <2>4, <2>5, MergeIsMap
  <2>. QED  BY <2>1, <2>2, <2>3, <2>6
<1>. QED  BY <1>1, <1>3

-----------------------------------------------------------------------------
(* The steps of the parser.                                                *)

(* An event goes to the end of the document.                               *)
LEMMA DocGrows ==
    ASSUME NEW event, DepthOK, doc' = Append(doc, event)
    PROVE  /\ (\E S : doc \in Seq(S))'
           /\ (\E i \in 1 .. Len(doc) : doc[i].kind = "open")' =>
                 \/ event.kind = "open"
                 \/ \E i \in 1 .. Len(doc) : doc[i].kind = "open"
<1>1. PICK S : doc \in Seq(S)
  BY DEF DepthOK
<1>. DEFINE T == S \cup {event}
<1>2. doc \in Seq(T) /\ event \in T
  BY <1>1, SeqMonotonic
<1>. HIDE DEF T
<1>3. /\ doc' \in Seq(T)
      /\ Len(doc') = Len(doc) + 1
      /\ \A i \in 1 .. Len(doc) : doc'[i] = doc[i]
      /\ doc'[Len(doc) + 1] = event
  BY <1>2, AppendProperties
<1>4. Len(doc) \in Nat
  BY <1>2, LenProperties
<1>. QED  BY <1>3, <1>4

(* What is merged next decides, and the keys it lacks stay as they were.   *)
LEMMA MergeLoadedKeeps ==
    ASSUME MapsOK, FirstsOK, MergeLoaded
    PROVE  MapOK(result') /\ FirstsOK'
<1>1. PICK S : merged \in Seq(S)
  BY DEF FirstsOK
<1>. DEFINE T == S \cup {map}
<1>2. merged \in Seq(T) /\ map \in T
  BY <1>1, SeqMonotonic
<1>. HIDE DEF T
<1>3. /\ merged' \in Seq(T)
      /\ Len(merged') = Len(merged) + 1
      /\ \A i \in 1 .. Len(merged) : merged'[i] = merged[i]
      /\ merged'[Len(merged) + 1] = map
  BY <1>2, AppendProperties DEF MergeLoaded
<1>4. PICK n \in Nat : n = Len(merged)
  BY <1>2, LenProperties
<1>5. /\ MapOK(result')
      /\ DOMAIN result' = DOMAIN result \cup DOMAIN map
      /\ \A key \in DOMAIN map : result'[key][1] = map[key][1]
      /\ \A key \in DOMAIN result \ DOMAIN map : result'[key] = result[key]
  <2>1. result' = MergeValues(result, map) /\ MapOK(result) /\ MapOK(map)
    BY DEF MapsOK, MergeLoaded
  <2>. DEFINE res == MergeValues(result, map)
  <2>2. /\ MapOK(res)
        /\ DOMAIN res = DOMAIN result \cup DOMAIN map
        /\ \A key \in DOMAIN map : res[key][1] = map[key][1]
        /\ \A key \in DOMAIN result \ DOMAIN map : res[key] = result[key]
    BY <2>1, MergeIsMap
  <2>. HIDE DEF res
  <2>3. result' = res
    BY <2>1 DEF res
  <2>. QED  BY <2>2, <2>3
<1>6. ASSUME NEW i \in 1 .. n + 1, NEW key \in DOMAIN merged'[i]
      PROVE  /\ key \in DOMAIN result'
             /\ (\A j \in i + 1 .. n + 1 : key \notin DOMAIN merged'[j])
                   => result'[key][1] = merged'[i][key][1]
  <2>1. CASE i = n + 1
    BY <1>3, <1>4, <1>5, <2>1
  <2>2. CASE i # n + 1
    <3>1. i \in 1 .. n /\ n + 1 \in i + 1 .. n + 1
      BY <2>2
    <3>2. merged'[i] = merged[i] /\ key \in DOMAIN merged[i]
      BY <1>3, <1>4, <3>1
    <3>3. key \in DOMAIN result
      BY <1>4, <3>1, <3>2 DEF FirstsOK
    <3>4. ASSUME \A j \in i + 1 .. n + 1 : key \notin DOMAIN merged'[j]
          PROVE  result'[key][1] = merged[i][key][1]
      <4>1. key \notin DOMAIN map
        BY <1>3, <1>4, <3>1, <3>4
      <4>2. \A j \in i + 1 .. n : key \notin DOMAIN merged[j]
        <5>. TAKE j \in i + 1 .. n
        <5>1. j \in i + 1 .. n + 1 /\ j \in 1 .. n
          BY <3>1
        <5>. QED  BY <1>3, <1>4, <3>4, <5>1
      <4>3. result[key][1] = merged[i][key][1]
        BY <1>4, <3>1, <3>2, <4>2 DEF FirstsOK
      <4>. QED  BY <1>5, <3>3, <4>1, <4>3
    <3>. QED  BY <1>5, <3>2, <3>3, <3>4
  <2>. QED  BY <2>1, <2>2
<1>7. Len(merged') = n + 1
  BY <1>3, <1>4
<1>. QED  BY <1>3, <1>5, <1>6, <1>7 DEF FirstsOK

(* A pop takes the key back to where the operation began.                  *)
LEMMA PopKeyKeeps ==
    ASSUME StackOK, curKey # <<>>, PopKey
    PROVE  /\ StackOK'
           /\ nestedList' \in BOOLEAN
           /\ Len(keyStack) > 0
           /\ Len(keyStack') = Len(keyStack) - 1
<1>1. PICK n \in Nat : n = Len(keyStack)
  BY LenProperties DEF StackOK
<1>2. keyStack # <<>> /\ n > 0
  BY <1>1, EmptySeq DEF StackOK
<1>3. \A i \in 1 .. n : keyStack[i] \in Nat
  BY <1>1, ElementOfSeq DEF StackOK
<1>4. PICK last \in Nat : last = keyStack[n]
  BY <1>2, <1>3
<1>5. PICK len \in Nat : len = Len(curKey)
  BY LenProperties DEF StackOK
<1>6. last < len /\ keyStack[1] = 0
  BY <1>1, <1>2, <1>4, <1>5 DEF StackOK
<1>7. curKey' = SubSeq(curKey, 1, last)
  BY <1>1, <1>4 DEF PopKey, Last
<1>8. \A i \in 1 .. last : curKey[i] \in STRING
  BY <1>5, <1>6, ElementOfSeq DEF StackOK
<1>9. curKey' \in Seq(STRING) /\ Len(curKey') = last
  BY <1>7, <1>8, SubSeqProperties
<1>10. keyStack' = SubSeq(keyStack, 1, n - 1)
  BY <1>1 DEF PopKey, Front
<1>11. /\ keyStack' \in Seq(Nat)
       /\ Len(keyStack') = n - 1
       /\ \A i \in 1 .. n - 1 : keyStack'[i] = keyStack[i]
  <2>1. \A i \in 1 .. n - 1 : keyStack[i] \in Nat
    BY <1>3
  <2>2. /\ SubSeq(keyStack, 1, n - 1) \in Seq(Nat)
        /\ Len(SubSeq(keyStack, 1, n - 1)) =
              IF 1 <= n - 1 THEN (n - 1) - 1 + 1 ELSE 0
        /\ \A i \in 1 .. (n - 1) - 1 + 1 :
              SubSeq(keyStack, 1, n - 1)[i] = keyStack[1 + i - 1]
    BY <2>1, SubSeqProperties
  <2>3. Len(SubSeq(keyStack, 1, n - 1)) = n - 1
    BY <1>2, <2>2
  <2>. QED  BY <1>2, <1>10, <2>2, <2>3
<1>12. ASSUME NEW i \in 1 .. n, NEW j \in 1 .. n, i < j
       PROVE  keyStack[i] < keyStack[j]
  BY <1>1, <1>12 DEF StackOK
<1>13. \A i, j \in 1 .. n - 1 : i < j => keyStack'[i] < keyStack'[j]
  BY <1>11, <1>12
<1>14. CASE n = 1
  <2>1. Len(keyStack') = 0 /\ keyStack' = <<>>
    BY <1>11, <1>14, EmptySeq
  <2>2. curKey' = <<>>
    BY <1>4, <1>6, <1>9, <1>14, EmptySeq
  <2>. QED  BY <1>1, <1>2, <1>9, <1>11, <1>13, <2>1, <2>2 DEF StackOK, PopKey
<1>15. CASE n # 1
  <2>1. n - 1 \in 1 .. n - 1 /\ 1 \in 1 .. n - 1 /\ n \in 1 .. n
    BY <1>2, <1>15
  <2>2. keyStack'[1] = 0
    BY <1>6, <1>11, <2>1
  <2>3. keyStack'[n - 1] < last
    BY <1>4, <1>11, <1>12, <2>1
  <2>4. keyStack' # <<>>
    BY <1>11, <2>1, EmptySeq
  <2>5. StackOK'
    BY <1>9, <1>11, <1>13, <2>2, <2>3, <2>4 DEF StackOK
  <2>. QED  BY <1>1, <1>2, <1>11, <2>5 DEF PopKey
<1>. QED  BY <1>14, <1>15

(* A key goes on the stack where its name begins.                          *)
LEMMA PushKeyKeeps ==
    ASSUME StackOK, NEW name \in Names,
           keyStack' = Append(keyStack, Len(curKey)), curKey' = curKey \o name
    PROVE  /\ StackOK'
           /\ Len(keyStack) \in Nat
           /\ Len(keyStack') = Len(keyStack) + 1
<1>1. PICK n \in Nat : n = Len(keyStack)
  BY LenProperties DEF StackOK
<1>2. PICK len \in Nat : len = Len(curKey)
  BY LenProperties DEF StackOK
<1>3. name \in Seq(STRING) /\ Len(name) \in Nat \ {0}
  BY ConfigAssumption, EmptySeq
<1>4. curKey' \in Seq(STRING) /\ Len(curKey') = len + Len(name)
  BY <1>2, <1>3, ConcatProperties DEF StackOK
<1>5. /\ keyStack' \in Seq(Nat)
      /\ keyStack' # <<>>
      /\ Len(keyStack') = n + 1
      /\ \A i \in 1 .. n : keyStack'[i] = keyStack[i]
      /\ keyStack'[n + 1] = len
  <2>1. keyStack \in Seq(Nat) /\ keyStack' = Append(keyStack, len)
    BY <1>2 DEF StackOK
  <2>. QED  BY <1>1, <2>1, AppendProperties
<1>6. \A i \in 1 .. n : keyStack[i] \in Nat
  BY <1>1, ElementOfSeq DEF StackOK
<1>7. ASSUME NEW i \in 1 .. n, NEW j \in 1 .. n, i < j
      PROVE  keyStack[i] < keyStack[j]
  BY <1>1, <1>7 DEF StackOK
<1>8. n > 0 => keyStack[1] = 0 /\ keyStack[n] < len
  BY <1>1, <1>2, EmptySeq DEF StackOK
<1>9. n = 0 => len = 0
  <2>1. n = 0 => keyStack = <<>>
    BY <1>1, EmptySeq DEF StackOK
  <2>. QED  BY <1>2, <2>1, EmptySeq DEF StackOK
<1>10. \A i \in 1 .. n : keyStack[i] < len
  <2>. TAKE i \in 1 .. n
  <2>1. n > 0 /\ n \in 1 .. n /\ (i < n \/ i = n)
    OBVIOUS
  <2>. QED  BY <1>2, <1>6, <1>7, <1>8, <2>1
<1>11. ASSUME NEW i \in 1 .. n + 1, NEW j \in 1 .. n + 1, i < j
       PROVE  keyStack'[i] < keyStack'[j]
  <2>1. CASE j = n + 1
    BY <1>5, <1>10, <1>11, <2>1
  <2>2. CASE j # n + 1
    BY <1>5, <1>7, <1>11, <2>2
  <2>. QED  BY <2>1, <2>2
<1>12. keyStack'[1] = 0
  BY <1>5, <1>8, <1>9
<1>. QED  BY <1>1, <1>3, <1>4, <1>5, <1>11, <1>12 DEF StackOK

(* The list grows by values of which one is no string, or by one that can  *)
(* be located.                                                             *)
LEMMA AddValuesKeeps ==
    ASSUME ValuesOK, NEW list \in Seq(Values), values' = values \o list,
           \/ \E i \in 1 .. Len(list) : list[i].type # "String"
           \/ \A i \in 1 .. Len(list) :
                 list[i].type = "String" => list[i].val \in DOMAIN ReplaceFilename
    PROVE  ValuesOK'
<1>1. PICK n \in Nat : n = Len(values)
  BY LenProperties DEF ValuesOK
<1>2. PICK m \in Nat : m = Len(list)
  BY LenProperties
<1>3. /\ values' \in Seq(Values)
      /\ Len(values') = n + m
      /\ \A i \in 1 .. n + m :
            values'[i] = IF i <= n THEN values[i] ELSE list[i - n]
  BY <1>1, <1>2, ConcatProperties DEF ValuesOK
<1>4. \A i \in 1 .. m : n + i \in 1 .. n + m /\ values'[n + i] = list[i]
  BY <1>3
<1>5. \A i \in 1 .. n : i \in 1 .. n + m /\ values'[i] = values[i]
  BY <1>3
<1>6. ASSUME \A i \in 1 .. n + m : values'[i].type = "String",
             NEW i \in 1 .. n + m
      PROVE  values'[i].val \in DOMAIN ReplaceFilename
  <2>1. \A k \in 1 .. m : list[k].type = "String"
    BY <1>4, <1>6
  <2>2. \A k \in 1 .. n : values[k].type = "String"
    BY <1>5, <1>6
  <2>3. \A k \in 1 .. m : list[k].val \in DOMAIN ReplaceFilename
    BY <1>2, <2>1
  <2>4. \A k \in 1 .. n : values[k].val \in DOMAIN ReplaceFilename
    BY <1>1, <2>2 DEF ValuesOK
  <2>5. CASE i <= n
    <3>1. i \in 1 .. n
      BY <2>5
    <3>. QED  BY <1>5, <2>4, <3>1
  <2>6. CASE ~(i <= n)
    <3>1. i - n \in 1 .. m /\ n + (i - n) = i
      BY <2>6
    <3>. QED  BY <1>3, <2>3, <2>6, <3>1
  <2>. QED  BY <2>5, <2>6
<1>. QED  BY <1>3, <1>6 DEF ValuesOK

(* Located files can be located again.                                     *)
LEMMA LocateKeeps ==
    ASSUME ValuesOK, AllStrings, EndLocate
    PROVE  ValuesOK'
<1>1. PICK n \in Nat : n = Len(values)
  BY LenProperties DEF ValuesOK
<1>2. \A i \in 1 .. n : values[i].val \in DOMAIN ReplaceFilename
  BY <1>1 DEF AllStrings, ValuesOK
<1>3. \A i \in 1 .. n :
         /\ ReplaceFilename[values[i].val] \in DOMAIN ReplaceFilename
         /\ String(ReplaceFilename[values[i].val]) \in Values
  BY <1>2, ConfigAssumption DEF Values
<1>4. values' = [i \in 1 .. n |-> String(ReplaceFilename[values[i].val])]
  BY <1>1 DEF EndLocate
<1>5. values' \in Seq(Values) /\ Len(values') = n
  BY <1>3, <1>4
<1>6. \A i \in 1 .. n : values'[i].val \in DOMAIN ReplaceFilename
  BY <1>3, <1>4 DEF String
<1>. QED  BY <1>5, <1>6 DEF ValuesOK

(* No values are of any type.                                              *)
LEMMA NoValuesOK == values' = <<>> => ValuesOK'
BY EmptySeq DEF ValuesOK

(* An operation that ends puts a map and values in place.                  *)
LEMMA EndKeeps ==
    ASSUME MapsOK, ValuesOK, StackOK, curKey # <<>>, ~EndFails,
           EndLocate \/ EndInclude \/ EndKey
    PROVE  MapOK(map') /\ ValuesOK'
<1>1. PICK n \in Nat : n = Len(values)
  BY LenProperties DEF ValuesOK
<1>2. CASE EndLocate
  <2>1. AllStrings
    BY <1>2 DEF EndFails, EndLocate
  <2>. QED  BY <1>2, <2>1, LocateKeeps DEF EndLocate, MapsOK
<1>3. CASE EndInclude
  <2>1. \A i \in 1 .. Len(values) : values[i].val \in DOMAIN Files
    BY <1>3 DEF EndFails, EndInclude, Loadable
  <2>2. MapOK(map) /\ Len(values) \in Nat
    BY <1>1 DEF MapsOK
  <2>3. MapOK(Included(map, values))
    BY <2>1, <2>2, IncludedIsMap
  <2>. QED  BY <1>3, <2>3, NoValuesOK DEF EndInclude
<1>4. CASE EndKey
  <2>1. values \in Seq(ValueRec)
    BY ValuesAreRecords, SeqMonotonic DEF ValuesOK
  <2>2. values # <<>> => MapOK(Emplace(map, curKey, values))
    BY <2>1, EmplaceIsMap DEF MapsOK, StackOK
  <2>. QED  BY <1>4, <2>2, NoValuesOK DEF EndKey, MapsOK
<1>. QED  BY <1>2, <1>3, <1>4

(* A parser that is new is in order.                                       *)
LEMMA NewParserOK ==
    ASSUME NEW source \in Loading, LoadFromStream(source)
    PROVE  MapOK(map') /\ StackOK' /\ ValuesOK' /\ DepthOK' /\ nestedList' \in BOOLEAN
           /\ pc' \in Loading
<1>1. MapOK(map')
  BY DEF LoadFromStream, MapOK, NoMap
<1>2. StackOK'
  BY EmptySeq DEF LoadFromStream, StackOK
<1>3. ValuesOK'
  BY NoValuesOK DEF LoadFromStream
<1>4. DepthOK'
  BY EmptySeq DEF LoadFromStream, DepthOK
<1>. QED  BY <1>1, <1>2, <1>3, <1>4 DEF LoadFromStream

-----------------------------------------------------------------------------
(* The inductive invariant holds.                                          *)

(* At the start nothing was read.                                          *)
LEMMA ConfigInitOK == Init => ConfigIInv
<1>. SUFFICES ASSUME Init PROVE ConfigIInv
  OBVIOUS
<1>1. FlagsOK
  BY DEF Init, FlagsOK
<1>2. MapsOK
  BY DEF Init, MapsOK, MapOK, NoMap
<1>3. StackOK
  BY EmptySeq DEF Init, StackOK
<1>4. ValuesOK
  BY EmptySeq DEF Init, ValuesOK
<1>5. DepthOK
  BY EmptySeq DEF Init, DepthOK, Loading
<1>6. FirstsOK
  BY EmptySeq DEF Init, FirstsOK
<1>. QED  BY <1>1, <1>2, <1>3, <1>4, <1>5, <1>6 DEF ConfigIInv

(* A failure leaves everything but the document as it was.                 *)
LEMMA FailsKeeps ==
    ASSUME ConfigIInv, Fails, UNCHANGED <<found, result, merged>>,
           \/ doc' = doc
           \/ \E event : doc' = Append(doc, event)
    PROVE  ConfigIInv'
<1>. USE DEF ConfigIInv, Fails
<1>1. FlagsOK'
  BY DEF FlagsOK
<1>2. MapsOK'
  BY DEF MapsOK
<1>3. StackOK'
  BY DEF StackOK
<1>4. ValuesOK'
  BY DEF ValuesOK
<1>5. (\E S : doc \in Seq(S))'
  BY DocGrows DEF DepthOK
<1>6. DepthOK'
  BY <1>5 DEF DepthOK, Loading
<1>7. FirstsOK'
  BY DEF FirstsOK
<1>. QED  BY <1>1, <1>2, <1>3, <1>4, <1>6, <1>7

(* An event that the parser takes.                                         *)
LEMMA ReadsKeeps ==
    ASSUME ConfigIInv, NEW event, Reads(event), pc' = pc,
           MapOK(map'), StackOK', ValuesOK', nestedList' \in BOOLEAN,
           depth' \in Nat, depth' - Len(keyStack') >= depth - Len(keyStack),
           event.kind = "open" => depth' - Len(keyStack') > depth - Len(keyStack)
    PROVE  ConfigIInv'
<1>. USE DEF ConfigIInv
<1>1. UNCHANGED <<found, result, merged>> /\ doc' = Append(doc, event) /\ pc \in Loading
  BY DEF Reads
<1>2. FlagsOK'
  BY <1>1 DEF FlagsOK
<1>3. MapsOK'
  BY <1>1 DEF MapsOK
<1>4. FirstsOK'
  BY <1>1 DEF FirstsOK
<1>5. Len(keyStack) \in Nat /\ Len(keyStack') \in Nat
  BY LenProperties DEF StackOK
<1>6. DepthOK'
  <2>1. /\ (\E S : doc \in Seq(S))'
        /\ (\E i \in 1 .. Len(doc) : doc[i].kind = "open")' =>
              \/ event.kind = "open"
              \/ \E i \in 1 .. Len(doc) : doc[i].kind = "open"
    BY <1>1, DocGrows
  <2>2. depth \in Nat /\ Len(keyStack) <= depth
    BY <1>1 DEF DepthOK
  <2>3. Len(keyStack') <= depth'
    BY <1>5, <2>2
  <2>4. ASSUME (\E i \in 1 .. Len(doc) : doc[i].kind = "open")'
        PROVE  Len(keyStack') < depth'
    <3>1. CASE event.kind = "open"
      BY <1>5, <2>2, <3>1
    <3>2. CASE event.kind # "open"
      <4>1. Len(keyStack) < depth
        BY <1>1, <2>1, <2>4, <3>2 DEF DepthOK
      <4>. QED  BY <1>5, <2>2, <4>1
    <3>. QED  BY <3>1, <3>2
  <2>. QED  BY <2>1, <2>3, <2>4 DEF DepthOK
<1>. QED  BY <1>2, <1>3, <1>4, <1>6

(* An event that the parser refuses.                                       *)
LEMMA ReadsFailsKeeps ==
    ASSUME ConfigIInv, NEW event, Reads(event), Fails
    PROVE  ConfigIInv'
<1>1. UNCHANGED <<found, result, merged>> /\ doc' = Append(doc, event)
  BY DEF Reads
<1>. QED  BY <1>1, FailsKeeps

(* Values that AddValues takes or refuses.                                 *)
LEMMA AddsKeeps ==
    ASSUME ConfigIInv, NEW event, Reads(event), event.kind # "open",
           NEW list \in Seq(Values), AddValues(list),
           \/ \E i \in 1 .. Len(list) : list[i].type # "String"
           \/ \A i \in 1 .. Len(list) :
                 list[i].type = "String" => list[i].val \in DOMAIN ReplaceFilename
    PROVE  ConfigIInv'
<1>1. CASE nestedList
  BY <1>1, ReadsFailsKeeps DEF AddValues
<1>2. CASE ~nestedList
  <2>1. values' = values \o list /\ UNCHANGED <<pc, depth, map, curKey, keyStack, nestedList>>
    BY <1>2 DEF AddValues
  <2>2. ValuesOK'
    BY <2>1, AddValuesKeeps DEF ConfigIInv
  <2>3. MapOK(map') /\ nestedList' \in BOOLEAN
    BY <2>1 DEF ConfigIInv, MapsOK, FlagsOK
  <2>4. StackOK'
    BY <2>1 DEF ConfigIInv, StackOK
  <2>5. depth' \in Nat /\ Len(keyStack) \in Nat
    BY <2>1, LenProperties DEF ConfigIInv, DepthOK, StackOK
  <2>6. depth' - Len(keyStack') >= depth - Len(keyStack)
    BY <2>1, <2>5
  <2>. QED  BY <2>1, <2>2, <2>3, <2>4, <2>5, <2>6, ReadsKeeps
<1>. QED  BY <1>1, <1>2

(* The parser's steps.                                                     *)
LEMMA ParseKeeps ==
    ASSUME ConfigIInv, Parse
    PROVE  ConfigIInv'
<1>0. PICK n \in Nat : n = Len(keyStack)
  BY LenProperties DEF ConfigIInv, StackOK
<1>1. CASE OpenUnnamed
  <2>1. Reads(Event("open", <<>>)) /\ depth' = depth + 1
        /\ UNCHANGED <<pc, map, curKey, keyStack, values, nestedList>>
    BY <1>1 DEF OpenUnnamed
  <2>2. MapOK(map') /\ nestedList' \in BOOLEAN
    BY <2>1 DEF ConfigIInv, MapsOK, FlagsOK
  <2>3. StackOK'
    BY <2>1 DEF ConfigIInv, StackOK
  <2>4. ValuesOK'
    BY <2>1 DEF ConfigIInv, ValuesOK
  <2>5. depth \in Nat
    BY DEF ConfigIInv, DepthOK
  <2>6. depth' \in Nat /\ depth' - Len(keyStack') > depth - Len(keyStack)
        /\ depth' - Len(keyStack') >= depth - Len(keyStack)
    BY <1>0, <2>1, <2>5
  <2>. QED  BY <2>1, <2>2, <2>3, <2>4, <2>6, ReadsKeeps
<1>2. CASE LexerEndOp
  <2>. DEFINE event == Event("end", <<>>)
  <2>1. depth > 0 /\ Reads(event)
    BY <1>2 DEF LexerEndOp
  <2>2. event.kind # "open"
    BY DEF Event
  <2>. HIDE DEF event
  <2>3. CASE curKey = <<>> \/ EndFails
    <3>1. Fails
      BY <1>2, <2>3 DEF LexerEndOp, NoKey
    <3>. QED  BY <2>1, <3>1, ReadsFailsKeeps
  <2>4. CASE curKey # <<>> /\ ~EndFails
    <3>1. (EndLocate \/ EndInclude \/ EndKey) /\ PopKey /\ depth' = depth - 1 /\ pc' = pc
      BY <1>2, <2>4 DEF LexerEndOp
    <3>2. MapOK(map') /\ ValuesOK'
      BY <2>4, <3>1, EndKeeps DEF ConfigIInv
    <3>3. StackOK' /\ nestedList' \in BOOLEAN /\ Len(keyStack') = n - 1
      BY <1>0, <2>4, <3>1, PopKeyKeeps DEF ConfigIInv
    <3>4. depth \in Nat
      BY DEF ConfigIInv, DepthOK
    <3>5. depth' \in Nat /\ depth' - Len(keyStack') >= depth - Len(keyStack)
      BY <1>0, <2>1, <3>1, <3>3, <3>4
    <3>. QED  BY <2>1, <2>2, <3>1, <3>2, <3>3, <3>5, ReadsKeeps
  <2>. QED  BY <2>3, <2>4
<1>3. CASE LexerFails
  BY <1>3, FailsKeeps DEF LexerFails
<1>4. ASSUME NEW name \in Names, LexerBeginOp(name)
      PROVE  ConfigIInv'
  <2>. DEFINE event == Event("begin", name)
  <2>1. Reads(event)
    BY <1>4 DEF LexerBeginOp
  <2>2. event.kind # "open"
    BY DEF Event
  <2>. HIDE DEF event
  <2>3. CASE values # <<>>
    <3>1. Fails
      BY <1>4, <2>3 DEF LexerBeginOp
    <3>. QED  BY <2>1, <3>1, ReadsFailsKeeps
  <2>4. CASE values = <<>>
    <3>1. /\ depth' = depth + 1
          /\ keyStack' = Append(keyStack, Len(curKey))
          /\ curKey' = curKey \o name
          /\ nestedList' = FALSE
          /\ UNCHANGED <<pc, map, values>>
      BY <1>4, <2>4 DEF LexerBeginOp
    <3>2. StackOK' /\ Len(keyStack') = n + 1
      BY <1>0, <3>1, PushKeyKeeps DEF ConfigIInv
    <3>3. MapOK(map') /\ nestedList' \in BOOLEAN
      BY <3>1 DEF ConfigIInv, MapsOK
    <3>4. ValuesOK'
      BY <2>4, <3>1, NoValuesOK
    <3>5. depth \in Nat
      BY DEF ConfigIInv, DepthOK
    <3>6. depth' \in Nat /\ depth' - Len(keyStack') >= depth - Len(keyStack)
      BY <1>0, <3>1, <3>2, <3>5
    <3>. QED  BY <2>1, <2>2, <3>1, <3>2, <3>3, <3>4, <3>6, ReadsKeeps
  <2>. QED  BY <2>3, <2>4
<1>5. ASSUME NEW v \in Typed, LexerValue(v)
      PROVE  ConfigIInv'
  <2>. DEFINE event == Event("value", v)
  <2>1. Reads(event) /\ AddValues(<<v>>)
    BY <1>5 DEF LexerValue
  <2>2. event.kind # "open"
    BY DEF Event
  <2>. HIDE DEF event
  <2>3. <<v>> \in Seq(Values)
    BY DEF Values
  <2>4. \A i \in 1 .. Len(<<v>>) :
           <<v>>[i].type = "String" => <<v>>[i].val \in DOMAIN ReplaceFilename
    BY ConfigAssumption
  <2>. QED  BY <2>1, <2>2, <2>3, <2>4, AddsKeeps
<1>6. ASSUME NEW w \in Words, LexerUnhandledValue(w)
      PROVE  ConfigIInv'
  <2>. DEFINE event == Event("word", w)
  <2>1. Reads(event) /\ AddValues(<<None, String(w)>>)
    BY <1>6 DEF LexerUnhandledValue
  <2>2. event.kind # "open"
    BY DEF Event
  <2>. HIDE DEF event
  <2>3. <<None, String(w)>> \in Seq(Values)
    <3>1. None \in Values /\ String(w) \in Values
      BY DEF Values
    <3>. QED  BY <3>1
  <2>4. <<None, String(w)>>[1].type # "String" /\ 1 \in 1 .. Len(<<None, String(w)>>)
    <3>1. <<None, String(w)>>[1] = None /\ Len(<<None, String(w)>>) = 2
      OBVIOUS
    <3>2. None.type # "String"
      BY DEF None
    <3>. QED  BY <3>1, <3>2
  <2>5. \E i \in 1 .. Len(<<None, String(w)>>) : <<None, String(w)>>[i].type # "String"
    BY <2>4
  <2>. QED  BY <2>1, <2>2, <2>3, <2>5, AddsKeeps
<1>. QED  BY <1>1, <1>2, <1>3, <1>4, <1>5, <1>6 DEF Parse

(* A new parser for the next document.                                     *)
LEMMA LoadKeeps ==
    ASSUME ConfigIInv, NEW source \in Loading, LoadFromStream(source),
           UNCHANGED <<result, merged>>, found' \in BOOLEAN
    PROVE  ConfigIInv'
<1>1. /\ MapOK(map') /\ StackOK' /\ ValuesOK' /\ DepthOK'
      /\ nestedList' \in BOOLEAN /\ pc' \in Loading
  BY NewParserOK
<1>2. FirstsOK'
  BY DEF ConfigIInv, FirstsOK
<1>3. MapOK(result')
  BY DEF ConfigIInv, MapsOK
<1>. QED  BY <1>1, <1>2, <1>3 DEF ConfigIInv, MapsOK, FlagsOK

(* What was loaded is merged, and the parser is done with.                 *)
LEMMA MergedKeeps ==
    ASSUME ConfigIInv, MergeLoaded, UNCHANGED parserVars, found' = found,
           pc' \in {"next", "done"}
    PROVE  ConfigIInv'
<1>1. MapOK(result') /\ FirstsOK'
  BY MergeLoadedKeeps DEF ConfigIInv
<1>. USE DEF ConfigIInv, parserVars
<1>2. MapOK(map')
  BY DEF MapsOK
<1>3. StackOK'
  BY DEF StackOK
<1>4. ValuesOK'
  BY DEF ValuesOK
<1>5. DepthOK'
  BY DEF DepthOK, Loading
<1>6. FlagsOK'
  BY DEF FlagsOK
<1>. QED  BY <1>1, <1>2, <1>3, <1>4, <1>5, <1>6 DEF MapsOK

(* The same state.                                                         *)
LEMMA SameConfigKeeps ==
    ASSUME ConfigIInv, UNCHANGED vars
    PROVE  ConfigIInv'
BY DEF ConfigIInv, vars, parserVars, FlagsOK, MapsOK, MapOK, StackOK, ValuesOK,
   DepthOK, FirstsOK

(* Every step keeps the invariant.                                         *)
LEMMA ConfigNextOK == ConfigIInv /\ [Next]_vars => ConfigIInv'
<1>. SUFFICES ASSUME ConfigIInv, [Next]_vars PROVE ConfigIInv'
  OBVIOUS
<1>0. found \in BOOLEAN /\ "file" \in Loading /\ "default" \in Loading /\ "args" \in Loading
  BY DEF ConfigIInv, FlagsOK, Loading
<1>1. CASE Parse
  BY <1>1, ParseKeeps
<1>2. CASE NextFile
  <2>1. CASE LoadFromStream("file") /\ found' = TRUE
    BY <1>0, <1>2, <2>1, LoadKeeps DEF NextFile
  <2>2. CASE pc' = "failed" /\ UNCHANGED <<parserVars, events, found>>
    <3>1. Fails /\ UNCHANGED <<found, result, merged>> /\ doc' = doc
      BY <1>2, <2>2 DEF NextFile, Fails, parserVars
    <3>. QED  BY <3>1, FailsKeeps
  <2>. QED  BY <1>2, <2>1, <2>2 DEF NextFile, LoadFromFile
<1>3. CASE TryDefault
  <2>1. found' \in BOOLEAN /\ UNCHANGED <<result, merged>>
        /\ (LoadFromStream("default") \/ LoadFromStream("args"))
    BY <1>0, <1>3 DEF TryDefault
  <2>. QED  BY <1>0, <2>1, LoadKeeps
<1>4. CASE LoadFromArgs
  <2>1. found' \in BOOLEAN /\ UNCHANGED <<result, merged>> /\ LoadFromStream("args")
    BY <1>0, <1>4 DEF LoadFromArgs
  <2>. QED  BY <1>0, <2>1, LoadKeeps
<1>5. CASE FileLoaded
  <2>1. CASE pc = "file"
    BY <1>5, <2>1, MergedKeeps DEF FileLoaded
  <2>2. CASE pc # "file"
    <3>1. found' \in BOOLEAN /\ UNCHANGED <<result, merged>> /\ LoadFromStream("args")
      BY <1>0, <1>5, <2>2 DEF FileLoaded
    <3>. QED  BY <1>0, <3>1, LoadKeeps
  <2>. QED  BY <2>1, <2>2
<1>6. CASE ArgsLoaded
  <2>1. MergeLoaded /\ UNCHANGED parserVars /\ found' = found /\ pc' \in {"next", "done"}
    BY <1>6 DEF ArgsLoaded, parserVars
  <2>. QED  BY <2>1, MergedKeeps
<1>7. CASE Ended \/ UNCHANGED vars
  BY <1>7, SameConfigKeeps DEF Ended
<1>. QED  BY <1>1, <1>2, <1>3, <1>4, <1>5, <1>6, <1>7 DEF Next

-----------------------------------------------------------------------------
(* The theorems.                                                           *)

(* The stacks of ConfigParser stay in step with the parentheses of any     *)
(* document: a pop finds an offset inside of the key, and a document with  *)
(* an unnamed parenthesis never ends with all of them closed.              *)
THEOREM ParserIsInStep == Spec => []ParserInv
<1>1. ConfigIInv => ParserInv
  <2>. SUFFICES ASSUME ConfigIInv PROVE ParserInv
    OBVIOUS
  <2>. USE DEF ConfigIInv
  <2>1. IsMap(result) /\ IsMap(map)
    BY DEF MapsOK, MapOK, IsMap
  <2>2. PICK n \in Nat : n = Len(keyStack)
    BY LenProperties DEF StackOK
  <2>3. PICK len \in Nat : len = Len(curKey)
    BY LenProperties DEF StackOK
  <2>4. \A i \in 1 .. n : keyStack[i] \in Nat
    BY <2>2, ElementOfSeq DEF StackOK
  <2>5. n > 0 => keyStack # <<>> /\ keyStack[n] < len
    BY <2>2, <2>3, EmptySeq DEF StackOK
  <2>6. \A i \in 1 .. n : keyStack[i] \in 0 .. len
    <3>. TAKE i \in 1 .. n
    <3>1. n > 0 /\ n \in 1 .. n /\ (i < n \/ i = n)
      OBVIOUS
    <3>2. i < n => keyStack[i] < keyStack[n]
      BY <2>2, <3>1 DEF StackOK
    <3>. QED  BY <2>3, <2>4, <2>5, <3>1, <3>2
  <2>7. keyStack \in Seq(0 .. len)
    <3>1. keyStack = [i \in 1 .. n |-> keyStack[i]]
      BY <2>2, LenProperties DEF StackOK
    <3>. QED  BY <2>6, <3>1
  <2>8. keyStack = <<>> <=> curKey = <<>>
    <3>1. curKey = <<>> => len = 0
      BY <2>3, EmptySeq
    <3>2. keyStack # <<>> => n > 0
      BY <2>2, EmptySeq DEF StackOK
    <3>3. ~(n > 0 /\ len = 0)
      BY <2>4, <2>5
    <3>. QED  BY <3>1, <3>2, <3>3 DEF StackOK
  <2>9. TypeOK
    BY <2>1, <2>3, <2>7, <2>8 DEF TypeOK, FlagsOK, StackOK, ValuesOK, DepthOK
  <2>10. AllNamed
    BY <2>2 DEF AllNamed, Loaded, DepthOK
  <2>. QED  BY <2>9, <2>10 DEF ParserInv
<1>. QED  BY <1>1, ConfigInitOK, ConfigNextOK, PTL DEF Spec

(* For any files and arguments, what Get returns for a key is what the     *)
(* last one that has the key says.                                         *)
THEOREM LastOneDecides == Spec => []LastOverrides
<1>1. ConfigIInv => LastOverrides
  <2>. SUFFICES ASSUME ConfigIInv,
                       NEW k \in UNION {DOMAIN merged[i] : i \in 1 .. Len(merged)}
                PROVE  LET last == CHOOSE i \in 1 .. Len(merged) :
                               /\ k \in DOMAIN merged[i]
                               /\ \A j \in i + 1 .. Len(merged) :
                                     k \notin DOMAIN merged[j]
                       IN  \A type \in Types :
                               Get(result, k, type) = Get(merged[last], k, type)
    BY DEF LastOverrides
  <2>1. PICK n \in Nat : n = Len(merged)
    BY LenProperties DEF ConfigIInv, FirstsOK
  <2>. DEFINE Last1(i) == /\ k \in DOMAIN merged[i]
                          /\ \A j \in i + 1 .. Len(merged) : k \notin DOMAIN merged[j]
  <2>. DEFINE last == CHOOSE i \in 1 .. Len(merged) : Last1(i)
  <2>. DEFINE FromEnd == {d \in 0 .. n : n - d \in 1 .. n /\ k \in DOMAIN merged[n - d]}
  <2>2. FromEnd # {}
    <3>1. PICK i \in 1 .. n : k \in DOMAIN merged[i]
      BY <2>1
    <3>2. n - i \in 0 .. n /\ n - (n - i) = i
      BY <3>1
    <3>3. n - i \in FromEnd
      BY <3>1, <3>2
    <3>. QED  BY <3>3
  <2>3. FromEnd \subseteq Nat
    OBVIOUS
  <2>4. PICK d \in FromEnd : \A e \in FromEnd : d <= e
    BY <2>2, <2>3, LeastOne
  <2>5. n - d \in 1 .. n /\ Last1(n - d)
    <3>1. ASSUME NEW j \in n - d + 1 .. n, k \in DOMAIN merged[j]
          PROVE  FALSE
      <4>1. n - j \in 0 .. n /\ n - (n - j) = j /\ j \in 1 .. n /\ n - j < d
        BY <2>4, <3>1
      <4>2. n - j \in FromEnd
        BY <3>1, <4>1
      <4>3. d <= n - j /\ d \in Nat /\ n - j \in Nat
        BY <2>3, <2>4, <4>1, <4>2
      <4>. QED  BY <4>1, <4>3
    <3>. QED  BY <2>1, <2>4, <3>1
  <2>6. last \in 1 .. Len(merged) /\ Last1(last)
    BY <2>1, <2>5
  <2>. HIDE DEF last
  <2>7. k \in DOMAIN result /\ result[k][1] = merged[last][k][1]
    BY <2>6 DEF ConfigIInv, FirstsOK
  <2>8. \A type \in Types : Get(result, k, type) = Get(merged[last], k, type)
    BY <2>6, <2>7 DEF Get
  <2>. QED  BY <2>8 DEF last
<1>. QED  BY <1>1, ConfigInitOK, ConfigNextOK, PTL DEF Spec
=============================================================================
