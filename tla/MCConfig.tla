------------------------------ MODULE MCConfig ------------------------------
(***************************************************************************)
(* Config on all short documents, with a reference reading of a document   *)
(* that knows no stack: operations, what encloses them, and their values,  *)
(* of which an unquoted word is one.                                       *)
(***************************************************************************)
EXTENDS Config

MCNames == {<<"a">>, <<"b">>, <<"a", "b">>, Locate, Include, <<"@x">>}
MCDirectives == {"@locate", "@include", "@x"}
MCTyped == {[type |-> "Int", val |-> "1"], String("f")}
MCWords == {"w"}
MCReplaceFilename == [s \in {"f", "d/f", "d/d/f"} |->
                         IF s = "f" THEN "d/f" ELSE "d/d/f"]
MCFiles == [s \in {"f"} |->
               [k \in {<<"a">>} |-> <<[type |-> "Int", val |-> "7"]>>]]

-----------------------------------------------------------------------------
Opens(i) == doc[i].kind \in {"begin", "open"}

DepthAfter(i) ==
    Cardinality({k \in 1 .. i : Opens(k)})
        - Cardinality({k \in 1 .. i : doc[k].kind = "end"})

(* The end of the operation that event i opens.                            *)
EndOf(i) ==
    CHOOSE j \in i + 1 .. Len(doc) :
        /\ DepthAfter(j) = DepthAfter(i) - 1
        /\ \A k \in i + 1 .. j - 1 : DepthAfter(k) >= DepthAfter(i)

Encloses(i, j) == Opens(i) /\ i < j /\ j < EndOf(i)

Positions(P(_)) == SelectSeq([i \in 1 .. Len(doc) |-> i], P)

(* The key of the operation that event i opens.                            *)
PathOf(i) ==
    LET around == Positions(LAMBDA j : j = i \/ Encloses(j, i))
    IN  FlattenSeq([n \in 1 .. Len(around) |-> doc[around[n]].arg])

(* The values of an operation are those inside of it, or inside of         *)
(* operations that locate files for it.                                    *)
Between(i, j) == {k \in i + 1 .. j : Encloses(k, j)}

BelongsTo(i, j) ==
    /\ doc[j].kind \in {"value", "word"}
    /\ Encloses(i, j)
    /\ \A k \in Between(i, j) : doc[k].arg = Locate

RECURSIVE Located(_, _)
Located(s, n) == IF n = 0 THEN s ELSE Located(ReplaceFilename[s], n - 1)

ValueAt(i, j) ==
    LET v == IF doc[j].kind = "word" THEN String(doc[j].arg) ELSE doc[j].arg
        n == Cardinality(Between(i, j))
    IN  IF n = 0 THEN v ELSE String(Located(v.val, n))

ValuesOf(i) ==
    LET own == Positions(LAMBDA j : BelongsTo(i, j))
    IN  [n \in 1 .. Len(own) |-> ValueAt(i, own[n])]

(* The operations in the order in which they end, each with its effect.    *)
Apply(m, e) ==
    LET i == CHOOSE i \in 1 .. e : Opens(i) /\ EndOf(i) = e
        list == ValuesOf(i)
    IN  IF doc[i].arg = Include
        THEN FoldLeft(LAMBDA acc, v : MergeValues(acc, Files[v.val]), m, list)
        ELSE IF doc[i].arg = Locate \/ list = <<>> THEN m
        ELSE Emplace(m, PathOf(i), list)

MapOf == FoldLeft(Apply, NoMap, Positions(LAMBDA e : doc[e].kind = "end"))

(* The map is what the document says: every key is the path to its         *)
(* operation, with that operation's values, and the first one counts. This *)
(* is of the documents without words.                                      *)
MapIsOfDocument ==
    Loaded /\ (\A i \in 1 .. Len(doc) : doc[i].kind # "word") => map = MapOf

(* An unquoted word is a value too: src/README.md and the example file     *)
(* write (num-threads auto) and (level info), and CreateTaskManager takes  *)
(* the String auto for a value. The parser adds an empty value first, and  *)
(* a list that begins with one defines no key (LexerUnhandledValue).       *)
WordsAreValues == Loaded => map = MapOf
=============================================================================
