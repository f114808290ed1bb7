------------------------------- MODULE Config -------------------------------
(***************************************************************************)
(* The configuration (config/config.cc, config_detail.cc) and how the      *)
(* program loads it (main/main.cc): files named on the command line, or    *)
(* else the default file, and then the arguments that begin with a slash.  *)
(* ConfigParser is a handler of the lexer; its input is the sequence of    *)
(* the lexer's events, one action each.                                    *)
(*                                                                         *)
(* A key is the sequence of its parts, those between its dots.             *)
(***************************************************************************)
EXTENDS Naturals, SequencesExt

CONSTANTS
    Names,              \* names of operations
    Directives,         \* parts that begin with an at sign
    Typed,              \* values of a type: numbers, strings, yes and no
    Words,              \* unquoted texts that are none of these
    ReplaceFilename,    \* path in the directory of the file that is read
    Files,              \* files that can be included, and what is in them
    MaxFiles,           \* bound on the files of the command line
    MaxEvents           \* bound on the events of all files and arguments

Types == {"Int", "Double", "Bool", "String"}

(* A file that is found is in some directory, and its name can be placed   *)
(* there; an included file is a map as the parser makes one.               *)
ASSUME ConfigAssumption ==
    /\ \A n \in Names : n \in Seq(STRING) /\ n # <<>>
    /\ Typed \subseteq [type : Types, val : STRING]
    /\ Words \subseteq STRING
    /\ ReplaceFilename \in [DOMAIN ReplaceFilename -> DOMAIN ReplaceFilename]
    /\ DOMAIN ReplaceFilename \subseteq STRING
    /\ \A v \in Typed : v.type = "String" => v.val \in DOMAIN ReplaceFilename
    /\ \A s \in DOMAIN Files : \A key \in DOMAIN Files[s] :
          /\ key \in Seq(STRING) /\ key # <<>>
          /\ Files[s][key] \in Seq([type : Types \cup {"none"}, val : STRING])
          /\ Files[s][key] # <<>>

VARIABLES
    pc,         \* what LoadConfig is doing
    found,      \* config_file_found
    result,     \* result
    depth,      \* op_depth_ of the lexer
    map,        \* config_map_ of the parser
    curKey,     \* cur_key_
    keyStack,   \* cur_key_stack_
    values,     \* the list from cur_value_head_ to cur_value_last_
    nestedList, \* is_nested_list_
    doc,        \* history: the events of what is being loaded,
    merged,     \* and what was merged into result so far
    files,      \* how many files were loaded,
    events      \* and how many events there were: bounds only

parserVars == <<depth, map, curKey, keyStack, values, nestedList, doc>>
vars == <<pc, found, result, parserVars, merged, files, events>>

Locate == <<"@locate">>
Include == <<"@include">>

String(s) == [type |-> "String", val |-> s]
None == [type |-> "none", val |-> ""]
Values == Typed \cup {String(w) : w \in Words} \cup {None}
                \cup {String(ReplaceFilename[s]) : s \in DOMAIN ReplaceFilename}

Loading == {"file", "default", "args"}
NoMap == [key \in {} |-> <<>>]

IsMap(m) == \A key \in DOMAIN m : key # <<>> /\ m[key] # <<>>

(* The key stack points into the key, which is empty when no operation is  *)
(* open, and no list of a map is empty.                                    *)
TypeOK ==
    /\ pc \in Loading \cup {"next", "done", "failed"}
    /\ found \in BOOLEAN
    /\ IsMap(result) /\ IsMap(map)
    /\ depth \in Nat
    /\ curKey \in Seq(STRING)
    /\ keyStack \in Seq(0 .. Len(curKey))
    /\ keyStack = <<>> <=> curKey = <<>>
    /\ values \in Seq(Values)
    /\ nestedList \in BOOLEAN

-----------------------------------------------------------------------------
(* Maps of lists.                                                          *)

(* Fault: the list that is there is kept.                                  *)
CloneNodeNot(head, cloned) == IF cloned = <<None>> THEN head ELSE cloned

(* The nodes after the first are new, but with only one node next_ stays.  *)
CloneNode(head, cloned) ==
    IF Len(head) = 1 THEN head \o Tail(cloned) ELSE head

MergeValues(left, right) ==
    [key \in DOMAIN left \cup DOMAIN right |->
        IF key \notin DOMAIN right THEN left[key]
        ELSE CloneNode(right[key],
                       IF key \in DOMAIN left THEN left[key] ELSE <<None>>)]

(* The first definition of a key stays.                                    *)
Emplace(m, key, list) ==
    IF key \in DOMAIN m THEN m
    ELSE [k \in DOMAIN m \cup {key} |-> IF k = key THEN list ELSE m[k]]

(* What the program reads: the first value of a list, if of that type.     *)
Get(m, key, type) ==
    IF key \notin DOMAIN m THEN [type |-> "DoesNotExist", val |-> ""]
    ELSE IF m[key][1].type # type THEN [type |-> "InvalidType", val |-> ""]
    ELSE m[key][1]

-----------------------------------------------------------------------------
(* ConfigParser.                                                           *)

Event(kind, arg) == [kind |-> kind, arg |-> arg]

(* An event of the lexer. An argument is made into one operation: CheckArg *)
(* lets no parenthesis through, but quotes, so that it may have several    *)
(* values, or no name.                                                     *)
Reads(event) ==
    /\ pc \in Loading
    /\ events < MaxEvents
    /\ pc = "args" /\ event.kind \in {"begin", "open"} => depth = 0
    /\ pc = "args" /\ event.kind = "end" => values # <<>>
    /\ events' = events + 1
    /\ doc' = Append(doc, event)
    /\ UNCHANGED <<found, result, merged, files>>

Fails ==
    /\ pc' = "failed"
    /\ UNCHANGED <<depth, map, curKey, keyStack, values, nestedList>>

(* A parenthesis without a name: no event for the parser.                  *)
OpenUnnamed ==
    /\ Reads(Event("open", <<>>))
    /\ depth' = depth + 1
    /\ UNCHANGED <<pc, map, curKey, keyStack, values, nestedList>>

LexerBeginOp(name) ==
    /\ Reads(Event("begin", name))
    /\ IF values # <<>> THEN Fails
       ELSE /\ depth' = depth + 1
            /\ keyStack' = Append(keyStack, Len(curKey))
            /\ curKey' = curKey \o name
            /\ nestedList' = FALSE
            /\ UNCHANGED <<pc, map, values>>

CurOp == SubSeq(curKey, Last(keyStack) + 1, Len(curKey))

AllStrings ==
    values # <<>> /\ \A i \in 1 .. Len(values) : values[i].type = "String"

Loadable ==
    /\ AllStrings
    /\ \A i \in 1 .. Len(values) : values[i].val \in DOMAIN Files

(* Fault: a parenthesis without a key is ignored.                          *)
NoKeyIgnored ==
    /\ depth' = depth - 1
    /\ UNCHANGED <<pc, map, curKey, keyStack, values, nestedList>>

NoKey == Fails

EndFails ==
    \/ CurOp = Locate /\ ~AllStrings
    \/ CurOp = Include /\ (Len(keyStack) > 1 \/ ~Loadable)
    \/ CurOp[1] \in Directives /\ CurOp \notin {Locate, Include}

PopKey ==
    /\ curKey' = SubSeq(curKey, 1, Last(keyStack))
    /\ keyStack' = Front(keyStack)
    /\ nestedList' = (Len(keyStack) > 1)

(* Located files are kept for the operation around it.                     *)
EndLocate ==
    /\ CurOp = Locate
    /\ values' = [i \in 1 .. Len(values) |->
                     String(ReplaceFilename[values[i].val])]
    /\ UNCHANGED map

(* The files of a list are merged one after another.                       *)
Included(m, list) ==
    LET merge[i \in 0 .. Len(list)] ==
            IF i = 0 THEN m ELSE MergeValues(merge[i - 1], Files[list[i].val])
    IN  merge[Len(list)]

EndInclude ==
    /\ CurOp = Include
    /\ map' = Included(map, values)
    /\ values' = <<>>

(* Fault: the values stay for the next operation.                          *)
EndKeyKeeps ==
    /\ CurOp[1] \notin Directives
    /\ map' = IF values = <<>> \/ values[1] = None THEN map
              ELSE Emplace(map, curKey, values)
    /\ UNCHANGED values

(* A list whose first value is empty defines no key.                       *)
EndKey ==
    /\ CurOp[1] \notin Directives
    /\ map' = IF values = <<>> \/ values[1] = None THEN map
              ELSE Emplace(map, curKey, values)
    /\ values' = <<>>

LexerEndOp ==
    /\ depth > 0
    /\ Reads(Event("end", <<>>))
    /\ IF curKey = <<>> THEN NoKey
       ELSE IF EndFails THEN Fails
       ELSE /\ EndLocate \/ EndInclude \/ EndKey
            /\ PopKey
            /\ depth' = depth - 1
            /\ UNCHANGED pc

AddValues(list) ==
    IF nestedList THEN Fails
    ELSE /\ values' = values \o list
         /\ UNCHANGED <<pc, depth, map, curKey, keyStack, nestedList>>

(* LexerStrValue, LexerIntValue, LexerDoubleValue, and LexerUnhandledValue *)
(* for yes and no.                                                         *)
LexerValue(v) ==
    /\ depth > 0
    /\ Reads(Event("value", v))
    /\ AddValues(<<v>>)

(* LexerUnhandledValue adds a value and calls LexerStrValue, which adds    *)
(* another.                                                                *)
LexerUnhandledValue(w) ==
    /\ depth > 0
    /\ Reads(Event("word", w))
    /\ AddValues(<<None, String(w)>>)

(* A payload, an error of the lexer, or the end inside of an operation.    *)
LexerFails ==
    /\ pc \in Loading
    /\ Fails
    /\ UNCHANGED <<found, result, doc, merged, files, events>>

-----------------------------------------------------------------------------
(* LoadConfig.                                                             *)

Init ==
    /\ pc = "next"
    /\ found = FALSE
    /\ result = NoMap
    /\ depth = 0 /\ map = NoMap /\ curKey = <<>> /\ keyStack = <<>>
    /\ values = <<>> /\ nestedList = FALSE /\ doc = <<>>
    /\ merged = <<>>
    /\ files = 0 /\ events = 0

(* LoadFromStream with a new parser.                                       *)
LoadFromStream(source) ==
    /\ pc' = source
    /\ depth' = 0 /\ map' = NoMap /\ curKey' = <<>> /\ keyStack' = <<>>
    /\ values' = <<>> /\ nestedList' = FALSE /\ doc' = <<>>
    /\ UNCHANGED events

(* The file may not be there.                                              *)
LoadFromFile ==
    \/ LoadFromStream("file") /\ found' = TRUE
    \/ pc' = "failed" /\ UNCHANGED <<parserVars, events, found>>

(* The next argument is --config and a file.                               *)
NextFile ==
    /\ pc = "next"
    /\ files < MaxFiles
    /\ files' = files + 1
    /\ LoadFromFile
    /\ UNCHANGED <<result, merged>>

(* No file was named, and the default file exists or not.                  *)
TryDefault ==
    /\ pc = "next"
    /\ ~found
    /\ LoadFromStream("default") \/ LoadFromStream("args")
    /\ UNCHANGED <<found, result, merged, files>>

LoadFromArgs ==
    /\ pc = "next"
    /\ found
    /\ LoadFromStream("args")
    /\ UNCHANGED <<found, result, merged, files>>

MergeLoaded ==
    /\ result' = MergeValues(result, map)
    /\ merged' = Append(merged, map)

(* What a file held is merged; the default file's content is not used.     *)
FileLoaded ==
    /\ pc \in {"file", "default"}
    /\ depth = 0
    /\ IF pc = "file"
       THEN MergeLoaded /\ pc' = "next" /\ UNCHANGED <<parserVars, events>>
       ELSE LoadFromStream("args") /\ UNCHANGED <<result, merged>>
    /\ UNCHANGED <<found, files>>

ArgsLoaded ==
    /\ pc = "args"
    /\ depth = 0
    /\ MergeLoaded
    /\ pc' = "done"
    /\ UNCHANGED <<found, parserVars, files, events>>

Ended == pc \in {"done", "failed"} /\ UNCHANGED vars

Parse ==
    \/ OpenUnnamed \/ LexerEndOp \/ LexerFails
    \/ \E name \in Names : LexerBeginOp(name)
    \/ \E v \in Typed : LexerValue(v)
    \/ \E w \in Words : LexerUnhandledValue(w)

Next ==
    \/ Parse
    \/ NextFile \/ TryDefault \/ LoadFromArgs \/ FileLoaded \/ ArgsLoaded
    \/ Ended

Spec == Init /\ [][Next]_vars

-----------------------------------------------------------------------------
(* At the end of a document.                                               *)
Loaded == pc \in Loading /\ depth = 0

(* A parenthesis without a name pops a key that is not its own, but no     *)
(* document that has one is accepted.                                      *)
AllNamed ==
    Loaded => \A i \in 1 .. Len(doc) : doc[i].kind # "open"

(* The parser's stacks stay in step with the parentheses, and a file with  *)
(* an unnamed one is not loaded.                                           *)
ParserInv == TypeOK /\ AllNamed

(* The first value of a key, which is what Get returns, is that of the     *)
(* last file or argument that has the key.                                 *)
LastOverrides ==
    \A key \in UNION {DOMAIN merged[i] : i \in 1 .. Len(merged)} :
        LET last == CHOOSE i \in 1 .. Len(merged) :
                        /\ key \in DOMAIN merged[i]
                        /\ \A j \in i + 1 .. Len(merged) :
                              key \notin DOMAIN merged[j]
        IN  \A type \in Types :
                Get(result, key, type) = Get(merged[last], key, type)
=============================================================================
