-------------------------------- MODULE Log ---------------------------------
(***************************************************************************)
(* Log (base/log.h, base/log.cc) and Syslog (os/syslog.h): loggers that    *)
(* are made from the configuration, moved to where they stay, and derived  *)
(* from with a prefix, one per worker thread, all of them writing to one   *)
(* file. Time stamps and the text of records are left out.                 *)
(***************************************************************************)
EXTENDS Naturals, Sequences, FiniteSets

CONSTANTS
    Logs,           \* variables of type Log
    Files,          \* log files
    Flags,          \* the sets of flags the configuration may ask for
    LevelNames,     \* values of log.level
    PrefixLengths,  \* lengths of the prefixes of derived logs
    PrefixSize,     \* sizeof(prefix_), 64
    MaxPath,        \* bound: characters of a prefix before it is cut off
    NoFile

ASSUME LogAssumption ==
    /\ Flags \subseteq SUBSET {"stdout", "syslog"}
    /\ PrefixSize \in Nat
    /\ PrefixLengths \subseteq Nat
    /\ NoFile \notin Files

VARIABLES
    logs,       \* the Logs within their lifetime, and their members
    path,       \* per log: the prefix it would have in a buffer without end
    open,       \* files that are open
    logFailed      \* an assertion failed: the program has ended

logVars == <<logs, path, open, logFailed>>

(* The characters of a prefix, those of its names not told apart.          *)
PrefixChars == {"[", "]", " ", "c"}

Log == [level : 0 .. 4, fp : Files \cup {NoFile}, own : BOOLEAN,
        flags : SUBSET {"stdout", "syslog"}, started : BOOLEAN,
        prefix : Seq(PrefixChars)]

LogInit ==
    /\ logs = <<>>
    /\ path = <<>>
    /\ open = {}
    /\ logFailed = FALSE

-----------------------------------------------------------------------------
log_level_names == <<"none", "error", "warning", "info", "verbose">>

LogLevelFromString(name) ==
    {i - 1 : i \in {j \in DOMAIN log_level_names : log_level_names[j] = name}}

Put(l, record, text) ==
    /\ logs' = [k \in DOMAIN logs \cup {l} |-> IF k = l THEN record ELSE logs[k]]
    /\ path' = [k \in DOMAIN logs \cup {l} |-> IF k = l THEN text ELSE path[k]]

(* CreateLog: nothing for a level of another name or a file that cannot be *)
(* opened. The logger is made in Log::Create and moved out of it: there    *)
(* its Syslog is started, and with it stopped again.                       *)
CreateLog(l, name, flags, file) ==
    /\ l \notin DOMAIN logs
    /\ file \notin open
    /\ \E level \in LogLevelFromString(name) :
          Put(l, [level |-> level, fp |-> file, own |-> file # NoFile,
                  flags |-> flags, started |-> FALSE, prefix |-> <<>>], <<>>)
    /\ open' = open \cup ({file} \ {NoFile})
    /\ UNCHANGED logFailed

(* Fault: both loggers own the file afterwards.                            *)
MoveLogSharing(l, m) ==
    /\ l \in DOMAIN logs /\ m \notin DOMAIN logs
    /\ Put(m, [logs[l] EXCEPT !.started = FALSE], path[l])
    /\ UNCHANGED <<open, logFailed>>

(* Log(Log &&): everything but syslog_; the source is left without a file. *)
MoveLog(l, m) ==
    /\ l \in DOMAIN logs /\ m \notin DOMAIN logs
    /\ LET moved == [logs[l] EXCEPT !.started = FALSE]
       IN  logs' = [k \in DOMAIN logs \cup {m} |->
                       IF k = m THEN moved
                       ELSE IF k = l THEN [logs[l] EXCEPT !.own = FALSE, !.fp = NoFile]
                       ELSE logs[k]]
    /\ path' = [k \in DOMAIN logs \cup {m} |-> IF k = m THEN path[l] ELSE path[k]]
    /\ UNCHANGED <<open, logFailed>>

AppendPrefix(prefix, str) ==
    LET size_left == PrefixSize - Len(prefix)
    IN  prefix \o SubSeq(str, 1, IF Len(str) < size_left THEN Len(str) ELSE size_left)

Prefixed(prefix, str) ==
    AppendPrefix(AppendPrefix(AppendPrefix(prefix, <<"[">>), str), <<"]", " ">>)

(* Log(another, prefix): shares the file and does not own it.              *)
Derive(l, m, str) ==
    /\ l \in DOMAIN logs /\ m \notin DOMAIN logs
    /\ Len(path[l]) < MaxPath
    /\ Put(m, [logs[l] EXCEPT !.own = FALSE, !.started = FALSE,
                              !.prefix = Prefixed(@, str)],
              path[l] \o <<"[">> \o str \o <<"]", " ">>)
    /\ UNCHANGED <<open, logFailed>>

(* Error, Warning, Info and Verbose: syslog_.Print asserts that it has     *)
(* been started. Where the record goes changes nothing here.               *)
Write(l) ==
    /\ l \in DOMAIN logs
    /\ "syslog" \in logs[l].flags /\ ~logs[l].started
    /\ logFailed' = TRUE
    /\ UNCHANGED <<logs, path, open>>

(* ~Log. The logger that owns the file outlives those derived from it, as  *)
(* the main program's log outlives the threads.                            *)
DestroyLog(l) ==
    /\ l \in DOMAIN logs
    /\ logs[l].own => \A m \in DOMAIN logs \ {l} : logs[m].fp # logs[l].fp
    /\ logFailed' = ("syslog" \in logs[l].flags /\ ~logs[l].started)
    /\ open' = IF logs[l].own THEN open \ {logs[l].fp} ELSE open
    /\ logs' = [k \in DOMAIN logs \ {l} |-> logs[k]]
    /\ path' = [k \in DOMAIN logs \ {l} |-> path[k]]

LogNext ==
    /\ ~logFailed
    /\ \E l \in Logs :
          \/ \E name \in LevelNames, flags \in Flags, file \in Files \cup {NoFile} :
                CreateLog(l, name, flags, file)
          \/ Write(l)
          \/ DestroyLog(l)
          \/ \E m \in Logs :
                \/ MoveLog(l, m)
                \/ \E n \in PrefixLengths : Derive(l, m, [i \in 1 .. n |-> "c"])

LogSpec == LogInit /\ [][LogNext]_logVars

-----------------------------------------------------------------------------
(* Every logger is complete and the text of its prefix within prefix_.     *)
LogTypeOK ==
    \A l \in DOMAIN logs : logs[l] \in Log /\ Len(logs[l].prefix) <= PrefixSize

(* An open file is closed by exactly one logger, however the first one was *)
(* moved, and no logger writes to a file that was closed.                  *)
OneOwner ==
    /\ \A l \in DOMAIN logs : logs[l].fp \in open \cup {NoFile}
    /\ \A file \in open :
          Cardinality({l \in DOMAIN logs : logs[l].own /\ logs[l].fp = file}) = 1

(* A logger's prefix is the prefixes it was derived through, in order, cut *)
(* off at the end of prefix_ and nowhere else.                             *)
PrefixIsPath ==
    \A l \in DOMAIN logs :
        logs[l].prefix = SubSeq(path[l], 1, IF Len(path[l]) < PrefixSize
                                            THEN Len(path[l]) ELSE PrefixSize)

(* What holds of the loggers after any sequence of these.                  *)
LogInv == LogTypeOK /\ OneOwner /\ PrefixIsPath
=============================================================================
