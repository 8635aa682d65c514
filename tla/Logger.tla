------------------------------- MODULE Logger -------------------------------
(***************************************************************************)
(* The loggers and appenders of src/logger/logger.cc and appender.cc.      *)
(*                                                                         *)
(* Threads log records through loggers.  A logger without appenders hands  *)
(* the record to the root logger.  Meanwhile loggers are made, appenders   *)
(* are added, removed, cleared and destroyed, and levels are changed.      *)
(*                                                                         *)
(* A logger's shared mutex is held shared while a record is formatted and  *)
(* written to its appenders, and exclusively, for one step, by the changes *)
(* of its list; an appender's mutex is held for one step.  Changes are     *)
(* made by threads that are not in a logger at the time.  A record is the  *)
(* thread that logs it, its number in the thread and its level; what its   *)
(* text looks like is left out.                                            *)
(***************************************************************************)
EXTENDS Integers, Sequences, FiniteSets, SequencesExt

CONSTANTS Threads,
          Loggers,          \* the named loggers, without the root
          Root,             \* the root logger
          Appenders,
          Stdout,           \* the appender the root logger starts with
          Files,            \* the appenders that write to a file
          Levels,           \* Loglevel::Level
          Fatal,            \* LOG_LV_FATAL
          Nothing,          \* the null pointer; no record
          MaxRecords,       \* bound: records each thread logs
          MaxChanges        \* bound: changes of lists and levels

AllLoggers == Loggers \cup {Root}
LowestLevel == CHOOSE lowest \in Levels : \A l \in Levels : lowest <= l

ASSUME LoggerAssumption == /\ Levels \subseteq Nat
                           /\ {Fatal, LowestLevel} \subseteq Levels
                           /\ \A l \in Levels : LowestLevel <= l /\ l <= Fatal
                           /\ Root \notin Loggers
                           /\ Nothing \notin Loggers \cup {Root}
                           /\ Stdout \in Appenders \ Files
                           /\ Files \subseteq Appenders
                           /\ {MaxRecords, MaxChanges} \subseteq Nat

VARIABLES
    made,           \* the loggers in m_loggers
    held,           \* the appenders the program has a reference to
    level,          \* m_level of each logger
    appenders,      \* m_appenders of each logger
    sharing,        \* the threads that hold the logger's mutex shared
    threshold,      \* m_level of each appender
    written,        \* the records written to each appender
    flushed,        \* how many of them have left the process, at least
    synced,         \* how many of them have reached the device, at least
    call,           \* what each thread does
    count,          \* the records each thread has begun to log
    changes         \* the changes of lists and levels made

lists  == <<made, held, appenders, changes>>
levels == <<level, threshold>>
output == <<written, flushed, synced>>
vars == <<lists, levels, output, sharing, call, count>>

Records == [thread : Threads, number : 1 .. MaxRecords, level : Levels]
Idle == [pc |-> "idle"]

\* A call that logs a record or flushes (record is Nothing) through home, and
\* has come to logger.  sync tells sync from flush.  The other fields are
\* history: home's appenders that stay registered after shouldLog's answer;
\* the list as it was when the loop began; the appenders that refused the
\* record.
Calls == [pc : {"ask", "has", "submit", "lock", "format", "append", "write",
                "enter", "flush"},
          record : Records \cup {Nothing},
          home : AllLoggers, logger : AllLoggers, next : Nat \ {0}, sync : BOOLEAN,
          stay : SUBSET Appenders, list : Seq(Appenders), refused : Seq(Appenders)]

TypeOK ==
    /\ made \subseteq AllLoggers /\ Root \in made
    /\ held \subseteq Appenders
    /\ level \in [AllLoggers -> Levels]
    /\ appenders \in [AllLoggers -> Seq(Appenders)]
    /\ sharing \in [AllLoggers -> SUBSET Threads]
    /\ threshold \in [Appenders -> Levels]
    /\ written \in [Appenders -> Seq(Records)]
    /\ flushed \in [Appenders -> Nat]
    /\ synced \in [Appenders -> Nat]
    /\ call \in [Threads -> {Idle} \cup Calls]
    /\ count \in [Threads -> 0 .. MaxRecords]
    /\ changes \in 0 .. MaxChanges

\* LoggerManager has made the root logger with its appender; the program has
\* made the others.
Init ==
    /\ made = {Root}
    /\ held = Appenders \ {Stdout}
    /\ level = [l \in AllLoggers |-> LowestLevel]
    /\ appenders = [l \in AllLoggers |-> IF l = Root THEN <<Stdout>> ELSE <<>>]
    /\ sharing = [l \in AllLoggers |-> {}]
    /\ threshold = [a \in Appenders |-> LowestLevel]
    /\ written = [a \in Appenders |-> <<>>]
    /\ flushed = [a \in Appenders |-> 0]
    /\ synced = [a \in Appenders |-> 0]
    /\ call = [t \in Threads |-> Idle]
    /\ count = [t \in Threads |-> 0]
    /\ changes = 0

At(t, pc) == call[t].pc = pc
Become(t, c) == call' = [call EXCEPT ![t] = c]
Share(l, t) == sharing' = [sharing EXCEPT ![l] = @ \cup {t}]
Unshare(l, t) == sharing' = [sharing EXCEPT ![l] = @ \ {t}]

Empty(l) == appenders[l] = <<>>

\* m_root, which GetLogger sets, and which the root logger does not have.
RootOf(l) == IF l = Root THEN Nothing ELSE Root

\* Variant: m_root is used unchecked.
RootUnchecked(l) == TRUE

HasRoot(l) == RootOf(l) # Nothing

Passes(t, least) == call[t].record.level >= least

-----------------------------------------------------------------------------
(* shouldLog, which the logging macros ask first.                          *)

LogBegin(t, l, lv) ==
    /\ At(t, "idle")
    /\ l \in made
    /\ count[t] < MaxRecords
    /\ count' = [count EXCEPT ![t] = @ + 1]
    /\ Become(t, [pc |-> "ask", home |-> l, logger |-> l, next |-> 1,
                  record |-> [thread |-> t, number |-> count[t] + 1, level |-> lv],
                  sync |-> FALSE, stay |-> {}, list |-> <<>>, refused |-> <<>>])
    /\ UNCHANGED <<lists, levels, output, sharing>>

\* The level of the logger, an atomic.
AskLevel(t) ==
    /\ At(t, "ask")
    /\ Become(t, IF Passes(t, level[call[t].logger])
                 THEN [call[t] EXCEPT !.pc = "has"] ELSE Idle)
    /\ UNCHANGED <<lists, levels, output, sharing, count>>

\* Variant: submit goes to the logger at which shouldLog found appenders.
LoggerFound(c) == c.logger

\* The logger submit is called on.
LoggerAsked(c) == c.home

\* Has the logger appenders?  Without any, the answer is the root's.
AskAppenders(t) ==
    /\ At(t, "has")
    /\ LET c == call[t] IN
       Become(t, IF ~Empty(c.logger)
                 THEN [c EXCEPT !.pc = "submit", !.logger = LoggerAsked(c),
                                !.stay = ToSet(appenders[c.home])]
                 ELSE IF HasRoot(c.logger)
                 THEN [c EXCEPT !.pc = "ask", !.logger = RootOf(@)] ELSE Idle)
    /\ UNCHANGED <<lists, levels, output, sharing, count>>

-----------------------------------------------------------------------------
(* submit, called by ~LogLine, and append.                                 *)

\* The level is compared again; it may have changed.
SubmitLevel(t) ==
    /\ At(t, "submit")
    /\ LET c == call[t] IN
       Become(t, IF Passes(t, level[c.logger])
                 THEN [c EXCEPT !.pc = "lock"] ELSE Idle)
    /\ UNCHANGED <<lists, levels, output, sharing, count>>

\* The shared lock is taken, and kept for the loop.
SubmitOwn(t) ==
    /\ At(t, "lock")
    /\ ~Empty(call[t].logger)
    /\ Share(call[t].logger, t)
    /\ Become(t, [call[t] EXCEPT !.pc = "format", !.list = appenders[call[t].logger]])
    /\ UNCHANGED <<lists, levels, output, count>>

\* Without appenders it is released again and the root gets the record.
SubmitRoot(t) ==
    /\ At(t, "lock")
    /\ Empty(call[t].logger)
    /\ Become(t, IF HasRoot(call[t].logger)
                 THEN [call[t] EXCEPT !.pc = "submit", !.logger = RootOf(@)] ELSE Idle)
    /\ UNCHANGED <<lists, levels, output, sharing, count>>

Format(t) ==
    /\ At(t, "format")
    /\ Become(t, [call[t] EXCEPT !.pc = "append"])
    /\ UNCHANGED <<lists, levels, output, sharing, count>>

\* No memory for the formatted record: nobody gets it.
FormatThrows(t) ==
    /\ At(t, "format")
    /\ Unshare(call[t].logger, t)
    /\ Become(t, Idle)
    /\ UNCHANGED <<lists, levels, output, count>>

Current(t) == appenders[call[t].logger][call[t].next]
Looping(t) == call[t].next <= Len(appenders[call[t].logger])

\* The level of the appender, an atomic, before its mutex is taken.
AppendLevel(t) ==
    /\ At(t, "append")
    /\ Looping(t)
    /\ Become(t, IF Passes(t, threshold[Current(t)])
                 THEN [call[t] EXCEPT !.pc = "write"]
                 ELSE [call[t] EXCEPT !.next = @ + 1,
                                      !.refused = Append(@, Current(t))])
    /\ UNCHANGED <<lists, levels, output, sharing, count>>

\* Variant: nothing is flushed.
FlushesNothing(lv) == FALSE

FlushesAfter(lv) == lv = Fatal

\* Writing, and flushing after a FATAL record, under the appender's mutex.
AppendWrite(t) ==
    /\ At(t, "write")
    /\ LET a == Current(t)
           text == Append(written[a], call[t].record)
       IN  /\ written' = [written EXCEPT ![a] = text]
           /\ flushed' = [flushed EXCEPT ![a] =
                             IF FlushesAfter(call[t].record.level) THEN Len(text) ELSE @]
    /\ Become(t, [call[t] EXCEPT !.pc = "append", !.next = @ + 1])
    /\ UNCHANGED <<lists, levels, synced, sharing, count>>

\* Variant: submit goes on to the root after the loop.
ThenRoot(c) == IF c.logger = Root THEN Idle
               ELSE [c EXCEPT !.pc = "submit", !.logger = Root, !.next = 1,
                              !.refused = <<>>]

AfterLoop(c) == Idle

SubmitEnd(t) ==
    /\ At(t, "append")
    /\ ~Looping(t)
    /\ Unshare(call[t].logger, t)
    /\ Become(t, AfterLoop(call[t]))
    /\ UNCHANGED <<lists, levels, output, count>>

-----------------------------------------------------------------------------
(* flush and sync, which take the same way.                                *)

FlushBegin(t, l, sync) ==
    /\ At(t, "idle")
    /\ l \in made
    /\ Become(t, [pc |-> "enter", home |-> l, logger |-> l, next |-> 1,
                  record |-> Nothing, sync |-> sync,
                  stay |-> {}, list |-> <<>>, refused |-> <<>>])
    /\ UNCHANGED <<lists, levels, output, sharing, count>>

FlushOwn(t) ==
    /\ At(t, "enter")
    /\ ~Empty(call[t].logger)
    /\ Share(call[t].logger, t)
    /\ Become(t, [call[t] EXCEPT !.pc = "flush", !.list = appenders[call[t].logger]])
    /\ UNCHANGED <<lists, levels, output, count>>

FlushRoot(t) ==
    /\ At(t, "enter")
    /\ Empty(call[t].logger)
    /\ Become(t, IF HasRoot(call[t].logger)
                 THEN [call[t] EXCEPT !.logger = RootOf(@)] ELSE Idle)
    /\ UNCHANGED <<lists, levels, output, sharing, count>>

\* Variant: a sync flushes, and leaves the rest to the operating system.
FlushesOnly(a) == FALSE

\* fdatasync; sync of the standard output is its flush.
ReachesDevice(a) == a \in Files

\* Everything written leaves the process, with sync also to the device.
Flush(a, sync) ==
    /\ flushed' = [flushed EXCEPT ![a] = Len(written[a])]
    /\ synced' = [synced EXCEPT ![a] = IF sync /\ ReachesDevice(a)
                                       THEN Len(written[a]) ELSE @]
    /\ UNCHANGED written

FlushOne(t) ==
    /\ At(t, "flush")
    /\ Looping(t)
    /\ Flush(Current(t), call[t].sync)
    /\ Become(t, [call[t] EXCEPT !.next = @ + 1])
    /\ UNCHANGED <<lists, levels, sharing, count>>

FlushEnd(t) ==
    /\ At(t, "flush")
    /\ ~Looping(t)
    /\ Unshare(call[t].logger, t)
    /\ Become(t, Idle)
    /\ UNCHANGED <<lists, levels, output, count>>

-----------------------------------------------------------------------------
(* The loggers, their lists, and the levels.                               *)

\* getLogger of a new name, under m_loggers' mutex.
GetLogger(l) ==
    /\ l \notin made
    /\ made' = made \cup {l}
    /\ UNCHANGED <<held, appenders, changes, levels, output, sharing, call, count>>

Change == changes < MaxChanges /\ changes' = changes + 1

\* Variant: the mutex is not waited for.
AnyTime(l) == TRUE

\* The exclusive lock on the logger's mutex.
Exclusive(l) == sharing[l] = {}

\* History: only these of l's appenders stay registered.
Stayers(l, left) ==
    call' = [t \in Threads |->
                IF call[t] # Idle /\ call[t].home = l
                THEN [call[t] EXCEPT !.stay = @ \cap left] ELSE call[t]]

AddAppender(l, a) ==
    /\ Change
    /\ Exclusive(l)
    /\ l \in made /\ a \in held
    /\ appenders' = [appenders EXCEPT ![l] = Append(@, a)]
    /\ UNCHANGED <<made, held, levels, output, sharing, call, count>>

\* The appenders that the lists and the program refer to; the destructor of
\* a file appender that was and no longer is among them flushes and closes.
InLists(all) == UNION {ToSet(all[l]) : l \in AllLoggers}
Alive(all, program) == InLists(all) \cup program

Destroyed == Alive(appenders, held) \ Alive(appenders', held')

Closes ==
    /\ flushed' = [a \in Appenders |-> IF a \in Destroyed \cap Files
                                       THEN Len(written[a]) ELSE flushed[a]]
    /\ UNCHANGED <<written, synced>>

\* The program drops its last reference.
Release(a) ==
    /\ a \in held
    /\ held' = held \ {a}
    /\ UNCHANGED appenders
    /\ Closes
    /\ UNCHANGED <<made, changes, levels, sharing, call, count>>

\* The program flushes or syncs an appender of its own.
AppenderFlush(a, sync) ==
    /\ Change
    /\ a \in held
    /\ Flush(a, sync)
    /\ UNCHANGED <<made, held, appenders, levels, sharing, call, count>>

\* std::erase: the entries that are not a, in their order.
Order(set) == CHOOSE f \in Bijection(1 .. Cardinality(set), set) :
                  \A j, k \in DOMAIN f : j < k => f[j] < f[k]

Erased(l, a) ==
    LET kept == {i \in DOMAIN appenders[l] : appenders[l][i] # a}
    IN  [k \in 1 .. Cardinality(kept) |-> appenders[l][Order(kept)[k]]]

RemoveAppender(l, a) ==
    /\ Change
    /\ Exclusive(l)
    /\ a \in ToSet(appenders[l]) /\ a \in held
    /\ appenders' = [appenders EXCEPT ![l] = Erased(l, a)]
    /\ Stayers(l, Appenders \ {a})
    /\ UNCHANGED <<made, held, levels, output, sharing, count>>

ClearAppenders(l) ==
    /\ Change
    /\ Exclusive(l)
    /\ ~Empty(l)
    /\ appenders' = [appenders EXCEPT ![l] = <<>>]
    /\ Stayers(l, {})
    /\ UNCHANGED held
    /\ Closes
    /\ UNCHANGED <<made, levels, sharing, count>>

SetLevel(l, lv) ==
    /\ Change
    /\ l \in made
    /\ level' = [level EXCEPT ![l] = lv]
    /\ UNCHANGED <<made, held, appenders, threshold, output, sharing, call, count>>

SetThreshold(a, lv) ==
    /\ Change
    /\ a \in held
    /\ threshold' = [threshold EXCEPT ![a] = lv]
    /\ UNCHANGED <<made, held, appenders, level, output, sharing, call, count>>

-----------------------------------------------------------------------------
LogSteps(t) ==
    \/ AskLevel(t) \/ AskAppenders(t) \/ SubmitLevel(t) \/ SubmitOwn(t)
    \/ SubmitRoot(t) \/ Format(t) \/ FormatThrows(t) \/ AppendLevel(t)
    \/ AppendWrite(t) \/ SubmitEnd(t)

FlushSteps(t) == FlushOwn(t) \/ FlushRoot(t) \/ FlushOne(t) \/ FlushEnd(t)

Begin(t) == \E l \in AllLoggers : \/ \E sync \in BOOLEAN : FlushBegin(t, l, sync)
                                  \/ \E lv \in Levels : LogBegin(t, l, lv)

ListChanges == \E l \in AllLoggers : \/ ClearAppenders(l)
                                     \/ \E a \in Appenders : \/ AddAppender(l, a)
                                                             \/ RemoveAppender(l, a)

LevelChanges == \E lv \in Levels : \/ \E l \in AllLoggers : SetLevel(l, lv)
                                   \/ \E a \in Appenders : SetThreshold(a, lv)

References == \/ \E l \in AllLoggers : GetLogger(l)
              \/ \E a \in Appenders : \/ Release(a)
                                      \/ \E sync \in BOOLEAN : AppenderFlush(a, sync)

Next == \/ \E t \in Threads : LogSteps(t) \/ FlushSteps(t) \/ Begin(t)
        \/ ListChanges \/ LevelChanges \/ References

Spec == Init /\ [][Next]_vars

-----------------------------------------------------------------------------
(* Properties.                                                             *)

Times(x, s) == Cardinality({i \in DOMAIN s : s[i] = x})

\* A loop over a logger's appenders, to write or to flush, runs over the list
\* it began with to its end: no iterator dangles, and when removeAppender has
\* returned nothing is written to the appender through that logger.  A thread
\* holds the mutex of the logger it loops for and no other, and none when the
\* call is over or goes on to the root, whether formatting threw or not:
\* nobody who changes the list waits for a thread that has left.
LoopUndisturbed ==
    \A t \in Threads :
        LET c == call[t]
            loops == c.pc \in {"format", "append", "write", "flush"}
        IN  /\ loops => appenders[c.logger] = c.list
            /\ \A l \in AllLoggers : t \in sharing[l] <=> loops /\ c.logger = l

\* When a record's loop ends, each appender has the record once for each of
\* its entries in the list of the one logger that served it, refusals apart:
\* not a second time through the root, and in no other appender.
WrittenExactly ==
    [][\A t \in Threads : SubmitEnd(t) =>
          \A a \in Appenders :
              Times(call[t].record, written[a]) + Times(a, call[t].refused)
                  = Times(a, call[t].list)]_vars

\* The appenders its logger has from shouldLog's answer on, and keeps, get the
\* record, and the root's get it never in their place: submit does not rely
\* on what shouldLog saw, while lists change between the two and afterwards.
StayersServed ==
    [][\A t \in Threads : SubmitOwn(t) /\ call[t].stay # {} =>
          /\ call[t].logger = call[t].home
          /\ call[t].stay \subseteq ToSet(appenders[call[t].home])]_vars

\* When flush or sync through a logger returns, what the thread itself logged
\* before has left the process, or is on the device, for each appender the
\* call found: also when other threads write to it all the while, and whatever
\* way the records took.
OwnRecordsSafe ==
    [][\A t \in Threads : FlushEnd(t) =>
          \A a \in ToSet(call[t].list) : \A i \in DOMAIN written[a] :
              written[a][i].thread = t =>
                  /\ flushed[a] >= i
                  /\ call[t].sync /\ a \in Files => synced[a] >= i]_vars

\* A FATAL record in an appender has been flushed, with all that was written
\* to the appender before it.
FatalFlushed ==
    \A a \in Appenders : \A i \in DOMAIN written[a] :
        written[a][i].level = Fatal => flushed[a] >= i
=============================================================================
