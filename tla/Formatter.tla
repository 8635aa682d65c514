----------------------------- MODULE Formatter -----------------------------
(***************************************************************************)
(* How a record becomes text: Formatter::format with the format items of   *)
(* src/logger/formatter.cc, called by Logger::Impl::submit under the       *)
(* logger's shared mutex, while other threads call setFormatter.           *)
(*                                                                         *)
(* Each thread has one cached date, which every %d of every formatter      *)
(* shares.  Texts are sequences of tokens; a number and a word are one     *)
(* token each.  How a number is spelled, what strftime makes of a format   *)
(* and a second, and for which seconds localtime_r fails, are constants.   *)
(* Time zone and locale do not change, as the source demands.              *)
(***************************************************************************)
EXTENDS Pattern, SequencesExt

CONSTANTS Threads,
          Records,              \* bound: the records that are logged
          Patterns,             \* bound: the patterns given to setFormatter
          FirstPattern,         \* the pattern the logger starts with
          Tokens,               \* what texts are made of
          Numeral(_),           \* std::to_chars: the token of an integer
          DateText(_, _),       \* strftime's text for a format and a second
          Unrepresentable,      \* seconds that localtime_r refuses
          DEFAULT_DATE_FORMAT,
          MICROSECONDS_WIDTH,   \* 6
          TicksPerMicro,        \* ticks of the system clock in a microsecond
          TicksPerMilli,        \* ticks of the steady clock in a millisecond
          FirstCapacity,        \* of a thread's date buffer, 128
          MAX_BUFFER_SIZE,      \* 64 KiB
          RecordCapacity        \* inline capacity of the formatted record

ASSUME FormatterAssumption ==
    /\ {MICROSECONDS_WIDTH, TicksPerMicro, TicksPerMilli, MAX_BUFFER_SIZE} \subseteq Nat \ {0}
    /\ FirstCapacity \in 1 .. MAX_BUFFER_SIZE
    /\ RecordCapacity \in Nat
    /\ parse(FirstPattern).code = 0
    /\ \A m, n \in 0 .. 9 : Numeral(m) = Numeral(n) => m = n

Buffer == INSTANCE InlineBuffer WITH INLINE_CAPACITY <- RecordCapacity

VARIABLES
    formatter,      \* the items of m_formatter
    sharing,        \* the threads that hold the logger's mutex shared
    cache,          \* the DateCache of each thread
    call            \* what each thread does

vars == <<formatter, sharing, cache, call>>

Idle == [pc |-> "idle"]
At(t, pc) == call[t].pc = pc

Init ==
    /\ formatter = parse(FirstPattern).items
    /\ sharing = {}
    /\ cache = [t \in Threads |-> [valid |-> FALSE, second |-> 0, format |-> <<>>,
                                   buffer |-> <<>>, size |-> 0, capacity |-> FirstCapacity]]
    /\ call = [t \in Threads |-> Idle]

\* items and record are history: the formatter and the record of the call.
TypeOK ==
    /\ sharing = {t \in Threads : call[t] # Idle}
    /\ \A t \in Threads :
          /\ cache[t].capacity \in FirstCapacity .. 2 * MAX_BUFFER_SIZE
          /\ cache[t].valid => cache[t].size \in 1 .. cache[t].capacity - 1
          /\ ~At(t, "idle") => /\ call[t].pc \in {"item", "date"}
                               /\ call[t].items = formatter
                               /\ call[t].record \in Records
                               /\ call[t].next \in 1 .. Len(formatter) + 1

-----------------------------------------------------------------------------
(* The texts of the items.                                                 *)

Power10[n \in 0 .. MICROSECONDS_WIDTH] == IF n = 0 THEN 1 ELSE 10 * Power10[n - 1]

\* Division of C++ rounds towards zero; \div and std::chrono::floor round down.
Truncated(a, b) == IF a < 0 THEN -((-a) \div b) ELSE a \div b
Remainder(a, b) == a - b * Truncated(a, b)

TicksPerSecond == TicksPerMicro * Power10[MICROSECONDS_WIDTH]
SecondOf(time) == time \div TicksPerSecond

\* Variant: a negative remainder stays negative.
AsItIs(remainder) == IF remainder < 0 THEN -remainder ELSE remainder

NonNegative(remainder) ==
    IF remainder < 0 THEN remainder + Power10[MICROSECONDS_WIDTH] ELSE remainder

\* The digits, from the most significant on, with zeros in front.
Microseconds(time) ==
    LET micros == NonNegative(Remainder(time \div TicksPerMicro, Power10[MICROSECONDS_WIDTH]))
    IN  [i \in 1 .. MICROSECONDS_WIDTH |->
            Numeral((micros \div Power10[MICROSECONDS_WIDTH - i]) % 10)]

AppendInteger(n) == <<Numeral(n)>>

\* The place of the statement and who ran it.
PlaceText(item, record) ==
    CASE item.kind = "f" -> record.fileName
      [] item.kind = "T" -> <<"\t">>
      [] item.kind = "l" -> AppendInteger(record.line)
      [] item.kind = "F" -> AppendInteger(record.fiberId)
      [] item.kind = "N" -> record.threadName

\* What an item other than %d adds.
ItemText(item, record) ==
    CASE item.kind = "literal" -> item.text
      [] item.kind = "m" -> record.message
      [] item.kind = "p" -> record.level
      [] item.kind = "r" -> AppendInteger(Truncated(record.elapsed, TicksPerMilli))
      [] item.kind = "c" -> record.loggerName
      [] item.kind = "t" -> AppendInteger(record.threadId)
      [] item.kind = "n" -> <<"\n">>
      [] item.kind = "u" -> Microseconds(record.time)
      [] OTHER -> PlaceText(item, record)

DateFormat(item) == IF item.config = <<>> THEN DEFAULT_DATE_FORMAT ELSE item.config

\* Texts are sequences of tokens, and times are numbers of ticks.
ASSUME TextAssumption ==
    /\ Patterns \cup {FirstPattern} \subseteq Seq(Tokens)
    /\ \A record \in Records :
          /\ {record.message, record.level, record.loggerName, record.fileName,
              record.threadName} \subseteq Seq(Tokens)
          /\ {record.time, record.elapsed, record.threadId, record.line, record.fiberId} \subseteq Int
          /\ \A pattern \in Patterns \cup {FirstPattern} :
                \A item \in ToSet(parse(pattern).items) :
                    item.kind = "d" =>
                        DateText(DateFormat(item), SecondOf(record.time)) \in Seq(Tokens)

\* strftime of '!' and the format; the empty text when it does not fit with
\* its terminator.
Strftime(capacity, format, second) ==
    LET text == <<"!">> \o DateText(format, second)
    IN  IF Len(text) + 1 <= capacity THEN text ELSE <<>>

-----------------------------------------------------------------------------
(* A call of format.                                                       *)

Current(t) == formatter[call[t].next]
Working(t) == At(t, "item") /\ call[t].next <= Len(formatter)
IsDate(t)  == Working(t) /\ Current(t).kind = "d"
Format(t)  == DateFormat(Current(t))
Second(t)  == SecondOf(call[t].record.time)

Begin(t, record) ==
    /\ At(t, "idle")
    /\ sharing' = sharing \cup {t}
    /\ call' = [call EXCEPT ![t] = [pc |-> "item", record |-> record, items |-> formatter,
                                    next |-> 1, output |-> Buffer!EmptyBuffer]]
    /\ UNCHANGED <<formatter, cache>>

\* submit's catch: the record is lost, the lock is released.
Fail(t) ==
    /\ sharing' = sharing \ {t}
    /\ call' = [call EXCEPT ![t] = Idle]

\* The output gets text and the next item follows.
Put(t, text) ==
    /\ call' = [call EXCEPT ![t].output = Buffer!append(@, text),
                            ![t].pc = "item", ![t].next = @ + 1]
    /\ UNCHANGED sharing

PlainItem(t) ==
    /\ Working(t) /\ Current(t).kind # "d"
    /\ Put(t, ItemText(Current(t), call[t].record))
    /\ UNCHANGED <<formatter, cache>>

\* Variant: the format is not part of the key.
SameSecond(c, format, second) == c.valid /\ c.second = second

Hits(c, format, second) == c.valid /\ c.second = second /\ c.format = format

CachedText(c) == SubSeq(c.buffer, 2, c.size)

DateHit(t) ==
    /\ IsDate(t)
    /\ Hits(cache[t], Format(t), Second(t))
    /\ Put(t, CachedText(cache[t]))
    /\ UNCHANGED <<formatter, cache>>

\* Variant: the old key stays valid until the new one is stored.
KeptValid(c) == c

Invalidated(c) == [c EXCEPT !.valid = FALSE]

\* The entry is given up before its buffer is touched.
DateMiss(t) ==
    /\ IsDate(t)
    /\ ~Hits(cache[t], Format(t), Second(t))
    /\ cache' = [cache EXCEPT ![t] = Invalidated(@)]
    /\ IF Second(t) \in Unrepresentable
       THEN Fail(t)
       ELSE call' = [call EXCEPT ![t].pc = "date"] /\ UNCHANGED sharing
    /\ UNCHANGED formatter

Written(t) == Strftime(cache[t].capacity, Format(t), Second(t))

Stored(t) == [cache[t] EXCEPT !.buffer = Written(t), !.format = Format(t),
                              !.second = Second(t), !.size = Len(Written(t)),
                              !.valid = TRUE]

\* The key is complete, then valid is set, then the text is put out.
DateStore(t) ==
    /\ At(t, "date")
    /\ Written(t) # <<>>
    /\ cache' = [cache EXCEPT ![t] = Stored(t)]
    /\ Put(t, Tail(Written(t)))
    /\ UNCHANGED formatter

\* Variant: the buffer is allocated again at the size it has.
NotGrown(capacity) == capacity

Grown(capacity) == capacity * 2

\* What a strftime that ran out of space left in the buffer is no text.
DateGrow(t) ==
    /\ At(t, "date")
    /\ Written(t) = <<>> /\ cache[t].capacity < MAX_BUFFER_SIZE
    /\ cache' = [cache EXCEPT ![t].capacity = Grown(@), ![t].buffer = <<>>]
    /\ UNCHANGED <<formatter, sharing, call>>

\* The text does not fit in the largest buffer.
DateLimit(t) ==
    /\ At(t, "date")
    /\ Written(t) = <<>> /\ cache[t].capacity >= MAX_BUFFER_SIZE
    /\ cache' = [cache EXCEPT ![t].buffer = <<>>]
    /\ Fail(t)
    /\ UNCHANGED formatter

\* There is no memory: for the output of an item, of a date that hits, or of
\* one that has been stored; to copy the format; to grow the buffer.
OutOfMemory(t) ==
    /\ \/ /\ Working(t) /\ (IsDate(t) => Hits(cache[t], Format(t), Second(t)))
          /\ Buffer!MayThrow(call[t].output, IF IsDate(t) THEN CachedText(cache[t])
                                             ELSE ItemText(Current(t), call[t].record))
          /\ UNCHANGED cache
       \/ /\ At(t, "date") /\ Written(t) # <<>>
          /\ Buffer!MayThrow(call[t].output, Tail(Written(t)))
          /\ cache' = [cache EXCEPT ![t] = Stored(t)]
       \/ /\ At(t, "date")
          /\ Written(t) = <<>> => cache[t].capacity < MAX_BUFFER_SIZE
          /\ cache' = [cache EXCEPT ![t].buffer = Written(t)]
    /\ Fail(t)
    /\ UNCHANGED formatter

\* The record goes to the appenders (module Logger) and the lock is released.
End(t) ==
    /\ At(t, "item") /\ call[t].next > Len(formatter)
    /\ Fail(t)
    /\ UNCHANGED <<formatter, cache>>

-----------------------------------------------------------------------------
\* Variant: the mutex is not waited for.
AnyTime == TRUE

\* The exclusive lock on the logger's mutex.
Exclusive == sharing = {}

\* The formatter is made before the lock is asked for; a pattern that is not
\* well-formed throws and leaves the logger as it is.
SetFormatter(pattern) ==
    /\ Exclusive
    /\ parse(pattern).code = 0
    /\ formatter' = parse(pattern).items
    /\ UNCHANGED <<sharing, cache, call>>

Steps(t) == \/ PlainItem(t) \/ DateHit(t) \/ DateMiss(t) \/ DateStore(t)
            \/ DateGrow(t) \/ DateLimit(t) \/ End(t)

Next == \/ \E t \in Threads : \/ Steps(t) \/ OutOfMemory(t)
                              \/ \E record \in Records : Begin(t, record)
        \/ \E pattern \in Patterns : SetFormatter(pattern)

\* A thread goes on with the record it formats: the code waits for nobody.
Fairness == \A t \in Threads : WF_vars(Steps(t))

Spec == Init /\ [][Next]_vars /\ Fairness

-----------------------------------------------------------------------------
(* Properties.                                                             *)

\* The text of a record without caches, limits and rounding of C++: the date
\* is that of the second that contains the time, and the date together with
\* the microseconds gives the time back, to the microsecond, before the epoch
\* as well as after it.
Moment(time) ==
    CHOOSE m \in [second : (time \div TicksPerSecond) - 1 .. (time \div TicksPerSecond) + 1,
                  micro : 0 .. Power10[MICROSECONDS_WIDTH] - 1] :
        LET start == m.second * TicksPerSecond + m.micro * TicksPerMicro
        IN  time \in start .. start + TicksPerMicro - 1

NumberOf(digits) ==
    LET upto[i \in 0 .. Len(digits)] ==
            IF i = 0 THEN 0
            ELSE 10 * upto[i - 1] + (CHOOSE k \in 0 .. 9 : Numeral(k) = digits[i])
    IN  upto[Len(digits)]

ExactText(item, record) ==
    CASE item.kind = "d" -> DateText(DateFormat(item), Moment(record.time).second)
      [] item.kind = "u" ->
            CHOOSE digits \in [1 .. MICROSECONDS_WIDTH -> {Numeral(k) : k \in 0 .. 9}] :
                NumberOf(digits) = Moment(record.time).micro
      [] OTHER -> ItemText(item, record)

\* A record that is written is exactly what the one formatter its thread found
\* makes of it.  Formatters that take turns on the thread's cached date,
\* conversions that failed half way, growing buffers and setFormatter calls
\* leave no trace in it.
RecordExact ==
    [][\A t \in Threads : End(t) =>
          Buffer!view(call[t].output) =
              FlattenSeq([i \in DOMAIN call[t].items |->
                             ExactText(call[t].items[i], call[t].record)])]_vars

\* A record is finished or given up after finitely many attempts: the loop
\* around strftime cannot run for ever, even when the date never fits.
FormatEnds == \A t \in Threads : (call[t] # Idle) ~> (call[t] = Idle)
=============================================================================
