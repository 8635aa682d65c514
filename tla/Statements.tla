----------------------------- MODULE Statements -----------------------------
(***************************************************************************)
(* What a thread does while it logs and while its assertions fail: the     *)
(* statements of include/ureactor/logger/log.h with LogLine and LogPrintf  *)
(* of src/logger/log_line.cc, ReportAssertionFailure of macros.h, and the  *)
(* thread's name in src/utils/thread_utils.cc.                             *)
(*                                                                         *)
(* A message is an expression of the caller's, evaluated between the start *)
(* of a statement or report and its end.  It may contain statements, fail  *)
(* assertions, rename the thread or throw.  So the thread has a stack of   *)
(* unfinished statements and reports.  All of this state is the thread's   *)
(* own, so one thread is modelled; it stays on its thread meanwhile, also  *)
(* when it runs in a fiber.  Where the records go is module Logger.        *)
(***************************************************************************)
EXTENDS Integers, Sequences, SequencesExt

CONSTANTS Characters,
          Texts,            \* bound: what the caller's code inserts
          Names,            \* bound: names given to SetThreadName
          FirstNames,       \* names the system may have for a new thread
          DEFAULT_THREAD_NAME,
          FormatError,      \* the text "<format-error>"
          Unavailable,      \* the text "[unavailable: formatting threw]"
          NativeLength,     \* characters of a name the system keeps, 15
          MessageCapacity,  \* LOG_MASSAGE_INLINE_CAPACITY
          PrintfCapacity,   \* PRINTF_FORMAT_INLINE_CAPACITY
          MaxDepth,         \* bound: statements and reports in one another
          MaxLength,        \* bound: characters inserted into a message
          MaxRenames        \* bound: calls of SetThreadName

ASSUME StatementsAssumption ==
    /\ {NativeLength, MessageCapacity, PrintfCapacity} \subseteq Nat \ {0}
    /\ PrintfCapacity <= MessageCapacity
    /\ {MaxDepth, MaxLength, MaxRenames} \subseteq Nat
    /\ Texts \cup Names \cup FirstNames \subseteq Seq(Characters)
    /\ {DEFAULT_THREAD_NAME, FormatError, Unavailable} \subseteq Seq(Characters)
    /\ \A text \in FirstNames : Len(text) <= NativeLength
    /\ <<>> \notin Names

Buffer == INSTANCE InlineBuffer WITH INLINE_CAPACITY <- MessageCapacity

VARIABLES
    debug,          \* a Debug build: a failed assertion ends the process
    aborted,        \* it has ended
    stack,          \* unfinished statements and reports, the innermost first
    throwing,       \* an exception is on its way out of the innermost one
    reporting,      \* reporting_assertion
    name,           \* t_thread_name; storage changes with every assignment
    native          \* the name the system has for the thread

thread == <<name, native>>
vars == <<debug, aborted, stack, throwing, reporting, thread>>

Min2(a, b) == IF a <= b THEN a ELSE b

\* pthread_getname_np may fail; the name is then empty.
Init ==
    /\ debug \in BOOLEAN /\ aborted = FALSE
    /\ stack = <<>>
    /\ throwing = FALSE
    /\ reporting = FALSE
    /\ native \in FirstNames
    /\ name \in [text : {native, <<>>}, storage : {0}]

Kinds == {"stream", "printf", "large", "written", "report", "caught"}

Views == [text : Seq(Characters), storage : Nat]
Buffers == [inline : Seq(Characters), overflow : Seq(Characters), size : Nat]
Frames == [kind : Kinds, view : Views, buffer : Buffers, bad : BOOLEAN,
           sent : Seq(Characters), text : Seq(Characters)]

TypeOK ==
    /\ debug \in BOOLEAN /\ aborted \in BOOLEAN /\ (aborted => debug)
    /\ stack \in Seq(Frames) /\ Len(stack) <= MaxDepth
    /\ throwing \in BOOLEAN /\ reporting \in BOOLEAN
    /\ name \in Views /\ name.storage <= MaxRenames
    /\ native \in Seq(Characters) /\ Len(native) <= NativeLength

Top == stack[1]
Running == ~aborted /\ ~throwing
\* The caller's code runs: outside of everything, or in a message.
Calling == Running /\ (stack # <<>> => Top.kind \in {"stream", "report"})
Replace(frame) == stack' = <<frame>> \o Tail(stack)

\* A LogLine, or the string stream of a report.  view is what GetThreadName
\* gave, bad the badbit of the stream; sent is history: what was inserted.
Frame(kind) == [kind |-> kind, view |-> name, buffer |-> Buffer!EmptyBuffer,
                bad |-> FALSE, sent |-> <<>>, text |-> <<>>]
Push(frame) == Len(stack) < MaxDepth /\ stack' = <<frame>> \o stack

-----------------------------------------------------------------------------
(* Messages.                                                               *)

\* UREACTOR_LOG_LEVEL past shouldLog: the LogLine is made before the message
\* is evaluated.
StreamBegin ==
    /\ Calling
    /\ Push(Frame("stream"))
    /\ UNCHANGED <<debug, aborted, throwing, reporting, thread>>

\* operator<<; a stream that went bad takes nothing more.
Inserted(frame, text) ==
    [frame EXCEPT !.buffer = IF frame.bad THEN @ ELSE Buffer!append(@, text),
                  !.sent = @ \o text]

Insert(text) ==
    /\ Calling /\ stack # <<>>
    /\ Len(Top.sent) + Len(text) <= MaxLength
    /\ Replace(Inserted(Top, text))
    /\ UNCHANGED <<debug, aborted, throwing, reporting, thread>>

\* The buffer finds no memory after k characters.  The stream catches the
\* exception and goes bad; the caller is not told.
OutOfMemoryAt(frame, text, k) ==
    /\ ~frame.bad
    /\ Buffer!MayThrow(Buffer!append(frame.buffer, SubSeq(text, 1, k)),
                       SubSeq(text, k + 1, Len(text)))

Cut(frame, text, k) ==
    [frame EXCEPT !.buffer = Buffer!append(@, SubSeq(text, 1, k)),
                  !.bad = TRUE, !.sent = @ \o text]

InsertFails(text) ==
    /\ Calling /\ stack # <<>>
    /\ Len(Top.sent) + Len(text) <= MaxLength
    /\ \E k \in 0 .. Len(text) - 1 : OutOfMemoryAt(Top, text, k) /\ Replace(Cut(Top, text, k))
    /\ UNCHANGED <<debug, aborted, throwing, reporting, thread>>

\* UREACTOR_LOG_FMT_LEVEL: the arguments have been evaluated before, outside
\* of the LogLine.  text is what they give in the format.
PrintfBegin(text) ==
    /\ Calling
    /\ Push([Frame("printf") EXCEPT !.text = text])
    /\ UNCHANGED <<debug, aborted, throwing, reporting, thread>>

Finished(frame, text) == [Inserted(frame, text) EXCEPT !.kind = "written"]

\* Variant: a text that fills the buffer is taken from it, cut by the '\0'.
FitsTight(size) == size <= PrintfCapacity

FitsInline(size) == size < PrintfCapacity

\* The first vsnprintf writes at most the inline buffer, with its '\0', and
\* returns the size that would be needed.
PrintfInline ==
    /\ Running /\ stack # <<>> /\ Top.kind = "printf"
    /\ LET inline == SubSeq(Top.text, 1, Min2(Len(Top.text), PrintfCapacity - 1))
       IN  Replace(IF FitsInline(Len(Top.text)) THEN Finished(Top, inline)
                   ELSE [Top EXCEPT !.kind = "large"])
    /\ UNCHANGED <<debug, aborted, throwing, reporting, thread>>

PrintfOverflow ==
    /\ Running /\ stack # <<>> /\ Top.kind = "large"
    /\ Replace(Finished(Top, Top.text))
    /\ UNCHANGED <<debug, aborted, throwing, reporting, thread>>

\* There is no format, or vsnprintf fails, the first time or the second.
PrintfError ==
    /\ Running /\ stack # <<>> /\ Top.kind \in {"printf", "large"}
    /\ Replace([Finished(Top, FormatError) EXCEPT !.text = FormatError])
    /\ UNCHANGED <<debug, aborted, throwing, reporting, thread>>

\* No memory for the overflow buffer: LogPrintf throws.
PrintfThrows ==
    /\ Running /\ stack # <<>> /\ Top.kind = "large"
    /\ throwing' = TRUE
    /\ UNCHANGED <<debug, aborted, stack, reporting, thread>>

\* No memory in the LogLine's own buffer.
PrintfCut ==
    /\ Running /\ stack # <<>> /\ Top.kind = "large"
    /\ OutOfMemoryAt(Top, Top.text, 0)
    /\ Replace([Cut(Top, Top.text, 0) EXCEPT !.kind = "written"])
    /\ UNCHANGED <<debug, aborted, throwing, reporting, thread>>

Submitting == stack # <<>> /\ Top.kind # "report"

\* ~LogLine at the end of the statement submits the record.
StatementEnd ==
    /\ Running /\ Submitting /\ Top.kind \in {"stream", "written"}
    /\ stack' = Tail(stack)
    /\ UNCHANGED <<debug, aborted, throwing, reporting, thread>>

\* The caller's code throws.
Throw ==
    /\ Calling /\ stack # <<>>
    /\ throwing' = TRUE
    /\ UNCHANGED <<debug, aborted, stack, reporting, thread>>

\* ~LogLine while the stack is unwound submits what there is of the message.
\* The exception goes on, or code around the statement catches it.
StatementUnwound ==
    /\ ~aborted /\ throwing /\ Submitting
    /\ stack' = Tail(stack)
    /\ throwing' \in {Tail(stack) # <<>>, FALSE}
    /\ UNCHANGED <<debug, aborted, reporting, thread>>

-----------------------------------------------------------------------------
(* Failed assertions.                                                      *)

\* Variant: a report does not look for another one around it.
NeverNested == FALSE

Nested == reporting

\* assert(false), after the report.
Abort == aborted' = debug

ReportBegin ==
    /\ Calling /\ ~Nested
    /\ Push(Frame("report"))
    /\ reporting' = TRUE
    /\ UNCHANGED <<debug, aborted, throwing, thread>>

\* A nested failure prints the expression and the place, no more.
ReportNested ==
    /\ Calling /\ Nested
    /\ Abort
    /\ UNCHANGED <<debug, stack, throwing, reporting, thread>>

\* The message expression throws; the report goes on without a message.
ReportCatches ==
    /\ ~aborted /\ throwing /\ Top.kind = "report"
    /\ throwing' = FALSE
    /\ Replace([Frame("report") EXCEPT !.buffer = Buffer!append(@, Unavailable),
                                       !.sent = Unavailable, !.kind = "caught"])
    /\ UNCHANGED <<debug, aborted, reporting, thread>>

\* The message and the stack trace, or a note that there is none, are printed;
\* Reset clears the flag.
ReportEnd ==
    /\ Running /\ stack # <<>> /\ Top.kind \in {"report", "caught"}
    /\ stack' = Tail(stack)
    /\ reporting' = FALSE
    /\ Abort
    /\ UNCHANGED <<debug, throwing, thread>>

-----------------------------------------------------------------------------
(* The thread's name.                                                      *)

\* Variant: the system is given the whole name.
WholeName(text) == text

NativeName(text) == SubSeq(text, 1, Min2(Len(text), NativeLength))

Assign(text) == name' = [text |-> text, storage |-> name.storage + 1]

SetThreadName(text) ==
    /\ Calling
    /\ name.storage < MaxRenames
    /\ Assign(text)
    /\ native' = NativeName(text)
    /\ UNCHANGED <<debug, aborted, stack, throwing, reporting>>

\* An empty name fails an assertion, with a message that cannot fail; the name
\* is then the system's, or the default.
SetThreadNameEmpty ==
    /\ Calling
    /\ name.storage < MaxRenames
    /\ Abort
    /\ IF debug THEN UNCHANGED name
       ELSE \E found \in {native, <<>>} :
               Assign(IF found = <<>> THEN DEFAULT_THREAD_NAME ELSE found)
    /\ UNCHANGED <<debug, stack, throwing, reporting, native>>

-----------------------------------------------------------------------------
Next == \/ StreamBegin \/ StatementEnd \/ Throw \/ StatementUnwound
        \/ \E text \in Texts : Insert(text) \/ InsertFails(text) \/ PrintfBegin(text)
        \/ PrintfInline \/ PrintfOverflow \/ PrintfError \/ PrintfThrows \/ PrintfCut
        \/ ReportBegin \/ ReportNested \/ ReportCatches \/ ReportEnd
        \/ \E text \in Names : SetThreadName(text)
        \/ SetThreadNameEmpty

Spec == Init /\ [][Next]_vars

-----------------------------------------------------------------------------
(* Properties.                                                             *)

\* The message of a record is what its own statement inserted, whatever other
\* statements and reports ran inside the message expression, and however the
\* buffer grew; it is a prefix of that when memory ran out.  What LogPrintf
\* formatted is there to its last character, at any length.
MessageExact ==
    [][StatementEnd \/ StatementUnwound =>
          LET message == Buffer!view(Top.buffer)
          IN  /\ IsPrefix(message, Top.sent)
              /\ ~Top.bad => message = Top.sent
              /\ Top.kind = "written" => Top.sent = Top.text]_vars

IsReport(i) == stack[i].kind \in {"report", "caught"}

\* The thread's flag is set exactly while it has an unfinished report, on each
\* way out of it, also through exceptions and statements in between; and there
\* is never a second report inside, so a message whose own evaluation fails
\* assertions does not lead to ever more reports.
ReportsExact ==
    /\ reporting <=> \E i \in DOMAIN stack : IsReport(i)
    /\ \A i, j \in DOMAIN stack : IsReport(i) /\ IsReport(j) => i = j

\* The texts a record refers to are valid when the record is formatted, as the
\* comment above Formatter::format demands: an unfinished statement's view of
\* the thread's name is a view of the present string.
ViewsValid ==
    \A i \in DOMAIN stack : ~IsReport(i) => stack[i].view = name
=============================================================================
