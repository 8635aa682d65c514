----------------------------- MODULE ConfigVar -----------------------------
(***************************************************************************)
(* ConfigVar<T> of include/ureactor/config/config_var.h: a value that      *)
(* threads replace, and the listeners that are told of each replacement.   *)
(*                                                                         *)
(* A thread has a stack of calls, the innermost last.  Listeners run on    *)
(* the thread that calls setValue, outside both mutexes; a listener is     *)
(* user code and may call any member function of the variable again, and   *)
(* it may throw.  A section under m_listenersMutex is one step; the        *)
(* section under m_writeMutex is two, for the value is also read (getValue *)
(* and getSnapshot) without the mutex.                                     *)
(***************************************************************************)
EXTENDS Integers, Sequences, FiniteSets, SequencesExt

CONSTANTS Threads,
          Values,           \* T, an equality_comparable type
          Default,          \* the value given to the constructor
          Nobody,           \* a mutex without owner
          MaxListeners,     \* bound: calls of addListener
          MaxSets,          \* bound: calls of setValue
          MaxDepth          \* bound: calls nested in callbacks, per thread

ASSUME ConfigVarAssumption == /\ Default \in Values
                              /\ Nobody \notin Threads
                              /\ MaxListeners \in Nat
                              /\ MaxSets \in Nat
                              /\ MaxDepth \in Nat

VARIABLES
    value,          \* m_value
    writer,         \* the thread that owns m_writeMutex
    listeners,      \* m_listeners: the ids, in order
    nextId,         \* next_id of NextListenerId
    stack,          \* for each thread its calls of setValue and addListener
    outcomes,       \* history: what the calls of setValue found and left, in order
    removed         \* history: ids of listeners that were taken out

vars == <<value, writer, listeners, nextId, stack, outcomes, removed>>

Ids == 1 .. MaxListeners

\* A call of setValue.  The last two fields are history: the listeners that
\* stay registered from the store on, and those taken out before the call.
SetFrames == [pc : {"lock", "store", "snapshot", "call", "inside"},
              new : Values, old : Values,
              snapshot : Seq(Ids), next : Nat \ {0}, called : Seq(Ids),
              stayed : SUBSET Ids, gone : SUBSET Ids]

\* A call of addListener that has an id and not yet an entry.
AddFrames == [pc : {"add"}, id : Ids]

TypeOK ==
    /\ value \in Values
    /\ writer \in Threads \cup {Nobody}
    /\ listeners \in Seq(Ids)
    /\ nextId \in 1 .. MaxListeners + 1
    /\ stack \in [Threads -> Seq(SetFrames \cup AddFrames)]
    /\ outcomes \in Seq([old : Values, new : Values])
    /\ removed \subseteq Ids

\* Variant: the ids start with 0, which means "no listener".
ZeroId == 0

FirstId == 1

Init ==
    /\ value = Default
    /\ writer = Nobody
    /\ listeners = <<>>
    /\ nextId = FirstId
    /\ stack = [t \in Threads |-> <<>>]
    /\ outcomes = <<>>
    /\ removed = {}

-----------------------------------------------------------------------------
(* The stack of a thread.                                                  *)

Top(t) == Last(stack[t])
In(t, pc) == stack[t] # <<>> /\ Top(t).pc = pc
Push(t, frame) == stack' = [stack EXCEPT ![t] = Append(@, frame)]
Pop(t) == stack' = [stack EXCEPT ![t] = Front(@)]
Become(t, frame) == stack' = [stack EXCEPT ![t] = Append(Front(@), frame)]

\* User code runs on t: the thread's own, or a listener's.
UserRuns(t) == /\ stack[t] = <<>> \/ In(t, "inside")
               /\ Len(stack[t]) < MaxDepth

\* Calls of setValue on their way to the store.
Undecided == {at \in Threads \X (1 .. MaxDepth) :
                 /\ at[2] <= Len(stack[at[1]])
                 /\ stack[at[1]][at[2]].pc \in {"lock", "store"}}

-----------------------------------------------------------------------------
(* setValue and notify.                                                    *)

SetBegin(t, v) ==
    /\ UserRuns(t)
    /\ Len(outcomes) + Cardinality(Undecided) < MaxSets
    /\ Push(t, [pc |-> "lock", new |-> v, old |-> v,
                snapshot |-> <<>>, next |-> 1, called |-> <<>>,
                stayed |-> {}, gone |-> removed])
    /\ UNCHANGED <<value, writer, listeners, nextId, outcomes, removed>>

\* Variant: the value is read and replaced without the mutex.
NoMutex == TRUE

MutexFree == writer = Nobody

\* lock_guard on m_writeMutex, and the load of the old value.
SetLock(t) ==
    /\ In(t, "lock")
    /\ MutexFree
    /\ writer' = t
    /\ Become(t, [Top(t) EXCEPT !.pc = "store", !.old = value])
    /\ UNCHANGED <<value, listeners, nextId, outcomes, removed>>

\* An equal value: nothing is stored, nobody is told, setValue is false.
SetEqual(t) ==
    /\ In(t, "store")
    /\ Top(t).old = Top(t).new
    /\ writer' = Nobody
    /\ Pop(t)
    /\ outcomes' = Append(outcomes, [old |-> value, new |-> value])
    /\ UNCHANGED <<value, listeners, nextId, removed>>

\* Variant: the mutex is kept until setValue returns.
KeepMutex == writer

\* The owner of m_writeMutex at the end of the block around the store.
BlockEnd == Nobody

SetStore(t) ==
    /\ In(t, "store")
    /\ Top(t).old # Top(t).new
    /\ value' = Top(t).new
    /\ writer' = BlockEnd
    /\ Become(t, [Top(t) EXCEPT !.pc = "snapshot", !.stayed = ToSet(listeners)])
    /\ outcomes' = Append(outcomes, [old |-> Top(t).old, new |-> Top(t).new])
    /\ UNCHANGED <<listeners, nextId, removed>>

\* The copy of m_listeners under m_listenersMutex.
Snapshot(t) ==
    /\ In(t, "snapshot")
    /\ Become(t, [Top(t) EXCEPT !.pc = "call", !.snapshot = listeners])
    /\ UNCHANGED <<value, writer, listeners, nextId, outcomes, removed>>

\* Variant: the loop runs over m_listeners itself.
LiveList(frame) == listeners

\* What the loop of notify runs over.
Audience(frame) == frame.snapshot

Call(t) ==
    /\ In(t, "call")
    /\ Top(t).next <= Len(Audience(Top(t)))
    /\ Become(t, [Top(t) EXCEPT !.pc = "inside",
                                !.called = Append(@, Audience(Top(t))[Top(t).next])])
    /\ UNCHANGED <<value, writer, listeners, nextId, outcomes, removed>>

\* The listener returns or throws; the loop goes on in both cases.
CallEnd(t) ==
    /\ In(t, "inside")
    /\ Become(t, [Top(t) EXCEPT !.pc = "call", !.next = @ + 1])
    /\ UNCHANGED <<value, writer, listeners, nextId, outcomes, removed>>

SetReturn(t) ==
    /\ In(t, "call")
    /\ Top(t).next > Len(Audience(Top(t)))
    /\ Pop(t)
    /\ UNCHANGED <<value, writer, listeners, nextId, outcomes, removed>>

-----------------------------------------------------------------------------
(* addListener, removeListener, clearListeners.                            *)

\* NextListenerId, which takes no mutex.
AddBegin(t) ==
    /\ UserRuns(t)
    /\ nextId <= MaxListeners
    /\ nextId' = nextId + 1
    /\ Push(t, [pc |-> "add", id |-> nextId])
    /\ UNCHANGED <<value, writer, listeners, outcomes, removed>>

AddEnd(t) ==
    /\ In(t, "add")
    /\ listeners' = Append(listeners, Top(t).id)
    /\ Pop(t)
    /\ UNCHANGED <<value, writer, nextId, outcomes, removed>>

\* History of a removal: these listeners no longer stay registered.
Leave(ids) ==
    /\ removed' = removed \cup ids
    /\ stack' = [t \in Threads |->
                    [n \in DOMAIN stack[t] |->
                        IF stack[t][n].pc = "add" THEN stack[t][n]
                        ELSE [stack[t][n] EXCEPT !.stayed = @ \ ids]]]

\* Variant: the entry after the one found is erased.
WithoutNext(id) ==
    LET at == CHOOSE n \in DOMAIN listeners : listeners[n] = id
    IN  IF at < Len(listeners) THEN RemoveAt(listeners, at + 1) ELSE listeners

\* m_listeners.erase(it)
Without(id) ==
    RemoveAt(listeners, CHOOSE n \in DOMAIN listeners : listeners[n] = id)

\* Erases the entry of id, if there is one.
RemoveListener(t, id) ==
    /\ UserRuns(t)
    /\ id \in ToSet(listeners)
    /\ listeners' = Without(id)
    /\ Leave({id})
    /\ UNCHANGED <<value, writer, nextId, outcomes>>

ClearListeners(t) ==
    /\ UserRuns(t)
    /\ listeners' = <<>>
    /\ Leave(ToSet(listeners))
    /\ UNCHANGED <<value, writer, nextId, outcomes>>

-----------------------------------------------------------------------------
SetSteps(t) ==
    \/ SetLock(t) \/ SetEqual(t) \/ SetStore(t)
    \/ Snapshot(t) \/ Call(t) \/ CallEnd(t) \/ SetReturn(t)

UserSteps(t) ==
    \/ \E v \in Values : SetBegin(t, v)
    \/ AddBegin(t)
    \/ \E id \in Ids : RemoveListener(t, id)
    \/ ClearListeners(t)

Next == \E t \in Threads : SetSteps(t) \/ AddEnd(t) \/ UserSteps(t)

Spec == Init /\ [][Next]_vars

\* A thread that is in the library runs on, and a listener comes to an end.
\* The mutex need not be fair: a program calls setValue finitely often.
Fairness == \A t \in Threads : WF_vars(SetSteps(t)) /\ WF_vars(AddEnd(t))

FairSpec == Spec /\ Fairness

-----------------------------------------------------------------------------
(* Properties.                                                             *)

\* The replacements form one chain from the default value to the current
\* one: what a listener is given as the old value is what the write before
\* it left, though writers race and m_value is read without the mutex.
OneHistory ==
    /\ \A n \in DOMAIN outcomes :
          outcomes[n].old = IF n = 1 THEN Default ELSE outcomes[n - 1].new
    /\ value = IF outcomes = <<>> THEN Default ELSE Last(outcomes).new

\* When setValue returns it has called every listener that was registered
\* when it stored and has not been removed since, and none of them twice:
\* who registers and then reads the value misses no replacement.  Listeners
\* are added, removed and cleared meanwhile, by listeners too, and throw.
EveryoneTold ==
    [][\A t \in Threads : SetReturn(t) =>
          /\ Top(t).stayed \subseteq ToSet(Top(t).called)
          /\ IsInjective(Top(t).called)]_vars

\* A setValue that begins after a listener was removed does not call it; one
\* that is under way may (removeListener does not wait for it).
RemovedStaysSilent ==
    \A t \in Threads : \A n \in DOMAIN stack[t] :
        stack[t][n].pc # "add" =>
            ToSet(stack[t][n].called) \cap stack[t][n].gone = {}

\* Every call returns, however calls nest in listeners and threads compete:
\* no mutex is held while a listener runs, so re-entering is no deadlock.
CallsReturn == \A t \in Threads : stack[t] # <<>> ~> stack[t] = <<>>
=============================================================================
