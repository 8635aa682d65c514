------------------------------- MODULE Fiber -------------------------------
(***************************************************************************)
(* The stackful coroutine of src/fiber.cc, together with the shared_ptr    *)
(* that owns it and the Boost.Context stack it runs on.                    *)
(*                                                                         *)
(* A strand is a flow of control with a stack: an OS thread's own stack or *)
(* the stack of a Fiber object (named like the object).  A running strand  *)
(* is carried by an OS thread; a strand that has jumped elsewhere waits    *)
(* for the jump back.  Each step is what one strand does between two       *)
(* points where another thread can look: an atomic operation, a section    *)
(* under stateMutex, or code nobody else can see.                          *)
(*                                                                         *)
(* User code (thread functions, callbacks, destructors on a stack that is  *)
(* unwound) may call anything of the public interface in any order, on     *)
(* any object it holds a shared_ptr of, and on the fiber it runs in.  It   *)
(* does not yield from a destructor: unwinding such a stack would throw    *)
(* out of a noexcept function, whatever the library does.                  *)
(***************************************************************************)
EXTENDS Integers, FiniteSets

CONSTANTS Fibers,       \* slots in which Fiber objects are constructed
          Threads,      \* OS threads
          Reasons,      \* Fiber::WaitReason without None
          NoReason,     \* WaitReason::None
          Nobody        \* the null pointer, the empty handle, no thread

ASSUME FiberAssumption  == /\ IsFiniteSet(Fibers)
                           /\ Fibers \cap Threads = {}
                           /\ Nobody \notin Fibers \cup Threads
ASSUME ReasonAssumption == NoReason \notin Reasons

Strands == Fibers \cup Threads

VARIABLES
    \* The Fiber object (struct Impl) and its shared_ptr
    alive,              \* constructed and not yet destroyed
    owned,              \* somebody outside the library holds a shared_ptr
    state, suspendState, waitReason,
    operating,          \* the flag of OperationGuard
    exception,          \* is an exception stored?
    context,            \* handle of the fiber's suspended stack
    caller,             \* handle of the stack that resumed the fiber
    \* Strands
    pc,                 \* where the strand is
    op,                 \* the object its library code works on
    target,             \* yield's argument, in its frame
    result,             \* what resume is about to return ("NONE": it throws)
    previous,           \* CurrentFiberGuard::m_previous
    thread,             \* the OS thread that carries the strand
    \* Process
    current,            \* thread_local g_currentFiber
    count               \* g_FiberCount

status  == <<state, suspendState, waitReason>>
life    == <<alive, owned, count>>
handles == <<context, caller>>
frames  == <<target, result, previous>>
carrier == <<thread, current>>
vars == <<status, life, handles, frames, carrier, operating, exception,
          pc, op>>

States == {"INIT", "READY", "EXEC", "WAITING", "TERM", "EXCEPT"}

\* Points of resume and reset between test_and_set and clear of the flag.
Guarded == {"check", "enter", "inside", "landed",
            "verify", "rebuild", "install", "publish", "leave"}
\* Points at which a call keeps the object alive (keep_alive).
Calling == Guarded \cup {"release"}
\* Points of the destructor.
Destroying == {"destroy", "unwinding", "destroyed"}
\* A strand that waits for a jump, or a stack that no longer exists.
Blocked == {"inside", "unwinding", "fresh", "suspended", "gone"}
Points == {"user", "switching", "exiting"} \cup Calling \cup Destroying \cup Blocked

TypeOK ==
    /\ alive \in [Fibers -> BOOLEAN]
    /\ owned \in [Fibers -> BOOLEAN]
    /\ state \in [Fibers -> States]
    /\ suspendState \in [Fibers -> States]
    /\ waitReason \in [Fibers -> Reasons \cup {NoReason}]
    /\ operating \in [Fibers -> BOOLEAN]
    /\ exception \in [Fibers -> BOOLEAN]
    /\ context \in [Fibers -> Strands \cup {Nobody}]
    /\ caller \in [Fibers -> Strands \cup {Nobody}]
    /\ pc \in [Strands -> Points]
    /\ op \in [Strands -> Fibers \cup {Nobody}]
    /\ target \in [Strands -> {"NONE", "READY", "WAITING"}]
    /\ result \in [Strands -> States \cup {"NONE"}]
    /\ previous \in [Strands -> Fibers \cup {Nobody}]
    /\ thread \in [Strands -> Threads \cup {Nobody}]
    /\ current \in [Threads -> Fibers \cup {Nobody}]
    /\ count \in Nat

Init ==
    /\ alive = [f \in Fibers |-> FALSE]
    /\ owned = [f \in Fibers |-> FALSE]
    /\ state = [f \in Fibers |-> "INIT"]
    /\ suspendState = [f \in Fibers |-> "INIT"]
    /\ waitReason = [f \in Fibers |-> NoReason]
    /\ operating = [f \in Fibers |-> FALSE]
    /\ exception = [f \in Fibers |-> FALSE]
    /\ context = [f \in Fibers |-> Nobody]
    /\ caller = [f \in Fibers |-> Nobody]
    /\ pc = [s \in Strands |-> IF s \in Threads THEN "user" ELSE "gone"]
    /\ op = [s \in Strands |-> Nobody]
    /\ target = [s \in Strands |-> "NONE"]
    /\ result = [s \in Strands |-> "NONE"]
    /\ previous = [s \in Strands |-> Nobody]
    /\ thread = [s \in Strands |-> IF s \in Threads THEN s ELSE Nobody]
    /\ current = [t \in Threads |-> Nobody]
    /\ count = 0

-----------------------------------------------------------------------------
(* Ownership.                                                              *)

\* The forced unwinding of f's stack, or another part of ~Fiber, is going on.
Dying(f) == \E s \in Strands : pc[s] \in Destroying /\ op[s] = f

\* The shared_ptrs held by calls; weak_from_this().lock() yields none once
\* the object is being destroyed.
Keepers(f) == IF Dying(f) THEN {}
              ELSE {s \in Strands : pc[s] \in Calling /\ op[s] = f}

\* Variant: the other keepers are ignored; the last shared_ptr goes unnoticed.
LastRefUncounted(s, f) == ~owned[f] /\ ~Dying(f)
LastRefNever(s, f) == FALSE

\* Does the object die when the call on strand s drops its keep_alive?
LastRef(s, f) == ~owned[f] /\ Keepers(f) = {s}

\* A call of user code on strand s to a member function of f.
UserCall(s, f) == /\ pc[s] = "user"
                  /\ alive[f]
                  /\ owned[f] \/ s = f

\* Variant: g_FiberCount stays.
CountStays == UNCHANGED count

CountUp == count' = count + 1
CountDown == count' = count - 1

\* The three stores, which nobody can see apart: under stateMutex, or while
\* the object is still private.
Publish(f, to, stop, reason) ==
    /\ waitReason' = [waitReason EXCEPT ![f] = reason]
    /\ suspendState' = [suspendState EXCEPT ![f] = stop]
    /\ state' = [state EXCEPT ![f] = to]

\* initializeContext gives the object a new stack, which run will start on.
Install(f) == /\ context' = [context EXCEPT ![f] = f]
              /\ caller' = [caller EXCEPT ![f] = Nobody]
              /\ op' = [op EXCEPT ![f] = f]

\* make_shared<Fiber>(callback).  A constructor that throws leaves no trace.
Construct(s, f) ==
    /\ pc[s] = "user"
    /\ ~alive[f]
    /\ alive' = [alive EXCEPT ![f] = TRUE]
    /\ owned' = [owned EXCEPT ![f] = TRUE]
    /\ operating' = [operating EXCEPT ![f] = FALSE]
    /\ exception' = [exception EXCEPT ![f] = FALSE]
    /\ Install(f)
    /\ Publish(f, "INIT", "INIT", NoReason)
    /\ CountUp
    /\ pc' = [pc EXCEPT ![f] = "fresh"]
    /\ UNCHANGED <<frames, carrier>>

\* The last shared_ptr outside the library goes; without a keeper, ~Fiber
\* starts on this strand.
DropOwner(s, f) ==
    /\ UserCall(s, f)
    /\ owned[f]
    /\ owned' = [owned EXCEPT ![f] = FALSE]
    /\ IF Keepers(f) = {}
       THEN /\ pc' = [pc EXCEPT ![s] = "destroy"]
            /\ op' = [op EXCEPT ![s] = f]
       ELSE UNCHANGED <<pc, op>>
    /\ UNCHANGED <<alive, count, status, handles, frames, carrier, operating,
                   exception>>

\* GetThis(), kept outside; it throws when the object is being destroyed.
GetThis(s) ==
    LET f == current[thread[s]] IN
    /\ pc[s] = "user"
    /\ f # Nobody
    /\ Keepers(f) # {}
    /\ owned' = [owned EXCEPT ![f] = TRUE]
    /\ UNCHANGED <<alive, count, status, handles, frames, carrier, operating,
                   exception, pc, op>>

-----------------------------------------------------------------------------
(* resume.                                                                 *)

\* Variant: the result of test_and_set is ignored; its exception clears.
AdmittedAlways(f, point) == point
AdmittedThenCleared(f, point) == IF operating[f] THEN "leave" ELSE point

\* test_and_set: a call overlapping another one throws at once.
Admitted(f, point) == IF operating[f] THEN "release" ELSE point

\* keep_alive, then OperationGuard.
Enter(s, f, point) ==
    /\ UserCall(s, f)
    /\ op' = [op EXCEPT ![s] = f]
    /\ pc' = [pc EXCEPT ![s] = Admitted(f, point)]
    /\ operating' = [operating EXCEPT ![f] = TRUE]
    /\ UNCHANGED <<status, life, handles, frames, carrier, exception>>

ResumeEnter(s, f) == Enter(s, f, "check")

\* Variant: the handle is not tested.
ResumableByState(f) == state[f] \in {"INIT", "READY"}

Resumable(f) == state[f] \in {"INIT", "READY"} /\ context[f] # Nobody

\* The section under stateMutex: publish EXEC, or throw.
ResumeCheck(s) ==
    LET f == op[s] IN
    /\ pc[s] = "check"
    /\ IF Resumable(f)
       THEN /\ state' = [state EXCEPT ![f] = "EXEC"]
            /\ pc' = [pc EXCEPT ![s] = "enter"]
       ELSE /\ pc' = [pc EXCEPT ![s] = "leave"]
            /\ UNCHANGED state
    /\ UNCHANGED <<suspendState, waitReason, life, handles, frames, carrier,
                   operating, exception, op>>

\* CurrentFiberGuard(f) of strand s, while its thread goes on in stack x.
Carry(s, f, x) ==
    /\ previous' = [previous EXCEPT ![s] = current[thread[s]]]
    /\ current' = [current EXCEPT ![thread[s]] = f]
    /\ IF x = Nobody
       THEN UNCHANGED <<op, target, thread>>
       ELSE /\ op' = [op EXCEPT ![x] = Nobody]
            /\ target' = [target EXCEPT ![x] = "NONE"]
            /\ thread' = [thread EXCEPT ![x] = thread[s]]

\* The jump: x starts its callback, or comes back from the jump of its last
\* yield, which stores the handle of strand s as the caller.
ResumeSwitch(s) ==
    LET f == op[s]
        x == context[f] IN
    /\ pc[s] = "enter"
    /\ x # Nobody
    /\ Carry(s, f, x)
    /\ context' = [context EXCEPT ![f] = Nobody]
    /\ caller' = [caller EXCEPT ![op[x]] = s]
    /\ pc' = [pc EXCEPT ![s] = "inside", ![x] = "user"]
    /\ UNCHANGED <<status, life, result, operating, exception>>

\* Variant: resume returns the current state.
OutcomeNow(f) == state[f]

Outcome(f) == suspendState[f]

\* Variant: the thread keeps the identity of the fiber.
RestoreForgotten(s) == UNCHANGED <<current, previous>>

\* ~CurrentFiberGuard
Restore(s) == /\ current' = [current EXCEPT ![thread[s]] = previous[s]]
              /\ previous' = [previous EXCEPT ![s] = Nobody]

\* The stack jumped back: the return value is read, the identity restored.
ResumeLand(s) ==
    /\ pc[s] = "landed"
    /\ result' = [result EXCEPT ![s] = Outcome(op[s])]
    /\ Restore(s)
    /\ pc' = [pc EXCEPT ![s] = "leave"]
    /\ UNCHANGED <<status, life, handles, target, thread, operating, exception,
                   op>>

\* Variant: the flag stays up when the call throws.
ClearOnReturn(s) == operating' = [operating EXCEPT ![op[s]] = result[s] = "NONE"]

Clear(s) == operating' = [operating EXCEPT ![op[s]] = FALSE]

\* ~OperationGuard, of a call that returns or throws.
Leave(s) ==
    /\ pc[s] = "leave"
    /\ Clear(s)
    /\ pc' = [pc EXCEPT ![s] = "release"]
    /\ UNCHANGED <<status, life, handles, frames, carrier, exception, op>>

\* keep_alive goes, and the object with it when it was the last shared_ptr.
Release(s) ==
    /\ pc[s] = "release"
    /\ result' = [result EXCEPT ![s] = "NONE"]
    /\ IF LastRef(s, op[s])
       THEN /\ pc' = [pc EXCEPT ![s] = "destroy"]
            /\ UNCHANGED op
       ELSE /\ pc' = [pc EXCEPT ![s] = "user"]
            /\ op' = [op EXCEPT ![s] = Nobody]
    /\ UNCHANGED <<status, life, handles, target, previous, carrier, operating,
                   exception>>

-----------------------------------------------------------------------------
(* The end of an activation: YieldToReady, YieldToHold, run.               *)

\* The section of yield under stateMutex; it throws when the object does not
\* run or when nobody resumed it.
YieldPublish(s, to, reason) ==
    LET f == current[thread[s]] IN
    /\ pc[s] = "user"
    /\ f # Nobody
    /\ ~exception[f]        \* not from the destructors of a failed callback
    /\ state[f] = "EXEC" /\ caller[f] # Nobody
    /\ Publish(f, to, to, reason)
    /\ pc' = [pc EXCEPT ![s] = "switching"]
    /\ op' = [op EXCEPT ![s] = f]
    /\ target' = [target EXCEPT ![s] = to]
    /\ UNCHANGED <<life, handles, result, previous, carrier, operating, exception>>

YieldToReady(s) == YieldPublish(s, "READY", NoReason)

YieldToHold(s) == \E reason \in Reasons : YieldPublish(s, "WAITING", reason)

\* Variant: resume drops the handle that comes back.
HandleLost(x) == Nobody

\* What the jump of a suspended stack hands over.
Handle(x) == x

\* resume keeps the handle that comes back.
Keep(f, handle) == context' = [context EXCEPT ![f] = handle]

\* The strand x leaves its stack through the handle in f.caller, which the
\* jump empties, and is back in the resume of strand c.
JumpToCaller(x, f, handle, point) ==
    LET c == caller[f] IN
    /\ caller' = [caller EXCEPT ![f] = Nobody]
    /\ Keep(op[c], handle)
    /\ pc' = [pc EXCEPT ![x] = point, ![c] = "landed"]
    /\ thread' = [thread EXCEPT ![x] = Nobody, ![c] = thread[x]]
    /\ UNCHANGED <<status, life, frames, current, operating, exception, op>>

YieldSwitch(s) == /\ pc[s] = "switching"
                  /\ JumpToCaller(s, op[s], Handle(s), "suspended")

\* The entry function returns the caller's handle: Boost frees the stack and
\* jumps there with an empty handle.
ExitSwitch(x) == /\ pc[x] = "exiting"
                 /\ JumpToCaller(x, x, Nobody, "gone")

\* The stack of x is being unwound by ~Fiber.
Unwinding(x) == \E d \in Strands : pc[d] = "unwinding" /\ op[d] = x

\* Variant: EXCEPT is published before the exception is stored.
PublishedFirst(x) == ~exception[x]

Stored(x) == exception[x]

\* run publishes how the callback ended.
Finish(x, how) ==
    /\ pc[x] = "user"
    /\ ~Unwinding(x)
    /\ Publish(x, how, how, NoReason)
    /\ pc' = [pc EXCEPT ![x] = "exiting"]
    /\ UNCHANGED <<life, handles, frames, carrier, operating, exception, op>>

FinishTerm(x) == ~exception[x] /\ Finish(x, "TERM")

\* The callback threw: run stores the exception, destroys the callback's
\* captures (user code again), and only then publishes EXCEPT.
FinishThrow(x) ==
    /\ pc[x] = "user"
    /\ ~Unwinding(x)
    /\ ~exception[x]
    /\ exception' = [exception EXCEPT ![x] = TRUE]
    /\ UNCHANGED <<status, life, handles, frames, carrier, operating, pc, op>>

FinishExcept(x) == Stored(x) /\ Finish(x, "EXCEPT")

-----------------------------------------------------------------------------
(* wake, reset and the destructor.                                         *)

\* Variant: the wait reason stays.
ReasonKept(f) == UNCHANGED waitReason

ReasonCleared(f) == waitReason' = [waitReason EXCEPT ![f] = NoReason]

\* A wake of an object that does not wait returns false and changes nothing.
Wake(s, f) ==
    /\ UserCall(s, f)
    /\ state[f] = "WAITING"
    /\ ReasonCleared(f)
    /\ state' = [state EXCEPT ![f] = "READY"]
    /\ UNCHANGED <<suspendState, life, handles, frames, carrier, operating,
                   exception, pc, op>>

ResetEnter(s, f) == Enter(s, f, "verify")

\* reset's own checks, then those of initializeContext: an empty callback and
\* a stack that cannot be allocated throw before anything is changed.
ResetVerify(s) ==
    /\ pc[s] = "verify"
    /\ \/ /\ state[op[s]] \in {"TERM", "EXCEPT"}
          /\ current[thread[s]] # op[s]
          /\ pc' = [pc EXCEPT ![s] = "rebuild"]
       \/ pc' = [pc EXCEPT ![s] = "leave"]
    /\ UNCHANGED <<status, life, handles, frames, carrier, operating, exception,
                   op>>

\* The old exception goes while EXCEPT is still published.
ResetClear(s) ==
    /\ pc[s] = "rebuild"
    /\ exception' = [exception EXCEPT ![op[s]] = FALSE]
    /\ pc' = [pc EXCEPT ![s] = "install"]
    /\ UNCHANGED <<status, life, handles, frames, carrier, operating, op>>

\* The new stack.
ResetInstall(s) ==
    /\ pc[s] = "install"
    /\ Install(op[s])
    /\ pc' = [pc EXCEPT ![s] = "publish", ![op[s]] = "fresh"]
    /\ UNCHANGED <<status, life, frames, carrier, operating, exception>>

\* The three stores again, here relaxed and without stateMutex: others may
\* come between, and see them in any order.
ResetStore(s) ==
    LET f == op[s] IN
    /\ pc[s] = "publish"
    /\ \/ /\ waitReason' = [waitReason EXCEPT ![f] = NoReason]
          /\ UNCHANGED <<state, suspendState>>
       \/ /\ suspendState' = [suspendState EXCEPT ![f] = "INIT"]
          /\ UNCHANGED <<state, waitReason>>
       \/ /\ state' = [state EXCEPT ![f] = "INIT"]
          /\ UNCHANGED <<suspendState, waitReason>>
    /\ UNCHANGED <<life, handles, frames, carrier, operating, exception, pc, op>>

\* All of them are done.
ResetDone(s) ==
    LET f == op[s] IN
    /\ pc[s] = "publish"
    /\ <<state[f], suspendState[f], waitReason[f]>> = <<"INIT", "INIT", NoReason>>
    /\ pc' = [pc EXCEPT ![s] = "leave"]
    /\ UNCHANGED <<status, life, handles, frames, carrier, operating, exception,
                   op>>

\* ~Fiber terminates the process when the object is in use.  Otherwise the
\* handle is emptied first and a suspended stack is unwound on this thread,
\* under the fiber's identity; a fresh one is just freed.
DestroyBegin(s) ==
    LET f == op[s]
        x == context[f] IN
    /\ pc[s] = "destroy"
    /\ current[thread[s]] # f
    /\ ~operating[f]
    /\ context' = [context EXCEPT ![f] = Nobody]
    /\ \/ /\ x # Nobody
          /\ pc[x] = "suspended"
          /\ Carry(s, f, x)
          /\ pc' = [pc EXCEPT ![s] = "unwinding", ![x] = "user"]
       \/ /\ x # Nobody
          /\ pc[x] # "suspended"
          /\ previous' = [previous EXCEPT ![s] = current[thread[s]]]
          /\ current' = [current EXCEPT ![thread[s]] = f]
          /\ pc' = [pc EXCEPT ![s] = "destroyed", ![x] = "gone"]
          /\ op' = [op EXCEPT ![x] = Nobody]
          /\ UNCHANGED <<target, thread>>
       \/ /\ x = Nobody
          /\ Carry(s, f, Nobody)
          /\ pc' = [pc EXCEPT ![s] = "destroyed"]
    /\ UNCHANGED <<status, life, caller, result, operating, exception>>

\* The last destructor of the unwound stack is done: forced_unwind reaches
\* the entry function, which jumps back to ~Fiber.
UnwindEnd(x) ==
    /\ pc[x] = "user"
    /\ \E d \in Strands :
          /\ pc[d] = "unwinding"
          /\ op[d] = x
          /\ pc' = [pc EXCEPT ![x] = "gone", ![d] = "destroyed"]
          /\ thread' = [thread EXCEPT ![x] = Nobody, ![d] = thread[x]]
    /\ UNCHANGED <<status, life, handles, frames, current, operating, exception,
                   op>>

DestroyEnd(s) ==
    /\ pc[s] = "destroyed"
    /\ alive' = [alive EXCEPT ![op[s]] = FALSE]
    /\ CountDown
    /\ Restore(s)
    /\ pc' = [pc EXCEPT ![s] = "user"]
    /\ op' = [op EXCEPT ![s] = Nobody]
    /\ UNCHANGED <<owned, status, handles, target, result, thread, operating,
                   exception>>

-----------------------------------------------------------------------------
\* What the library does on strand s, once called.
Library(s) == \/ ResumeCheck(s) \/ ResumeSwitch(s) \/ ResumeLand(s)
              \/ Leave(s) \/ Release(s)
              \/ YieldSwitch(s) \/ ExitSwitch(s)
              \/ ResetVerify(s) \/ ResetClear(s) \/ ResetInstall(s)
              \/ ResetStore(s) \/ ResetDone(s)
              \/ DestroyBegin(s) \/ DestroyEnd(s)

\* What user code on strand s does.
User(s) == \/ GetThis(s)
           \/ YieldToReady(s) \/ YieldToHold(s)
           \/ \E f \in Fibers : \/ Construct(s, f) \/ DropOwner(s, f)
                               \/ ResumeEnter(s, f) \/ ResetEnter(s, f)
                               \/ Wake(s, f)

\* How the run of fiber x's callback ends.
Run(x) == FinishTerm(x) \/ FinishThrow(x) \/ FinishExcept(x) \/ UnwindEnd(x)

Next == \/ \E s \in Strands : Library(s) \/ User(s)
        \/ \E x \in Fibers : Run(x)

Spec == Init /\ [][Next]_vars

(***************************************************************************)
(* Fairness.  A thread that is inside the library goes on: no step of it   *)
(* waits for another thread (stateMutex is held for a few loads and        *)
(* stores).  A callback does not run for ever between two yields, nor does *)
(* the unwinding of its stack.                                             *)
(***************************************************************************)
Fairness ==
    /\ \A t \in Threads : WF_vars(\E s \in Strands : thread[s] = t /\ Library(s))
    /\ \A x \in Fibers : SF_vars(\/ YieldToReady(x) \/ YieldToHold(x)
                                \/ FinishTerm(x) \/ FinishExcept(x)
                                \/ UnwindEnd(x))

FairSpec == Spec /\ Fairness

-----------------------------------------------------------------------------
(* What must hold.                                                         *)

Holders(f) == {s \in Strands : pc[s] \in Guarded /\ op[s] = f}

\* OperationGuard (fiber.cc:44): the flag is up exactly while one call is
\* between test_and_set and clear, also when calls are rejected, throw, or
\* come from the fiber's own stack while it is unwound.
SingleHolder == \A f \in Fibers : alive[f] =>
                    /\ operating[f] <=> Holders(f) # {}
                    /\ \A s, r \in Holders(f) : s = r

\* g_currentFiber (fiber.cc:21): user code sees the fiber it runs in, or none
\* on a thread's own stack, however resumes are nested, fibers migrate
\* between threads, and stacks are unwound; and a thread carries one strand.
CurrentIdentity ==
    /\ \A s \in Strands : pc[s] = "user" =>
          current[thread[s]] = IF s \in Fibers THEN s ELSE Nobody
    /\ \A s, r \in Strands :
          /\ pc[s] \notin Blocked
          /\ pc[r] \notin Blocked
          /\ thread[s] = thread[r]
          => s = r

\* fiber.h:60: resume returns what the activation ended with, whatever wake
\* does to the state before it returns.
ResumeReturns ==
    \A s \in Strands : pc[s] = "leave" /\ result[s] # "NONE" =>
        result[s] = CASE pc[op[s]] = "suspended" -> target[op[s]]
                      [] pc[op[s]] = "gone"      -> state[op[s]]
                      [] OTHER                   -> "NONE"

\* yield, wake and run set state and waitReason apart, and reset without the
\* mutex: an object has a wait reason exactly while it waits.
WaitReasonExact == \A f \in Fibers : alive[f] =>
                       (waitReason[f] # NoReason <=> state[f] = "WAITING")

\* An object nobody operates on can be resumed as soon as its state says so:
\* INIT, READY and WAITING mean that its handle leads to its own stack and
\* that the stack waits there; TERM and EXCEPT that both are gone.
HandleMatchesState ==
    \A f \in Fibers : alive[f] /\ ~operating[f] /\ ~Dying(f) =>
        CASE state[f] = "INIT" -> context[f] = f /\ pc[f] = "fresh"
          [] state[f] \in {"READY", "WAITING"} -> context[f] = f /\ pc[f] = "suspended"
          [] state[f] \in {"TERM", "EXCEPT"} -> context[f] = Nobody /\ pc[f] = "gone"
          [] OTHER -> FALSE

\* getException (fiber.cc:238): an observer that reads EXCEPT finds the
\* exception, unless a reset is on its way to INIT; no other end keeps one.
ExceptionKept ==
    \A f \in Fibers : alive[f] =>
        /\ state[f] = "EXCEPT" => \/ exception[f]
                                  \/ \E s \in Holders(f) : pc[s] \in {"install", "publish"}
        /\ exception[f] => state[f] \in {"EXEC", "EXCEPT"}

\* No legal sequence of calls makes ~Fiber terminate the process
\* (fiber.cc:108), or resume (fiber.cc:169), yield (fiber.cc:184) or the end
\* of run (fiber.cc:129) jump through an empty handle.
NoCrash ==
    \A s \in Strands :
        /\ pc[s] = "destroy" => current[thread[s]] # op[s] /\ ~operating[op[s]]
        /\ pc[s] = "enter" => context[op[s]] # Nobody
        /\ pc[s] \in {"switching", "exiting"} => caller[s] # Nobody

\* keep_alive (fiber.cc:157, 189): no call works on a destroyed object, and a
\* fiber that runs or waits in its own code is not destroyed under it.
NoUseAfterFree ==
    /\ \A s \in Strands : op[s] # Nobody => alive[op[s]]
    /\ \A f \in Fibers : pc[f] # "gone" => alive[f]

\* TotalFibers (fiber.cc:277) counts the objects that exist.
CountExact == count = Cardinality({f \in Fibers : alive[f]})

\* Fiber implements FiberLifecycle.
Lifecycle == INSTANCE FiberLifecycle WITH
                 status <- [f \in Fibers |-> IF alive[f] THEN state[f] ELSE "NONE"],
                 active <- [f \in Fibers |-> alive[f] /\ operating[f]]

Refines == Lifecycle!Spec

\* Every admitted call ends: two fibers that resume each other from two
\* threads, or a fiber that resumes itself, get an exception, never a wait.
CallsEnd == \A f \in Fibers : operating[f] ~> ~operating[f]

\* An object nobody owns any more is destroyed (or picked up by GetThis),
\* even when its last outside shared_ptr goes while it runs.
Released == \A f \in Fibers :
                (alive[f] /\ ~owned[f]) ~> (~alive[f] \/ owned[f])
=============================================================================
