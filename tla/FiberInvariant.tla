------------------------------ MODULE FiberInvariant -------------------------
(***************************************************************************)
(* The inductive invariant of Fiber: why its safety properties hold.       *)
(*                                                                         *)
(* None of the properties of Fiber is inductive by itself.  That one call  *)
(* holds the guard of an object (HolderInv) keeps the object's state, its  *)
(* handle and its stack in step (StackInv, HandleInv, StateInv), because   *)
(* only the holder, the stack itself and wake write them; that in turn     *)
(* says which strand every jump lands in, hence which fiber the thread     *)
(* believes to run (ThreadInv, IdentInv), hence which object the next      *)
(* yield publishes for.  DestroyerInv keeps all of that apart from ~Fiber. *)
(***************************************************************************)
EXTENDS Fiber

\* The identity a strand has: its fiber, or none on a thread's own stack.
Ident(s) == IF s \in Fibers THEN s ELSE Nobody

\* A stack nobody is in.
Idle == {"fresh", "suspended", "gone"}

\* Strands: where a strand can be, what it works on, which thread carries it.
StrandInv ==
    \A s \in Strands :
        /\ s \in Threads => /\ thread[s] = s
                            /\ pc[s] \notin {"switching", "exiting"} \cup Idle
        /\ thread[s] = Nobody <=> pc[s] \in Idle
        /\ op[s] = Nobody <=> pc[s] \in {"user", "exiting", "gone"}
        /\ pc[s] \in {"switching", "suspended", "fresh"} => op[s] = s
        /\ pc[s] \in {"enter", "inside", "landed", "rebuild", "install", "publish"}
              \cup Destroying => op[s] # s
        /\ op[s] # Nobody => alive[op[s]]
        /\ target[s] # "NONE" <=> pc[s] \in {"switching", "suspended"}

\* A thread carries one strand; a strand it left for a jump stays with it.
ThreadInv ==
    /\ \A s, r \in Strands :
          pc[s] \notin Blocked /\ pc[r] \notin Blocked /\ thread[s] = thread[r] => s = r
    /\ \A s \in Strands :
          pc[s] \in {"inside", "unwinding"} => thread[op[s]] = thread[s]

\* g_currentFiber and the guards that restore it.
IdentInv ==
    \A s \in Strands :
        /\ pc[s] \notin Blocked \cup {"landed", "destroyed"} => current[thread[s]] = Ident(s)
        /\ pc[s] \in {"landed", "destroyed"} => current[thread[s]] = op[s]
        /\ pc[s] \in {"inside", "unwinding", "landed", "destroyed"} => previous[s] = Ident(s)

\* OperationGuard: the flag is up while one call is guarded by it.
HolderInv ==
    /\ \A s, r \in Strands : /\ pc[s] \in Guarded
                             /\ pc[r] \in Guarded
                             /\ op[s] = op[r]
                             => s = r
    /\ \A s \in Strands : pc[s] \in Guarded => operating[op[s]]
    /\ \A f \in Fibers : alive[f] /\ operating[f] =>
                            \E s \in Strands : pc[s] \in Guarded /\ op[s] = f

\* One destructor works on an object, when nobody owns it any more; the only
\* calls it meets are those of the unwound stack on itself.
DestroyerInv ==
    /\ \A s \in Strands : pc[s] \in Destroying => ~owned[op[s]]
    /\ \A s, r \in Strands : /\ pc[s] \in Destroying
                             /\ pc[r] \in Destroying
                             /\ op[s] = op[r]
                             => s = r
    /\ \A s, r \in Strands : /\ pc[s] \in Destroying
                             /\ pc[r] \in Calling
                             /\ op[s] = op[r]
                             => r = op[r] /\ pc[s] = "unwinding"

\* Who resumed or unwinds the stack of an object.
ResumerInv ==
    \A s \in Strands :
        /\ pc[s] \in {"inside", "unwinding"} => pc[op[s]] \notin Idle
        /\ pc[s] = "inside" => caller[op[s]] = s
        /\ pc[s] = "unwinding" => caller[op[s]] = Nobody

\* A stack that is in use was resumed or is unwound by somebody.
StackInv ==
    \A f \in Fibers : alive[f] =>
        /\ caller[f] # Nobody => pc[caller[f]] = "inside" /\ op[caller[f]] = f
        /\ pc[f] \in Idle \/ caller[f] # Nobody \/ Unwinding(f)

\* The handle is there while its stack waits; a stack needs its object.
HandleInv ==
    \A f \in Fibers :
        /\ alive[f] => context[f] = IF pc[f] \in {"fresh", "suspended"} THEN f ELSE Nobody
        /\ pc[f] # "gone" => alive[f]

\* What a strand in the middle of a call knows of the object.
PointInv ==
    \A s \in Strands :
        /\ pc[s] = "enter" => state[op[s]] = "EXEC" /\ pc[op[s]] \in {"fresh", "suspended"}
        /\ pc[s] = "landed" => pc[op[s]] \in {"suspended", "gone"} /\ state[op[s]] # "EXEC"
        /\ pc[s] \in {"rebuild", "install"} =>
              state[op[s]] \in {"TERM", "EXCEPT"} /\ pc[op[s]] = "gone"
        /\ pc[s] = "publish" =>
              state[op[s]] \in {"TERM", "EXCEPT", "INIT"} /\ pc[op[s]] = "fresh"
        /\ pc[s] = "unwinding" => /\ state[op[s]] \in {"READY", "WAITING"}
                                  /\ pc[op[s]] \notin {"switching", "exiting"}
        /\ pc[s] = "destroyed" => pc[op[s]] = "gone" /\ state[op[s]] # "EXEC"

\* The state of an object and the point its stack has reached.
StateInv ==
    \A f \in Fibers : alive[f] =>
        /\ state[f] = "EXEC" => \E s \in Strands : pc[s] \in {"enter", "inside"} /\ op[s] = f
        /\ pc[f] = "fresh" => \/ state[f] \in {"INIT", "EXEC"}
                              \/ \E s \in Strands : pc[s] = "publish" /\ op[s] = f
        /\ pc[f] \in {"suspended", "switching"} =>
              /\ state[f] \in {"READY", "WAITING", "EXEC"}
              /\ pc[f] = "switching" => state[f] # "EXEC"
              /\ suspendState[f] = target[f]
              /\ state[f] = "WAITING" => target[f] = "WAITING"
        /\ pc[f] = "exiting" => state[f] \in {"TERM", "EXCEPT"} /\ suspendState[f] = state[f]
        /\ pc[f] = "gone" => \/ state[f] \in {"TERM", "EXCEPT"} /\ suspendState[f] = state[f]
                             \/ \E d \in Strands : pc[d] = "destroyed" /\ op[d] = f
        /\ caller[f] # Nobody /\ pc[f] \notin {"switching", "exiting"} => state[f] = "EXEC"

\* What resume is about to return.
ResultInv ==
    \A s \in Strands : result[s] # "NONE" =>
        /\ pc[s] \in {"leave", "release"}
        /\ pc[s] = "leave" =>
              /\ op[s] # s
              /\ \/ pc[op[s]] = "suspended" /\ result[s] = target[op[s]]
                 \/ pc[op[s]] = "gone" /\ result[s] = state[op[s]]

\* reset has dropped the exception before it installs the new stack.
InstallInv == \A s \in Strands : pc[s] \in {"install", "publish"} => ~exception[op[s]]

IInv == /\ StrandInv
        /\ ThreadInv
        /\ IdentInv
        /\ HolderInv
        /\ DestroyerInv
        /\ ResumerInv
        /\ StackInv
        /\ HandleInv
        /\ PointInv
        /\ StateInv
        /\ ResultInv
        /\ InstallInv
        /\ ExceptionKept
        /\ WaitReasonExact

Inv == TypeOK /\ CountExact /\ IInv

-----------------------------------------------------------------------------
(* Facts the steps use: typing by groups of variables, the sets of points.  *)

TPoint == /\ pc \in [Strands -> Points]
          /\ op \in [Strands -> Fibers \cup {Nobody}]
TThread == /\ thread \in [Strands -> Threads \cup {Nobody}]
TCurrent == /\ current \in [Threads -> Fibers \cup {Nobody}]
            /\ previous \in [Strands -> Fibers \cup {Nobody}]
TFlags == /\ alive \in [Fibers -> BOOLEAN]
          /\ owned \in [Fibers -> BOOLEAN]
          /\ operating \in [Fibers -> BOOLEAN]
THandles == /\ context \in [Fibers -> Strands \cup {Nobody}]
            /\ caller \in [Fibers -> Strands \cup {Nobody}]
TState == /\ state \in [Fibers -> States]
          /\ suspendState \in [Fibers -> States]
          /\ waitReason \in [Fibers -> Reasons \cup {NoReason}]
          /\ exception \in [Fibers -> BOOLEAN]
TFrame == /\ target \in [Strands -> {"NONE", "READY", "WAITING"}]
          /\ result \in [Strands -> States \cup {"NONE"}]

\* The three kinds of names are apart.
Distinct == \A s \in Strands : /\ s # Nobody
                               /\ s \in Fibers <=> s \notin Threads

\* A strand in the middle of a call has an object.
Working == \A s \in Strands : pc[s] \notin {"user", "exiting", "gone"} => op[s] \in Fibers

\* A strand that does not wait in its own stack has a thread.
Carried == \A s \in Strands :
              pc[s] \notin {"fresh", "suspended", "gone"} => thread[s] \in Threads

Known == /\ Distinct
         /\ Working /\ Carried
         /\ TPoint /\ TThread /\ TCurrent /\ TFlags /\ THandles /\ TState /\ TFrame
         /\ StrandInv /\ ThreadInv /\ IdentInv /\ HolderInv /\ DestroyerInv
         /\ ResumerInv /\ StackInv /\ HandleInv /\ PointInv /\ StateInv
         /\ ResultInv /\ InstallInv /\ ExceptionKept /\ WaitReasonExact
=============================================================================
