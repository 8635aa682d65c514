--------------------------- MODULE FiberLifecycle ---------------------------
(***************************************************************************)
(* What ureactor::Fiber promises to the code that schedules fibers         *)
(* (include/ureactor/fiber.h, docs/Fiber: states, wake-up, lifetime),      *)
(* without stacks, threads, guards or shared_ptr:                          *)
(*                                                                         *)
(*   - at most one resume/reset call is admitted to an object at a time;   *)
(*   - an object executes only inside an admitted call, and the call ends  *)
(*     only after the object has published how its activation ended;       *)
(*   - wake acts at any moment, admitted call or not, and only on WAITING; *)
(*   - an object dies only when no call is admitted and it is not running. *)
(*                                                                         *)
(* Fiber.tla implements this specification (property Refines there).       *)
(***************************************************************************)
CONSTANT Fibers         \* the slots in which Fiber objects are constructed

VARIABLES
    status,             \* Fiber::State of the object, or "NONE": no object
    active              \* is a resume/reset call admitted to the object?

vars == <<status, active>>

Status == {"NONE", "INIT", "READY", "EXEC", "WAITING", "TERM", "EXCEPT"}

TypeOK == /\ status \in [Fibers -> Status]
          /\ active \in [Fibers -> BOOLEAN]

Init == /\ status = [f \in Fibers |-> "NONE"]
        /\ active = [f \in Fibers |-> FALSE]

Become(f, new) == /\ status' = [status EXCEPT ![f] = new]
                  /\ UNCHANGED active

Create(f) == /\ status[f] = "NONE"
             /\ Become(f, "INIT")

\* A call is admitted: nobody else's is.
Enter(f) == /\ status[f] # "NONE"
            /\ ~active[f]
            /\ active' = [active EXCEPT ![f] = TRUE]
            /\ UNCHANGED status

Start(f) == /\ active[f]
            /\ status[f] \in {"INIT", "READY"}
            /\ Become(f, "EXEC")

\* The activation ends: by a yield, a hold, a return or an exception.
Stop(f) == /\ active[f]
           /\ status[f] = "EXEC"
           /\ \E new \in {"READY", "WAITING", "TERM", "EXCEPT"} : Become(f, new)

Renew(f) == /\ active[f]
            /\ status[f] \in {"TERM", "EXCEPT"}
            /\ Become(f, "INIT")

Leave(f) == /\ active[f]
            /\ status[f] # "EXEC"
            /\ active' = [active EXCEPT ![f] = FALSE]
            /\ UNCHANGED status

Wake(f) == /\ status[f] = "WAITING"
           /\ Become(f, "READY")

Destroy(f) == /\ status[f] \notin {"NONE", "EXEC"}
              /\ ~active[f]
              /\ Become(f, "NONE")

Next == \E f \in Fibers :
            \/ Create(f)
            \/ Enter(f)
            \/ Start(f)
            \/ Stop(f)
            \/ Renew(f)
            \/ Leave(f)
            \/ Wake(f)
            \/ Destroy(f)

Spec == Init /\ [][Next]_vars
=============================================================================
