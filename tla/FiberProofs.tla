---------------------------- MODULE FiberProofs ----------------------------
(***************************************************************************)
(* What holds of Fiber for any number of fibers and threads.  The argument *)
(* is the invariant of FiberInvariant, which every action preserves: one   *)
(* lemma per action.  Each of them first says where the action runs and    *)
(* what Inv tells about the strand and its object, then what the action    *)
(* writes, then proves the parts of Inv that what it writes can disturb,   *)
(* and last the parts that speak of other variables.  The safety           *)
(* properties of Fiber, and that it implements FiberLifecycle, follow.     *)
(***************************************************************************)
EXTENDS FiberInvariant, FiniteSetTheorems, TLAPS

\* What the steps use follows from Inv.
LEMMA Unfold ==
  ASSUME Inv
  PROVE  Known
BY FiberAssumption
   DEF Inv, IInv, TypeOK, Known, Distinct, Working, Carried, Idle, StrandInv, Strands,
       TPoint, TThread, TCurrent, TFlags, THandles, TState, TFrame

\* Inv is proved again from its parts.
LEMMA Fold ==
  ASSUME TPoint', TThread', TCurrent', TFlags',
         THandles', TState', TFrame',
         StrandInv', ThreadInv', IdentInv', HolderInv', DestroyerInv',
         ResumerInv', StackInv', HandleInv', PointInv', StateInv',
         ResultInv', InstallInv', ExceptionKept', WaitReasonExact',
         CountExact', (count \in Nat)'
  PROVE  Inv'
BY DEF Inv, IInv, TypeOK,
   TPoint, TThread, TCurrent, TFlags, THandles, TState, TFrame

\* One more object.
LEMMA CountUpExact ==
  ASSUME CountExact, count \in Nat, NEW f \in Fibers, ~alive[f],
         count' = count + 1, \A r \in Fibers : alive'[r] <=> r = f \/ alive[r]
  PROVE  CountExact' /\ (count \in Nat)'
<1>1. {r \in Fibers : alive'[r]} = {r \in Fibers : alive[r]} \cup {f}
  OBVIOUS
<1>2. IsFiniteSet({r \in Fibers : alive[r]})
  BY FiberAssumption, FS_Subset
<1>3. Cardinality({r \in Fibers : alive'[r]}) = Cardinality({r \in Fibers : alive[r]}) + 1
  BY <1>1, <1>2, FS_AddElement
<1> QED
  BY <1>3 DEF CountExact

\* One less.
LEMMA CountDownExact ==
  ASSUME CountExact, count \in Nat, NEW f \in Fibers, alive[f],
         count' = count - 1, \A r \in Fibers : alive'[r] <=> r # f /\ alive[r]
  PROVE  CountExact' /\ (count \in Nat)'
<1>1. {r \in Fibers : alive'[r]} = {r \in Fibers : alive[r]} \ {f}
  OBVIOUS
<1>2. IsFiniteSet({r \in Fibers : alive[r]})
  BY FiberAssumption, FS_Subset
<1>3. /\ Cardinality({r \in Fibers : alive'[r]}) = Cardinality({r \in Fibers : alive[r]}) - 1
      /\ IsFiniteSet({r \in Fibers : alive'[r]})
  BY <1>1, <1>2, FS_RemoveElement
<1>4. Cardinality({r \in Fibers : alive'[r]}) \in Nat
  BY <1>3, FS_CardinalityType
<1> QED
  BY <1>3, <1>4 DEF CountExact

\* The points in and outside Points.
LEMMA AllPoints ==
  /\ "user" \in Points /\ "switching" \in Points /\ "exiting" \in Points
  /\ "check" \in Points /\ "enter" \in Points /\ "inside" \in Points
  /\ "landed" \in Points /\ "verify" \in Points /\ "rebuild" \in Points
  /\ "install" \in Points /\ "publish" \in Points
  /\ "leave" \in Points /\ "release" \in Points
  /\ "destroy" \in Points /\ "unwinding" \in Points /\ "destroyed" \in Points
  /\ "fresh" \in Points /\ "suspended" \in Points /\ "gone" \in Points
BY DEF Points, Calling, Guarded, Destroying, Blocked

\* The points in and outside Guarded.
LEMMA GuardedPoints ==
  /\ "user" \notin Guarded /\ "switching" \notin Guarded /\ "exiting" \notin Guarded
  /\ "check" \in Guarded /\ "enter" \in Guarded /\ "inside" \in Guarded
  /\ "landed" \in Guarded /\ "verify" \in Guarded /\ "rebuild" \in Guarded
  /\ "install" \in Guarded /\ "publish" \in Guarded
  /\ "leave" \in Guarded /\ "release" \notin Guarded
  /\ "destroy" \notin Guarded /\ "unwinding" \notin Guarded /\ "destroyed" \notin Guarded
  /\ "fresh" \notin Guarded /\ "suspended" \notin Guarded /\ "gone" \notin Guarded
BY DEF Guarded

\* The points in and outside Calling.
LEMMA CallingPoints ==
  /\ "user" \notin Calling /\ "switching" \notin Calling /\ "exiting" \notin Calling
  /\ "check" \in Calling /\ "enter" \in Calling /\ "inside" \in Calling
  /\ "landed" \in Calling /\ "verify" \in Calling /\ "rebuild" \in Calling
  /\ "install" \in Calling /\ "publish" \in Calling
  /\ "leave" \in Calling /\ "release" \in Calling
  /\ "destroy" \notin Calling /\ "unwinding" \notin Calling /\ "destroyed" \notin Calling
  /\ "fresh" \notin Calling /\ "suspended" \notin Calling /\ "gone" \notin Calling
BY DEF Calling, Guarded

\* The points in and outside Destroying.
LEMMA DestroyingPoints ==
  /\ "user" \notin Destroying /\ "switching" \notin Destroying /\ "exiting" \notin Destroying
  /\ "check" \notin Destroying /\ "enter" \notin Destroying /\ "inside" \notin Destroying
  /\ "landed" \notin Destroying /\ "verify" \notin Destroying /\ "rebuild" \notin Destroying
  /\ "install" \notin Destroying /\ "publish" \notin Destroying
  /\ "leave" \notin Destroying /\ "release" \notin Destroying
  /\ "destroy" \in Destroying /\ "unwinding" \in Destroying /\ "destroyed" \in Destroying
  /\ "fresh" \notin Destroying /\ "suspended" \notin Destroying /\ "gone" \notin Destroying
BY DEF Destroying

\* The points in and outside Blocked.
LEMMA BlockedPoints ==
  /\ "user" \notin Blocked /\ "switching" \notin Blocked /\ "exiting" \notin Blocked
  /\ "check" \notin Blocked /\ "enter" \notin Blocked /\ "inside" \in Blocked
  /\ "landed" \notin Blocked /\ "verify" \notin Blocked /\ "rebuild" \notin Blocked
  /\ "install" \notin Blocked /\ "publish" \notin Blocked
  /\ "leave" \notin Blocked /\ "release" \notin Blocked
  /\ "destroy" \notin Blocked /\ "unwinding" \in Blocked /\ "destroyed" \notin Blocked
  /\ "fresh" \in Blocked /\ "suspended" \in Blocked /\ "gone" \in Blocked
BY DEF Blocked

\* The points in and outside Idle.
LEMMA IdlePoints ==
  /\ "user" \notin Idle /\ "switching" \notin Idle /\ "exiting" \notin Idle
  /\ "check" \notin Idle /\ "enter" \notin Idle /\ "inside" \notin Idle
  /\ "landed" \notin Idle /\ "verify" \notin Idle /\ "rebuild" \notin Idle
  /\ "install" \notin Idle /\ "publish" \notin Idle
  /\ "leave" \notin Idle /\ "release" \notin Idle
  /\ "destroy" \notin Idle /\ "unwinding" \notin Idle /\ "destroyed" \notin Idle
  /\ "fresh" \in Idle /\ "suspended" \in Idle /\ "gone" \in Idle
BY DEF Idle

-----------------------------------------------------------------------------
(* Every action preserves Inv.                                             *)

\* make_shared<Fiber>: the slot was free of strands and calls.
LEMMA ConstructPreserves ==
  ASSUME Inv, NEW s \in Strands, NEW f \in Fibers, Construct(s, f)
  PROVE  Inv'
<1> USE DEF Known, Distinct, Working, Strands
<1>1. Known /\ pc[s] = "user"
  BY Unfold DEF Construct, Install, Publish, CountUp
<1> USE <1>1
<1>2. /\ pc[f] = "gone"
      /\ op[f] = Nobody
      /\ thread[f] = Nobody
      /\ target[f] = "NONE"
      /\ ~alive[f]
      /\ f # s
  BY IdlePoints, DestroyingPoints
     DEF HandleInv, StrandInv, Construct, Install, Publish, CountUp, Carried,
        TFlags, TFrame, THandles, TPoint, TThread
<1>3. \A r \in Strands : op[r] # f
  BY <1>2, IdlePoints, DestroyingPoints
     DEF StrandInv, Carried, TFlags, TFrame, TPoint, TThread
<1> USE <1>2, <1>3
<1>4. /\ alive' = [alive EXCEPT ![f] = TRUE]
      /\ owned' = [owned EXCEPT ![f] = TRUE]
      /\ count' = count + 1
      /\ operating' = [operating EXCEPT ![f] = FALSE]
      /\ exception' = [exception EXCEPT ![f] = FALSE]
      /\ context' = [context EXCEPT ![f] = f]
      /\ caller' = [caller EXCEPT ![f] = Nobody]
      /\ op' = [op EXCEPT ![f] = f]
      /\ waitReason' = [waitReason EXCEPT ![f] = NoReason]
      /\ suspendState' = [suspendState EXCEPT ![f] = "INIT"]
      /\ state' = [state EXCEPT ![f] = "INIT"]
      /\ pc' = [pc EXCEPT ![f] = "fresh"]
      /\ UNCHANGED <<target, result, previous, thread, current>>
  BY DEF Construct, Install, Publish, CountUp, Ident, status, life, handles,
      frames, carrier
<1>5. /\ \A r \in Fibers : alive'[r] <=> r = f \/ alive[r]
      /\ \A r \in Fibers : owned'[r] <=> r = f \/ owned[r]
      /\ \A r \in Fibers : operating'[r] <=> r # f /\ operating[r]
      /\ \A r \in Fibers : exception'[r] <=> r # f /\ exception[r]
      /\ \A r \in Fibers : context'[r] = IF r = f THEN f ELSE context[r]
      /\ \A r \in Fibers : caller'[r] = IF r = f THEN Nobody ELSE caller[r]
      /\ \A r \in Strands : op'[r] = IF r = f THEN f ELSE op[r]
      /\ \A r \in Fibers : waitReason'[r] = IF r = f THEN NoReason ELSE waitReason[r]
      /\ \A r \in Fibers : suspendState'[r] = IF r = f THEN "INIT" ELSE suspendState[r]
      /\ \A r \in Fibers : state'[r] = IF r = f THEN "INIT" ELSE state[r]
      /\ \A r \in Strands : pc'[r] = IF r = f THEN "fresh" ELSE pc[r]
      /\ UNCHANGED <<target, result, previous, thread, current>>
  BY <1>4 DEF TPoint, TFlags, THandles, TState
<1>6. (TPoint /\ TFlags /\ THandles /\ TState)'
  BY <1>4, AllPoints DEF TPoint, TFlags, THandles, TState, States
<1>7. StrandInv'
  BY <1>5, IdlePoints, DestroyingPoints
     DEF StrandInv, Carried, TPoint, TThread, TFlags, TFrame
<1>8. ThreadInv'
  BY <1>5, BlockedPoints DEF ThreadInv, Carried, TPoint, TThread
<1>9. IdentInv'
  BY <1>5, BlockedPoints, IdlePoints
     DEF IdentInv, Ident, Carried, TPoint, TThread, TCurrent
<1>10. (HolderInv /\ DestroyerInv)'
  BY <1>5, GuardedPoints, CallingPoints, DestroyingPoints
     DEF HolderInv, DestroyerInv, TPoint, TFlags
<1>11. (ResumerInv /\ StackInv /\ HandleInv)'
  BY <1>5, IdlePoints
     DEF ResumerInv, StackInv, Unwinding, HandleInv, TPoint, THandles, TFlags
<1>12. PointInv'
  BY <1>5 DEF PointInv, TPoint, TState
<1>13. StateInv'
  BY <1>5 DEF StateInv, TPoint, TState, TFrame, THandles, TFlags
<1>14. (ResultInv /\ InstallInv /\ ExceptionKept /\ WaitReasonExact)'
  BY <1>5, GuardedPoints
     DEF ResultInv, InstallInv, ExceptionKept, Holders, WaitReasonExact,
        TPoint, TFrame, TState, TFlags
<1>15. (TThread /\ TCurrent /\ TFrame)'
  BY <1>4 DEF TThread, TCurrent, TFrame
<1>16. CountExact' /\ (count \in Nat)'
  BY <1>5, <1>4, CountUpExact DEF Inv, TypeOK
<1> QED
  BY <1>6, <1>7, <1>8, <1>9, <1>10, <1>11, <1>12, <1>13, <1>14, <1>15, <1>16,
    Fold

\* The last outside owner goes; the destructor starts only without keepers.
LEMMA DropOwnerPreserves ==
  ASSUME Inv, NEW s \in Strands, NEW f \in Fibers, DropOwner(s, f)
  PROVE  Inv'
<1> USE DEF Known, Distinct, Working, Strands
<1>1. Known /\ pc[s] = "user"
  BY Unfold DEF DropOwner, UserCall, Keepers, Dying
<1> USE <1>1
<1>2. /\ alive[f]
      /\ thread[s] \in Threads
      /\ op[s] = Nobody
      /\ current[thread[s]] = Ident(s)
  BY IdlePoints, DestroyingPoints, BlockedPoints
     DEF UserCall, StrandInv, IdentInv, DropOwner, Keepers, Dying, Carried,
        TCurrent, TFlags, TFrame, TPoint, TThread
<1>3. \A r \in Strands : pc[r] \in Destroying => op[r] # f
  BY <1>2, DestroyingPoints, GuardedPoints, CallingPoints
     DEF HolderInv, DestroyerInv, DropOwner, UserCall, Keepers, Dying, TFlags,
        TPoint
<1> USE <1>2, <1>3
<1>4. CASE Keepers(f) = {}
  <2>1. /\ owned' = [owned EXCEPT ![f] = FALSE]
        /\ pc' = [pc EXCEPT ![s] = "destroy"]
        /\ op' = [op EXCEPT ![s] = f]
        /\ UNCHANGED <<alive, count, state, suspendState, waitReason,
             operating, exception, context, caller, target, result, previous,
             thread, current>>
    BY <1>4
       DEF DropOwner, UserCall, Keepers, Dying, Ident, status, life, handles,
          frames, carrier
  <2>2. /\ \A r \in Fibers : owned'[r] <=> r # f /\ owned[r]
        /\ \A r \in Strands : pc'[r] = IF r = s THEN "destroy" ELSE pc[r]
        /\ \A r \in Strands : op'[r] = IF r = s THEN f ELSE op[r]
        /\ UNCHANGED <<alive, count, state, suspendState, waitReason,
             operating, exception, context, caller, target, result, previous,
             thread, current>>
    BY <1>4, <2>1 DEF TPoint, TFlags
  <2>3. \A r \in Strands : pc[r] \in Calling => op[r] # f
    BY <1>4, CallingPoints DEF Keepers, Dying, TPoint
  <2>4. f # s
    BY <1>4, <2>3, CallingPoints, DestroyingPoints, IdlePoints
       DEF ResumerInv, StackInv, HandleInv, Unwinding, TFlags, THandles, TPoint
  <2>5. (TPoint /\ TFlags)'
    BY <1>4, <2>3, <2>4, <2>1, AllPoints DEF TPoint, TFlags
  <2>6. StrandInv'
    BY <1>4, <2>3, <2>4, <2>2, IdlePoints, DestroyingPoints
       DEF StrandInv, Carried, TPoint, TThread, TFlags, TFrame
  <2>7. ThreadInv'
    BY <1>4, <2>3, <2>4, <2>2, BlockedPoints
       DEF ThreadInv, Carried, TPoint, TThread
  <2>8. IdentInv'
    BY <1>4, <2>3, <2>4, <2>2, BlockedPoints, IdlePoints
       DEF IdentInv, Ident, Carried, TPoint, TThread, TCurrent
  <2>9. (HolderInv /\ DestroyerInv)'
    BY <1>4, <2>3, <2>4, <2>2, GuardedPoints, CallingPoints, DestroyingPoints
       DEF HolderInv, DestroyerInv, TPoint, TFlags
  <2>10. (ResumerInv /\ StackInv /\ HandleInv)'
    BY <1>4, <2>3, <2>4, <2>2, IdlePoints
       DEF ResumerInv, StackInv, Unwinding, HandleInv, TPoint, THandles, TFlags
  <2>11. PointInv'
    BY <1>4, <2>3, <2>4, <2>2 DEF PointInv, TPoint, TState
  <2>12. StateInv'
    BY <1>4, <2>3, <2>4, <2>2
       DEF StateInv, TPoint, TState, TFrame, THandles, TFlags
  <2>13. (ResultInv /\ InstallInv /\ ExceptionKept)'
    BY <1>4, <2>3, <2>4, <2>2, GuardedPoints
       DEF ResultInv, InstallInv, ExceptionKept, Holders, TPoint, TFrame,
          TState, TFlags
  <2>14. /\ (TThread /\ TCurrent /\ THandles /\ TState /\ TFrame)'
         /\ (WaitReasonExact)'
    BY <2>1 DEF TThread, TCurrent, THandles, TState, TFrame, WaitReasonExact
  <2>15. CountExact' /\ (count \in Nat)'
    BY <2>1 DEF Inv, TypeOK, CountExact
  <2> QED
    BY <2>5, <2>6, <2>7, <2>8, <2>9, <2>10, <2>11, <2>12, <2>13, <2>14, <2>15,
      Fold
<1>5. CASE Keepers(f) # {}
  <2>1. /\ owned' = [owned EXCEPT ![f] = FALSE]
        /\ UNCHANGED <<alive, count, state, suspendState, waitReason,
             operating, exception, context, caller, pc, op, target, result,
             previous, thread, current>>
    BY <1>5
       DEF DropOwner, UserCall, Keepers, Dying, Ident, status, life, handles,
          frames, carrier
  <2>2. /\ \A r \in Fibers : owned'[r] <=> r # f /\ owned[r]
        /\ UNCHANGED <<alive, count, state, suspendState, waitReason,
             operating, exception, context, caller, pc, op, target, result,
             previous, thread, current>>
    BY <1>5, <2>1 DEF TFlags
  <2>3. TFlags'
    BY <1>5, <2>1 DEF TFlags
  <2>4. DestroyerInv'
    BY <1>5, <2>2, CallingPoints, DestroyingPoints
       DEF DestroyerInv, TPoint, TFlags
  <2>5. /\ (TPoint /\ TThread /\ TCurrent /\ THandles /\ TState)'
        /\ (TFrame /\ StrandInv /\ ThreadInv /\ IdentInv /\ HolderInv)'
        /\ (ResumerInv /\ StackInv /\ HandleInv /\ PointInv /\ StateInv)'
        /\ (ResultInv /\ InstallInv /\ ExceptionKept /\ WaitReasonExact)'
    BY <2>1
       DEF TPoint, TThread, TCurrent, THandles, TState, TFrame, StrandInv,
          ThreadInv, IdentInv, Ident, HolderInv, ResumerInv, StackInv,
          Unwinding, HandleInv, PointInv, StateInv, ResultInv, InstallInv,
          ExceptionKept, Holders, WaitReasonExact
  <2>6. CountExact' /\ (count \in Nat)'
    BY <2>1 DEF Inv, TypeOK, CountExact
  <2> QED
    BY <2>3, <2>4, <2>5, <2>6, Fold
<1> QED
  BY <1>4, <1>5 DEF DropOwner, UserCall, Keepers, Dying

\* GetThis makes the running fiber owned; nobody destroys it.
LEMMA GetThisPreserves ==
  ASSUME Inv, NEW s \in Strands, GetThis(s)
  PROVE  Inv'
<1> USE DEF Known, Distinct, Working, Strands
<1>1. Known /\ pc[s] = "user"
  BY Unfold DEF GetThis, Keepers, Dying
<1> USE <1>1
<1>2. /\ thread[s] \in Threads
      /\ current[thread[s]] \in Fibers
  BY IdlePoints, DestroyingPoints
     DEF StrandInv, GetThis, Keepers, Dying, Carried, TCurrent, TFlags, TFrame,
        TPoint, TThread
<1>3. \A d \in Strands : pc[d] \in Destroying => op[d] # current[thread[s]]
  BY <1>2, DestroyingPoints
     DEF Keepers, Dying, GetThis, TCurrent, TPoint, TThread
<1> USE <1>2, <1>3
<1>4. /\ owned' = [owned EXCEPT ![current[thread[s]]] = TRUE]
      /\ UNCHANGED <<alive, count, state, suspendState, waitReason, operating,
           exception, context, caller, pc, op, target, result, previous,
           thread, current>>
  BY DEF GetThis, Keepers, Dying, Ident, status, life, handles, frames, carrier
<1>5. /\ \A r \in Fibers : owned'[r] <=> r = current[thread[s]] \/ owned[r]
      /\ UNCHANGED <<alive, count, state, suspendState, waitReason, operating,
           exception, context, caller, pc, op, target, result, previous,
           thread, current>>
  BY <1>4 DEF TFlags
<1>6. TFlags'
  BY <1>4 DEF TFlags
<1>7. DestroyerInv'
  BY <1>5, CallingPoints, DestroyingPoints DEF DestroyerInv, TPoint, TFlags
<1>8. /\ (TPoint /\ TThread /\ TCurrent /\ THandles /\ TState)'
      /\ (TFrame /\ StrandInv /\ ThreadInv /\ IdentInv /\ HolderInv)'
      /\ (ResumerInv /\ StackInv /\ HandleInv /\ PointInv /\ StateInv)'
      /\ (ResultInv /\ InstallInv /\ ExceptionKept /\ WaitReasonExact)'
  BY <1>4
     DEF TPoint, TThread, TCurrent, THandles, TState, TFrame, StrandInv,
        ThreadInv, IdentInv, Ident, HolderInv, ResumerInv, StackInv, Unwinding,
        HandleInv, PointInv, StateInv, ResultInv, InstallInv, ExceptionKept,
        Holders, WaitReasonExact
<1>9. CountExact' /\ (count \in Nat)'
  BY <1>4 DEF Inv, TypeOK, CountExact
<1> QED
  BY <1>6, <1>7, <1>8, <1>9, Fold

\* OperationGuard of resume admits a call only where no other is.
LEMMA ResumeEnterPreserves ==
  ASSUME Inv, NEW s \in Strands, NEW f \in Fibers, ResumeEnter(s, f)
  PROVE  Inv'
<1> USE DEF Known, Distinct, Working, Strands
<1>1. Known /\ pc[s] = "user"
  BY Unfold DEF ResumeEnter, Enter, UserCall, Admitted
<1> USE <1>1
<1>2. /\ alive[f]
      /\ thread[s] \in Threads
      /\ op[s] = Nobody
      /\ current[thread[s]] = Ident(s)
  BY IdlePoints, DestroyingPoints, BlockedPoints
     DEF UserCall, StrandInv, IdentInv, ResumeEnter, Enter, Admitted, Carried,
        TCurrent, TFlags, TFrame, TPoint, TThread
<1>3. \A d \in Strands : pc[d] = "destroy" => op[d] # f
  BY <1>2, CallingPoints, DestroyingPoints, IdlePoints
     DEF DestroyerInv, ResumerInv, StackInv, HandleInv, Unwinding, UserCall,
        ResumeEnter, Enter, Admitted, TFlags, THandles, TPoint
<1>4. \A d \in Strands : pc[d] = "destroyed" => op[d] # f
  BY <1>2, <1>3, CallingPoints, DestroyingPoints
     DEF DestroyerInv, PointInv, UserCall, ResumeEnter, Enter, Admitted,
        TFlags, TPoint, TState
<1>5. \A d \in Strands : pc[d] = "unwinding" /\ op[d] = f => s = f
  BY <1>2, <1>3, <1>4, CallingPoints, DestroyingPoints
     DEF DestroyerInv, UserCall, ResumeEnter, Enter, Admitted, TFlags, TPoint
<1>6. \A d \in Strands : pc[d] \in Destroying /\ op[d] = f => s = f /\ pc[d] = "unwinding"
  BY <1>2, <1>3, <1>4, <1>5, DestroyingPoints DEF Destroying, TPoint
<1> USE <1>2, <1>3, <1>4, <1>5, <1>6
<1>7. CASE operating[f]
  <2>1. /\ op' = [op EXCEPT ![s] = f]
        /\ pc' = [pc EXCEPT ![s] = "release"]
        /\ operating' = [operating EXCEPT ![f] = TRUE]
        /\ UNCHANGED <<alive, owned, count, state, suspendState, waitReason,
             exception, context, caller, target, result, previous, thread,
             current>>
    BY <1>7
       DEF ResumeEnter, Enter, UserCall, Admitted, Ident, status, life,
          handles, frames, carrier
  <2>2. /\ \A r \in Strands : op'[r] = IF r = s THEN f ELSE op[r]
        /\ \A r \in Strands : pc'[r] = IF r = s THEN "release" ELSE pc[r]
        /\ \A r \in Fibers : operating'[r] <=> r = f \/ operating[r]
        /\ UNCHANGED <<alive, owned, count, state, suspendState, waitReason,
             exception, context, caller, target, result, previous, thread,
             current>>
    BY <1>7, <2>1 DEF TPoint, TFlags
  <2>3. (TPoint /\ TFlags)'
    BY <1>7, <2>1, AllPoints DEF TPoint, TFlags
  <2>4. StrandInv'
    BY <1>7, <2>2, IdlePoints, DestroyingPoints
       DEF StrandInv, Carried, TPoint, TThread, TFlags, TFrame
  <2>5. ThreadInv'
    BY <1>7, <2>2, BlockedPoints DEF ThreadInv, Carried, TPoint, TThread
  <2>6. IdentInv'
    BY <1>7, <2>2, BlockedPoints, IdlePoints
       DEF IdentInv, Ident, Carried, TPoint, TThread, TCurrent
  <2>7. (HolderInv /\ DestroyerInv)'
    BY <1>7, <2>2, GuardedPoints, CallingPoints, DestroyingPoints
       DEF HolderInv, DestroyerInv, TPoint, TFlags
  <2>8. (ResumerInv /\ StackInv /\ HandleInv)'
    BY <1>7, <2>2, IdlePoints
       DEF ResumerInv, StackInv, Unwinding, HandleInv, TPoint, THandles, TFlags
  <2>9. PointInv'
    BY <1>7, <2>2 DEF PointInv, TPoint, TState
  <2>10. StateInv'
    BY <1>7, <2>2 DEF StateInv, TPoint, TState, TFrame, THandles, TFlags
  <2>11. (ResultInv /\ InstallInv /\ ExceptionKept)'
    BY <1>7, <2>2, GuardedPoints
       DEF ResultInv, InstallInv, ExceptionKept, Holders, TPoint, TFrame,
          TState, TFlags
  <2>12. /\ (TThread /\ TCurrent /\ THandles /\ TState /\ TFrame)'
         /\ (WaitReasonExact)'
    BY <2>1 DEF TThread, TCurrent, THandles, TState, TFrame, WaitReasonExact
  <2>13. CountExact' /\ (count \in Nat)'
    BY <2>1 DEF Inv, TypeOK, CountExact
  <2> QED
    BY <2>3, <2>4, <2>5, <2>6, <2>7, <2>8, <2>9, <2>10, <2>11, <2>12, <2>13,
      Fold
<1>8. CASE ~operating[f]
  <2>1. /\ op' = [op EXCEPT ![s] = f]
        /\ pc' = [pc EXCEPT ![s] = "check"]
        /\ operating' = [operating EXCEPT ![f] = TRUE]
        /\ UNCHANGED <<alive, owned, count, state, suspendState, waitReason,
             exception, context, caller, target, result, previous, thread,
             current>>
    BY <1>8
       DEF ResumeEnter, Enter, UserCall, Admitted, Ident, status, life,
          handles, frames, carrier
  <2>2. /\ \A r \in Strands : op'[r] = IF r = s THEN f ELSE op[r]
        /\ \A r \in Strands : pc'[r] = IF r = s THEN "check" ELSE pc[r]
        /\ \A r \in Fibers : operating'[r] <=> r = f \/ operating[r]
        /\ UNCHANGED <<alive, owned, count, state, suspendState, waitReason,
             exception, context, caller, target, result, previous, thread,
             current>>
    BY <1>8, <2>1 DEF TPoint, TFlags
  <2>3. \A r \in Strands : pc[r] \in Guarded => op[r] # f
    BY <1>8, GuardedPoints DEF HolderInv, TFlags, TPoint
  <2>4. (TPoint /\ TFlags)'
    BY <1>8, <2>3, <2>1, AllPoints DEF TPoint, TFlags
  <2>5. StrandInv'
    BY <1>8, <2>3, <2>2, IdlePoints, DestroyingPoints
       DEF StrandInv, Carried, TPoint, TThread, TFlags, TFrame
  <2>6. ThreadInv'
    BY <1>8, <2>3, <2>2, BlockedPoints DEF ThreadInv, Carried, TPoint, TThread
  <2>7. IdentInv'
    BY <1>8, <2>3, <2>2, BlockedPoints, IdlePoints
       DEF IdentInv, Ident, Carried, TPoint, TThread, TCurrent
  <2>8. (HolderInv /\ DestroyerInv)'
    BY <1>8, <2>3, <2>2, GuardedPoints, CallingPoints, DestroyingPoints
       DEF HolderInv, DestroyerInv, TPoint, TFlags
  <2>9. (ResumerInv /\ StackInv /\ HandleInv)'
    BY <1>8, <2>3, <2>2, IdlePoints
       DEF ResumerInv, StackInv, Unwinding, HandleInv, TPoint, THandles, TFlags
  <2>10. (PointInv /\ StateInv)'
    BY <1>8, <2>3, <2>2
       DEF PointInv, StateInv, TPoint, TState, TFrame, THandles, TFlags
  <2>11. (ResultInv /\ InstallInv /\ ExceptionKept)'
    BY <1>8, <2>3, <2>2, GuardedPoints
       DEF ResultInv, InstallInv, ExceptionKept, Holders, TPoint, TFrame,
          TState, TFlags
  <2>12. /\ (TThread /\ TCurrent /\ THandles /\ TState /\ TFrame)'
         /\ (WaitReasonExact)'
    BY <2>1 DEF TThread, TCurrent, THandles, TState, TFrame, WaitReasonExact
  <2>13. CountExact' /\ (count \in Nat)'
    BY <2>1 DEF Inv, TypeOK, CountExact
  <2> QED
    BY <2>4, <2>5, <2>6, <2>7, <2>8, <2>9, <2>10, <2>11, <2>12, <2>13, Fold
<1> QED
  BY <1>7, <1>8 DEF ResumeEnter, Enter, UserCall, Admitted

\* resume publishes EXEC for an object whose stack waits, or throws.
LEMMA ResumeCheckPreserves ==
  ASSUME Inv, NEW s \in Strands, ResumeCheck(s)
  PROVE  Inv'
<1> USE DEF Known, Distinct, Working, Strands
<1>1. Known /\ pc[s] = "check"
  BY Unfold DEF ResumeCheck, Resumable
<1> USE <1>1
<1>2. /\ op[s] \in Fibers
      /\ alive[op[s]]
  BY IdlePoints, DestroyingPoints
     DEF StrandInv, Carried, TFlags, TFrame, TPoint, TThread
<1> USE <1>2
<1>3. CASE Resumable(op[s])
  <2>1. /\ state' = [state EXCEPT ![op[s]] = "EXEC"]
        /\ pc' = [pc EXCEPT ![s] = "enter"]
        /\ UNCHANGED <<alive, owned, count, suspendState, waitReason,
             operating, exception, context, caller, op, target, result,
             previous, thread, current>>
    BY <1>3
       DEF ResumeCheck, Resumable, Ident, status, life, handles, frames,
          carrier
  <2>2. /\ \A r \in Fibers : state'[r] = IF r = op[s] THEN "EXEC" ELSE state[r]
        /\ \A r \in Strands : pc'[r] = IF r = s THEN "enter" ELSE pc[r]
        /\ UNCHANGED <<alive, owned, count, suspendState, waitReason,
             operating, exception, context, caller, op, target, result,
             previous, thread, current>>
    BY <1>3, <2>1 DEF TPoint, TState
  <2>3. /\ context[op[s]] # Nobody
        /\ state[op[s]] \in {"INIT", "READY"}
    BY <1>3 DEF Resumable, THandles, TPoint, TState
  <2>4. /\ pc[op[s]] \in {"fresh", "suspended"}
        /\ op[s] # s
        /\ caller[op[s]] = Nobody
    BY <1>3, <2>3, IdlePoints, DestroyingPoints
       DEF ResumerInv, StackInv, HandleInv, StrandInv, Carried, TFlags, TFrame,
          THandles, TPoint, TThread
  <2>5. \A d \in Strands : pc[d] = "unwinding" => op[d] # op[s]
    BY <1>3, <2>3, <2>4, IdlePoints
       DEF ResumerInv, StackInv, HandleInv, TFlags, THandles, TPoint
  <2>6. \A r \in Strands :
           pc[r] \in {"landed", "rebuild", "install", "publish"} => op[r] # op[s]
    BY <1>3, <2>3, <2>4, <2>5, GuardedPoints DEF HolderInv, TFlags, TPoint
  <2>7. (TPoint /\ TState)'
    BY <1>3, <2>3, <2>4, <2>5, <2>6, <2>1, AllPoints DEF TPoint, TState, States
  <2>8. StrandInv'
    BY <1>3, <2>3, <2>4, <2>5, <2>6, <2>2, IdlePoints, DestroyingPoints
       DEF StrandInv, Carried, TPoint, TThread, TFlags, TFrame
  <2>9. ThreadInv'
    BY <1>3, <2>3, <2>4, <2>5, <2>6, <2>2, BlockedPoints
       DEF ThreadInv, Carried, TPoint, TThread
  <2>10. IdentInv'
    BY <1>3, <2>3, <2>4, <2>5, <2>6, <2>2, BlockedPoints, IdlePoints
       DEF IdentInv, Ident, Carried, TPoint, TThread, TCurrent
  <2>11. (HolderInv /\ DestroyerInv)'
    BY <1>3, <2>3, <2>4, <2>5, <2>6, <2>2, GuardedPoints, CallingPoints,
      DestroyingPoints DEF HolderInv, DestroyerInv, TPoint, TFlags
  <2>12. (ResumerInv /\ StackInv /\ HandleInv)'
    BY <1>3, <2>3, <2>4, <2>5, <2>6, <2>2, IdlePoints
       DEF ResumerInv, StackInv, Unwinding, HandleInv, TPoint, THandles, TFlags
  <2>13. PointInv'
    BY <1>3, <2>3, <2>4, <2>5, <2>6, <2>2, SMTT(60) DEF PointInv, TPoint, TState
  <2>14. StateInv'
    <3>1. \A f \in Fibers : f # op[s] => /\ state'[f] = state[f]
                                       /\ (pc'[f] = pc[f] \/ pc'[f] = "enter")
      BY <2>2 DEF TState
    <3>2. \A f \in Fibers : f = s => pc[f] = pc[s] /\ pc'[f] = "enter"
      BY <2>2
    <3>3. \A r \in Strands : /\ pc[r] = "publish" => pc'[r] = "publish"
                             /\ pc[r] = "destroyed" => pc'[r] = "destroyed"
                             /\ pc[r] \in {"enter", "inside"} => pc'[r] = pc[r]
      BY <1>3, <2>2 DEF TPoint
    <3> QED
      BY <1>3, <2>3, <2>4, <2>2, <3>1, <3>2, <3>3, SMTT(60)
         DEF StateInv, TPoint, TState, TFrame, THandles, TFlags
  <2>15. (ResultInv /\ InstallInv /\ ExceptionKept /\ WaitReasonExact)'
    BY <1>3, <2>3, <2>4, <2>5, <2>6, <2>2, GuardedPoints
       DEF ResultInv, InstallInv, ExceptionKept, Holders, WaitReasonExact,
          TPoint, TFrame, TState, TFlags
  <2>16. (TThread /\ TCurrent /\ TFlags /\ THandles /\ TFrame)'
    BY <2>1 DEF TThread, TCurrent, TFlags, THandles, TFrame
  <2>17. CountExact' /\ (count \in Nat)'
    BY <2>1 DEF Inv, TypeOK, CountExact
  <2> QED
    BY <2>7, <2>8, <2>9, <2>10, <2>11, <2>12, <2>13, <2>14, <2>15, <2>16,
      <2>17, Fold
<1>4. CASE ~Resumable(op[s])
  <2>1. /\ pc' = [pc EXCEPT ![s] = "leave"]
        /\ UNCHANGED <<alive, owned, count, state, suspendState, waitReason,
             operating, exception, context, caller, op, target, result,
             previous, thread, current>>
    BY <1>4
       DEF ResumeCheck, Resumable, Ident, status, life, handles, frames,
          carrier
  <2>2. /\ \A r \in Strands : pc'[r] = IF r = s THEN "leave" ELSE pc[r]
        /\ UNCHANGED <<alive, owned, count, state, suspendState, waitReason,
             operating, exception, context, caller, op, target, result,
             previous, thread, current>>
    BY <1>4, <2>1 DEF TPoint
  <2>3. TPoint'
    BY <1>4, <2>1, AllPoints DEF TPoint
  <2>4. StrandInv'
    BY <1>4, <2>2, IdlePoints, DestroyingPoints
       DEF StrandInv, Carried, TPoint, TThread, TFlags, TFrame
  <2>5. ThreadInv'
    BY <1>4, <2>2, BlockedPoints DEF ThreadInv, Carried, TPoint, TThread
  <2>6. IdentInv'
    BY <1>4, <2>2, BlockedPoints, IdlePoints
       DEF IdentInv, Ident, Carried, TPoint, TThread, TCurrent
  <2>7. (HolderInv /\ DestroyerInv)'
    BY <1>4, <2>2, GuardedPoints, CallingPoints, DestroyingPoints
       DEF HolderInv, DestroyerInv, TPoint, TFlags
  <2>8. (ResumerInv /\ StackInv /\ HandleInv)'
    BY <1>4, <2>2, IdlePoints
       DEF ResumerInv, StackInv, Unwinding, HandleInv, TPoint, THandles, TFlags
  <2>9. (PointInv /\ StateInv)'
    BY <1>4, <2>2
       DEF PointInv, StateInv, TPoint, TState, TFrame, THandles, TFlags
  <2>10. (ResultInv /\ InstallInv /\ ExceptionKept)'
    BY <1>4, <2>2, GuardedPoints
       DEF ResultInv, InstallInv, ExceptionKept, Holders, TPoint, TFrame,
          TState, TFlags
  <2>11. /\ (TThread /\ TCurrent /\ TFlags /\ THandles /\ TState)'
         /\ (TFrame /\ WaitReasonExact)'
    BY <2>1
       DEF TThread, TCurrent, TFlags, THandles, TState, TFrame, WaitReasonExact
  <2>12. CountExact' /\ (count \in Nat)'
    BY <2>1 DEF Inv, TypeOK, CountExact
  <2> QED
    BY <2>3, <2>4, <2>5, <2>6, <2>7, <2>8, <2>9, <2>10, <2>11, <2>12, Fold
<1> QED
  BY <1>3, <1>4 DEF ResumeCheck, Resumable

\* The jump into the stack hands the thread and the identity over.
LEMMA ResumeSwitchPreserves ==
  ASSUME Inv, NEW s \in Strands, ResumeSwitch(s)
  PROVE  Inv'
<1> USE DEF Known, Distinct, Working, Strands
<1>1. Known /\ pc[s] = "enter"
  BY Unfold DEF ResumeSwitch, Carry
<1> USE <1>1
<1>2. /\ op[s] \in Fibers
      /\ alive[op[s]]
      /\ op[s] # s
      /\ state[op[s]] = "EXEC"
      /\ pc[op[s]] \in {"fresh", "suspended"}
  BY IdlePoints, DestroyingPoints
     DEF StrandInv, PointInv, StateInv, Carried, TFlags, TFrame, THandles,
        TPoint, TState, TThread
<1>3. /\ context[op[s]] = op[s]
      /\ caller[op[s]] = Nobody
      /\ op[op[s]] = op[s]
  BY <1>2, IdlePoints, DestroyingPoints
     DEF ResumerInv, StackInv, HandleInv, StrandInv, Carried, TFlags, TFrame,
        THandles, TPoint, TThread
<1>4. \A d \in Strands : pc[d] = "unwinding" => op[d] # op[s]
  BY <1>2, <1>3, IdlePoints
     DEF ResumerInv, StackInv, HandleInv, TFlags, THandles, TPoint
<1>5. /\ thread[s] \in Threads
      /\ thread[op[s]] = Nobody
      /\ current[thread[s]] = Ident(s)
  BY <1>2, <1>3, <1>4, IdlePoints, DestroyingPoints, BlockedPoints
     DEF StrandInv, IdentInv, Carried, TCurrent, TFlags, TFrame, TPoint,
        TThread
<1>6. \A r \in Strands : pc[r] \in {"check", "enter", "inside", "landed", "verify",
                               "rebuild", "install", "publish", "leave"}
         /\ op[r] = op[s] => r = s
  BY <1>2, <1>3, <1>4, <1>5, GuardedPoints DEF HolderInv, TFlags, TPoint
<1>7. \A r \in Strands : pc[r] \notin Blocked /\ thread[r] = thread[s] => r = s
  BY <1>2, <1>3, <1>4, <1>5, <1>6, BlockedPoints DEF ThreadInv, TPoint, TThread
<1> USE <1>2, <1>3, <1>4, <1>5, <1>6, <1>7
<1>8. /\ previous' = [previous EXCEPT ![s] = Ident(s)]
      /\ current' = [current EXCEPT ![thread[s]] = op[s]]
      /\ context' = [context EXCEPT ![op[s]] = Nobody]
      /\ caller' = [caller EXCEPT ![op[s]] = s]
      /\ pc' = [pc EXCEPT ![s] = "inside", ![op[s]] = "user"]
      /\ op' = [op EXCEPT ![op[s]] = Nobody]
      /\ target' = [target EXCEPT ![op[s]] = "NONE"]
      /\ thread' = [thread EXCEPT ![op[s]] = thread[s]]
      /\ UNCHANGED <<alive, owned, count, state, suspendState, waitReason,
           operating, exception, result>>
  BY DEF ResumeSwitch, Carry, Ident, status, life, handles, frames, carrier
<1>9. /\ \A r \in Strands : previous'[r] = IF r = s THEN Ident(s) ELSE previous[r]
      /\ \A r \in Threads : current'[r] = IF r = thread[s] THEN op[s] ELSE current[r]
      /\ \A r \in Fibers : context'[r] = IF r = op[s] THEN Nobody ELSE context[r]
      /\ \A r \in Fibers : caller'[r] = IF r = op[s] THEN s ELSE caller[r]
      /\ \A r \in Strands : pc'[r] = IF r = s THEN "inside"
                                     ELSE IF r = op[s] THEN "user" ELSE pc[r]
      /\ \A r \in Strands : op'[r] = IF r = op[s] THEN Nobody ELSE op[r]
      /\ \A r \in Strands : target'[r] = IF r = op[s] THEN "NONE" ELSE target[r]
      /\ \A r \in Strands : thread'[r] = IF r = op[s] THEN thread[s] ELSE thread[r]
      /\ UNCHANGED <<alive, owned, count, state, suspendState, waitReason,
           operating, exception, result>>
  BY <1>8 DEF TPoint, TThread, TCurrent, THandles, TFrame
<1>10. (TPoint /\ TThread)'
  BY <1>8, AllPoints DEF TPoint, TThread
<1>11. (TCurrent /\ THandles /\ TFrame)'
  BY <1>8 DEF TCurrent, THandles, TFrame, TPoint, TThread, States
<1>12. StrandInv'
  BY <1>9, IdlePoints, DestroyingPoints
     DEF StrandInv, Carried, TPoint, TThread, TFlags, TFrame
<1>13. ThreadInv'
  BY <1>9, BlockedPoints DEF ThreadInv, Carried, TPoint, TThread
<1>14. IdentInv'
  BY <1>9, BlockedPoints, IdlePoints
     DEF IdentInv, Ident, Carried, TPoint, TThread, TCurrent
<1>15. HolderInv'
  BY <1>9, GuardedPoints DEF HolderInv, TPoint, TFlags
<1>16. DestroyerInv'
  BY <1>9, CallingPoints, DestroyingPoints DEF DestroyerInv, TPoint, TFlags
<1>17. (ResumerInv /\ StackInv /\ HandleInv)'
  BY <1>9, IdlePoints, SMTT(60)
     DEF ResumerInv, StackInv, Unwinding, HandleInv, TPoint, THandles, TFlags
<1>18. PointInv'
  BY <1>9 DEF PointInv, TPoint, TState
<1>19. StateInv'
  BY <1>9, SMTT(30) DEF StateInv, TPoint, TState, TFrame, THandles, TFlags
<1>20. ResultInv'
  BY <1>9 DEF ResultInv, TPoint, TFrame, TState
<1>21. InstallInv'
  BY <1>9 DEF InstallInv, TPoint, TState
<1>22. ExceptionKept'
  BY <1>9, GuardedPoints DEF ExceptionKept, Holders, TPoint, TState, TFlags
<1>23. (TFlags /\ TState /\ WaitReasonExact)'
  BY <1>8 DEF TFlags, TState, WaitReasonExact
<1>24. CountExact' /\ (count \in Nat)'
  BY <1>8 DEF Inv, TypeOK, CountExact
<1> QED
  BY <1>10, <1>11, <1>12, <1>13, <1>14, <1>15, <1>16, <1>17, <1>18, <1>19,
    <1>20, <1>21, <1>22, <1>23, <1>24, Fold

\* The jump back: result and identity.
LEMMA ResumeLandPreserves ==
  ASSUME Inv, NEW s \in Strands, ResumeLand(s)
  PROVE  Inv'
<1> USE DEF Known, Distinct, Working, Strands
<1>1. Known /\ pc[s] = "landed"
  BY Unfold DEF ResumeLand, Outcome, Restore
<1> USE <1>1
<1>2. /\ op[s] \in Fibers
      /\ alive[op[s]]
      /\ op[s] # s
      /\ thread[s] \in Threads
      /\ previous[s] = Ident(s)
  BY IdlePoints, DestroyingPoints, BlockedPoints
     DEF StrandInv, IdentInv, Carried, TCurrent, TFlags, TFrame, TPoint,
        TThread
<1>3. \A d \in Strands : pc[d] \in {"destroy", "unwinding", "destroyed"} => op[d] # op[s]
  BY <1>2, GuardedPoints, CallingPoints, DestroyingPoints
     DEF HolderInv, DestroyerInv, TFlags, TPoint
<1>4. \A r \in Strands : pc[r] \in {"check", "enter", "inside", "landed", "verify",
                               "rebuild", "install", "publish", "leave"}
         /\ op[r] = op[s] => r = s
  BY <1>2, <1>3, GuardedPoints DEF HolderInv, TFlags, TPoint
<1>5. \A r \in Strands : pc[r] \notin Blocked /\ thread[r] = thread[s] => r = s
  BY <1>2, <1>3, <1>4, BlockedPoints DEF ThreadInv, TPoint, TThread
<1>6. \/ pc[op[s]] = "suspended" /\ suspendState[op[s]] = target[op[s]]
      \/ pc[op[s]] = "gone" /\ suspendState[op[s]] = state[op[s]]
  BY <1>2, <1>3, <1>4, <1>5
     DEF PointInv, StateInv, TFlags, TFrame, THandles, TPoint, TState
<1> USE <1>2, <1>3, <1>4, <1>5, <1>6
<1>7. /\ result' = [result EXCEPT ![s] = suspendState[op[s]]]
      /\ current' = [current EXCEPT ![thread[s]] = previous[s]]
      /\ previous' = [previous EXCEPT ![s] = Nobody]
      /\ pc' = [pc EXCEPT ![s] = "leave"]
      /\ UNCHANGED <<alive, owned, count, state, suspendState, waitReason,
           operating, exception, context, caller, op, target, thread>>
  BY DEF ResumeLand, Outcome, Restore, Ident, status, life, handles, frames,
      carrier
<1>8. /\ \A r \in Strands : result'[r] = IF r = s THEN suspendState[op[s]] ELSE result[r]
      /\ \A r \in Threads : current'[r] = IF r = thread[s] THEN previous[s] ELSE current[r]
      /\ \A r \in Strands : previous'[r] = IF r = s THEN Nobody ELSE previous[r]
      /\ \A r \in Strands : pc'[r] = IF r = s THEN "leave" ELSE pc[r]
      /\ UNCHANGED <<alive, owned, count, state, suspendState, waitReason,
           operating, exception, context, caller, op, target, thread>>
  BY <1>7 DEF TPoint, TCurrent, TFrame
<1>9. (TPoint /\ TCurrent /\ TFrame)'
  BY <1>7, AllPoints DEF TPoint, TCurrent, TFrame, TState, States
<1>10. StrandInv'
  BY <1>8, IdlePoints, DestroyingPoints
     DEF StrandInv, Carried, TPoint, TThread, TFlags, TFrame
<1>11. ThreadInv'
  BY <1>8, BlockedPoints DEF ThreadInv, Carried, TPoint, TThread
<1>12. IdentInv'
  BY <1>8, BlockedPoints, IdlePoints
     DEF IdentInv, Ident, Carried, TPoint, TThread, TCurrent
<1>13. (HolderInv /\ DestroyerInv)'
  BY <1>8, GuardedPoints, CallingPoints, DestroyingPoints
     DEF HolderInv, DestroyerInv, TPoint, TFlags
<1>14. (ResumerInv /\ StackInv /\ HandleInv)'
  BY <1>8, IdlePoints
     DEF ResumerInv, StackInv, Unwinding, HandleInv, TPoint, THandles, TFlags
<1>15. (PointInv /\ StateInv)'
  BY <1>8, SMTT(60) DEF PointInv, StateInv, TPoint, TState, TFrame, THandles, TFlags
<1>16. (ResultInv /\ InstallInv /\ ExceptionKept)'
  BY <1>8, GuardedPoints
     DEF ResultInv, InstallInv, ExceptionKept, Holders, TPoint, TFrame, TState,
        TFlags
<1>17. (TThread /\ TFlags /\ THandles /\ TState /\ WaitReasonExact)'
  BY <1>7 DEF TThread, TFlags, THandles, TState, WaitReasonExact
<1>18. CountExact' /\ (count \in Nat)'
  BY <1>7 DEF Inv, TypeOK, CountExact
<1> QED
  BY <1>9, <1>10, <1>11, <1>12, <1>13, <1>14, <1>15, <1>16, <1>17, <1>18, Fold

\* The flag goes down: nobody else held it.
LEMMA LeavePreserves ==
  ASSUME Inv, NEW s \in Strands, Leave(s)
  PROVE  Inv'
<1> USE DEF Known, Distinct, Working, Strands
<1>1. Known /\ pc[s] = "leave"
  BY Unfold DEF Leave, Clear
<1> USE <1>1
<1>2. op[s] \in Fibers /\ alive[op[s]]
  BY IdlePoints, DestroyingPoints
     DEF StrandInv, Carried, TFlags, TFrame, TPoint, TThread
<1> USE <1>2
<1>3. /\ operating' = [operating EXCEPT ![op[s]] = FALSE]
      /\ pc' = [pc EXCEPT ![s] = "release"]
      /\ UNCHANGED <<alive, owned, count, state, suspendState, waitReason,
           exception, context, caller, op, target, result, previous, thread,
           current>>
  BY DEF Leave, Clear, Ident, status, life, handles, frames, carrier
<1>4. /\ \A r \in Fibers : operating'[r] <=> r # op[s] /\ operating[r]
      /\ \A r \in Strands : pc'[r] = IF r = s THEN "release" ELSE pc[r]
      /\ UNCHANGED <<alive, owned, count, state, suspendState, waitReason,
           exception, context, caller, op, target, result, previous, thread,
           current>>
  BY <1>3 DEF TPoint, TFlags
<1>5. (TPoint /\ TFlags)'
  BY <1>3, AllPoints DEF TPoint, TFlags
<1>6. StrandInv'
  BY <1>4, IdlePoints, DestroyingPoints
     DEF StrandInv, Carried, TPoint, TThread, TFlags, TFrame
<1>7. ThreadInv'
  BY <1>4, BlockedPoints DEF ThreadInv, Carried, TPoint, TThread
<1>8. IdentInv'
  BY <1>4, BlockedPoints, IdlePoints
     DEF IdentInv, Ident, Carried, TPoint, TThread, TCurrent
<1>9. (HolderInv /\ DestroyerInv)'
  BY <1>4, GuardedPoints, CallingPoints, DestroyingPoints
     DEF HolderInv, DestroyerInv, TPoint, TFlags
<1>10. (ResumerInv /\ StackInv /\ HandleInv)'
  BY <1>4, IdlePoints
     DEF ResumerInv, StackInv, Unwinding, HandleInv, TPoint, THandles, TFlags
<1>11. (PointInv /\ StateInv)'
  BY <1>4 DEF PointInv, StateInv, TPoint, TState, TFrame, THandles, TFlags
<1>12. (ResultInv /\ InstallInv /\ ExceptionKept)'
  BY <1>4, GuardedPoints
     DEF ResultInv, InstallInv, ExceptionKept, Holders, TPoint, TFrame, TState,
        TFlags
<1>13. /\ (TThread /\ TCurrent /\ THandles /\ TState /\ TFrame)'
       /\ (WaitReasonExact)'
  BY <1>3 DEF TThread, TCurrent, THandles, TState, TFrame, WaitReasonExact
<1>14. CountExact' /\ (count \in Nat)'
  BY <1>3 DEF Inv, TypeOK, CountExact
<1> QED
  BY <1>5, <1>6, <1>7, <1>8, <1>9, <1>10, <1>11, <1>12, <1>13, <1>14, Fold

\* keep_alive goes; the object dies only when it was the last owner.
LEMMA ReleasePreserves ==
  ASSUME Inv, NEW s \in Strands, Release(s)
  PROVE  Inv'
<1> USE DEF Known, Distinct, Working, Strands
<1>1. Known /\ pc[s] = "release"
  BY Unfold DEF Release, LastRef, Keepers, Dying
<1> USE <1>1
<1>2. op[s] \in Fibers /\ alive[op[s]]
  BY IdlePoints, DestroyingPoints
     DEF StrandInv, Carried, TFlags, TFrame, TPoint, TThread
<1> USE <1>2
<1>3. CASE LastRef(s, op[s])
  <2>1. /\ result' = [result EXCEPT ![s] = "NONE"]
        /\ pc' = [pc EXCEPT ![s] = "destroy"]
        /\ UNCHANGED <<alive, owned, count, state, suspendState, waitReason,
             operating, exception, context, caller, op, target, previous,
             thread, current>>
    BY <1>3
       DEF Release, LastRef, Keepers, Dying, Ident, status, life, handles,
          frames, carrier
  <2>2. /\ \A r \in Strands : result'[r] = IF r = s THEN "NONE" ELSE result[r]
        /\ \A r \in Strands : pc'[r] = IF r = s THEN "destroy" ELSE pc[r]
        /\ UNCHANGED <<alive, owned, count, state, suspendState, waitReason,
             operating, exception, context, caller, op, target, previous,
             thread, current>>
    BY <1>3, <2>1 DEF TPoint, TFrame
  <2>3. /\ ~owned[op[s]]
        /\ \A r \in Strands : pc[r] \in Calling /\ op[r] = op[s] => r = s
        /\ \A r \in Strands : pc[r] \in Destroying => op[r] # op[s]
    BY <1>3, CallingPoints, DestroyingPoints
       DEF LastRef, Keepers, Dying, TFlags, TPoint
  <2>4. op[s] # s
    BY <1>3, <2>3, CallingPoints, DestroyingPoints, IdlePoints
       DEF ResumerInv, StackInv, HandleInv, Unwinding, TFlags, THandles, TPoint
  <2>5. (TPoint /\ TFrame)'
    BY <1>3, <2>3, <2>4, <2>1, AllPoints DEF TPoint, TFrame, States
  <2>6. StrandInv'
    BY <1>3, <2>3, <2>4, <2>2, IdlePoints, DestroyingPoints
       DEF StrandInv, Carried, TPoint, TThread, TFlags, TFrame
  <2>7. ThreadInv'
    BY <1>3, <2>3, <2>4, <2>2, BlockedPoints
       DEF ThreadInv, Carried, TPoint, TThread
  <2>8. IdentInv'
    BY <1>3, <2>3, <2>4, <2>2, BlockedPoints, IdlePoints
       DEF IdentInv, Ident, Carried, TPoint, TThread, TCurrent
  <2>9. (HolderInv /\ DestroyerInv)'
    BY <1>3, <2>3, <2>4, <2>2, GuardedPoints, CallingPoints, DestroyingPoints
       DEF HolderInv, DestroyerInv, TPoint, TFlags
  <2>10. (ResumerInv /\ StackInv /\ HandleInv)'
    BY <1>3, <2>3, <2>4, <2>2, IdlePoints
       DEF ResumerInv, StackInv, Unwinding, HandleInv, TPoint, THandles, TFlags
  <2>11. (PointInv /\ StateInv)'
    BY <1>3, <2>3, <2>4, <2>2
       DEF PointInv, StateInv, TPoint, TState, TFrame, THandles, TFlags
  <2>12. (ResultInv /\ InstallInv /\ ExceptionKept)'
    BY <1>3, <2>3, <2>4, <2>2, GuardedPoints
       DEF ResultInv, InstallInv, ExceptionKept, Holders, TPoint, TFrame,
          TState, TFlags
  <2>13. /\ (TThread /\ TCurrent /\ TFlags /\ THandles /\ TState)'
         /\ (WaitReasonExact)'
    BY <2>1 DEF TThread, TCurrent, TFlags, THandles, TState, WaitReasonExact
  <2>14. CountExact' /\ (count \in Nat)'
    BY <2>1 DEF Inv, TypeOK, CountExact
  <2> QED
    BY <2>5, <2>6, <2>7, <2>8, <2>9, <2>10, <2>11, <2>12, <2>13, <2>14, Fold
<1>4. CASE ~LastRef(s, op[s])
  <2>1. /\ result' = [result EXCEPT ![s] = "NONE"]
        /\ pc' = [pc EXCEPT ![s] = "user"]
        /\ op' = [op EXCEPT ![s] = Nobody]
        /\ UNCHANGED <<alive, owned, count, state, suspendState, waitReason,
             operating, exception, context, caller, target, previous, thread,
             current>>
    BY <1>4
       DEF Release, LastRef, Keepers, Dying, Ident, status, life, handles,
          frames, carrier
  <2>2. /\ \A r \in Strands : result'[r] = IF r = s THEN "NONE" ELSE result[r]
        /\ \A r \in Strands : pc'[r] = IF r = s THEN "user" ELSE pc[r]
        /\ \A r \in Strands : op'[r] = IF r = s THEN Nobody ELSE op[r]
        /\ UNCHANGED <<alive, owned, count, state, suspendState, waitReason,
             operating, exception, context, caller, target, previous, thread,
             current>>
    BY <1>4, <2>1 DEF TPoint, TFrame
  <2>3. (TPoint /\ TFrame)'
    BY <1>4, <2>1, AllPoints DEF TPoint, TFrame, States
  <2>4. StrandInv'
    BY <1>4, <2>2, IdlePoints, DestroyingPoints
       DEF StrandInv, Carried, TPoint, TThread, TFlags, TFrame
  <2>5. ThreadInv'
    BY <1>4, <2>2, BlockedPoints DEF ThreadInv, Carried, TPoint, TThread
  <2>6. IdentInv'
    BY <1>4, <2>2, BlockedPoints, IdlePoints
       DEF IdentInv, Ident, Carried, TPoint, TThread, TCurrent
  <2>7. (HolderInv /\ DestroyerInv)'
    BY <1>4, <2>2, GuardedPoints, CallingPoints, DestroyingPoints
       DEF HolderInv, DestroyerInv, TPoint, TFlags
  <2>8. (ResumerInv /\ StackInv /\ HandleInv)'
    BY <1>4, <2>2, IdlePoints
       DEF ResumerInv, StackInv, Unwinding, HandleInv, TPoint, THandles, TFlags
  <2>9. (PointInv /\ StateInv)'
    BY <1>4, <2>2
       DEF PointInv, StateInv, TPoint, TState, TFrame, THandles, TFlags
  <2>10. (ResultInv /\ InstallInv /\ ExceptionKept)'
    BY <1>4, <2>2, GuardedPoints
       DEF ResultInv, InstallInv, ExceptionKept, Holders, TPoint, TFrame,
          TState, TFlags
  <2>11. /\ (TThread /\ TCurrent /\ TFlags /\ THandles /\ TState)'
         /\ (WaitReasonExact)'
    BY <2>1 DEF TThread, TCurrent, TFlags, THandles, TState, WaitReasonExact
  <2>12. CountExact' /\ (count \in Nat)'
    BY <2>1 DEF Inv, TypeOK, CountExact
  <2> QED
    BY <2>3, <2>4, <2>5, <2>6, <2>7, <2>8, <2>9, <2>10, <2>11, <2>12, Fold
<1> QED
  BY <1>3, <1>4 DEF Release, LastRef, Keepers, Dying

\* YieldToReady publishes READY under its caller's guard.
LEMMA YieldToReadyPreserves ==
  ASSUME Inv, NEW s \in Strands, YieldToReady(s)
  PROVE  Inv'
<1> USE DEF Known, Distinct, Working, Strands
<1>1. Known /\ pc[s] = "user"
  BY Unfold DEF YieldToReady, YieldPublish, Publish
<1> USE <1>1
<1>2. /\ s \in Fibers
      /\ thread[s] \in Threads
      /\ current[thread[s]] = s
      /\ op[s] = Nobody
  BY IdlePoints, DestroyingPoints, BlockedPoints
     DEF StrandInv, IdentInv, Ident, YieldToReady, YieldPublish, Publish,
        Carried, TCurrent, TFlags, TFrame, TPoint, TThread
<1>3. /\ alive[s]
      /\ ~exception[s]
      /\ state[s] = "EXEC"
      /\ caller[s] \in Strands \ {s}
      /\ pc[caller[s]] = "inside"
      /\ op[caller[s]] = s
  BY <1>2, IdlePoints
     DEF ResumerInv, StackInv, HandleInv, YieldToReady, YieldPublish, Publish,
        TFlags, THandles, TPoint, TState
<1>4. \A r \in Strands : pc[r] \in Guarded /\ op[r] = s => r = caller[s]
  BY <1>2, <1>3, GuardedPoints, CallingPoints, DestroyingPoints
     DEF HolderInv, DestroyerInv, TFlags, THandles, TPoint
<1>5. \A d \in Strands : pc[d] = "unwinding" => op[d] # s
  BY <1>2, <1>3, <1>4, IdlePoints DEF ResumerInv, TFlags, THandles, TPoint
<1> USE <1>2, <1>3, <1>4, <1>5
<1>6. /\ waitReason' = [waitReason EXCEPT ![s] = NoReason]
      /\ suspendState' = [suspendState EXCEPT ![s] = "READY"]
      /\ state' = [state EXCEPT ![s] = "READY"]
      /\ pc' = [pc EXCEPT ![s] = "switching"]
      /\ op' = [op EXCEPT ![s] = s]
      /\ target' = [target EXCEPT ![s] = "READY"]
      /\ UNCHANGED <<alive, owned, count, operating, exception, context,
           caller, result, previous, thread, current>>
  BY DEF YieldToReady, YieldPublish, Publish, Ident, status, life, handles,
      frames, carrier
<1>7. /\ \A r \in Fibers : waitReason'[r] = IF r = s THEN NoReason ELSE waitReason[r]
      /\ \A r \in Fibers : suspendState'[r] = IF r = s THEN "READY" ELSE suspendState[r]
      /\ \A r \in Fibers : state'[r] = IF r = s THEN "READY" ELSE state[r]
      /\ \A r \in Strands : pc'[r] = IF r = s THEN "switching" ELSE pc[r]
      /\ \A r \in Strands : op'[r] = IF r = s THEN s ELSE op[r]
      /\ \A r \in Strands : target'[r] = IF r = s THEN "READY" ELSE target[r]
      /\ UNCHANGED <<alive, owned, count, operating, exception, context,
           caller, result, previous, thread, current>>
  BY <1>6 DEF TPoint, TState, TFrame
<1>8. (TPoint /\ TState /\ TFrame)'
  BY <1>6, AllPoints DEF TPoint, TState, TFrame, States
<1>9. StrandInv'
  BY <1>7, IdlePoints, DestroyingPoints
     DEF StrandInv, Carried, TPoint, TThread, TFlags, TFrame
<1>10. ThreadInv'
  BY <1>7, BlockedPoints DEF ThreadInv, Carried, TPoint, TThread
<1>11. IdentInv'
  BY <1>7, BlockedPoints, IdlePoints
     DEF IdentInv, Ident, Carried, TPoint, TThread, TCurrent
<1>12. (HolderInv /\ DestroyerInv)'
  BY <1>7, GuardedPoints, CallingPoints, DestroyingPoints
     DEF HolderInv, DestroyerInv, TPoint, TFlags
<1>13. (ResumerInv /\ StackInv /\ HandleInv)'
  BY <1>7, IdlePoints
     DEF ResumerInv, StackInv, Unwinding, HandleInv, TPoint, THandles, TFlags
<1>14. PointInv'
  BY <1>7 DEF PointInv, TPoint, TState
<1>15. StateInv'
  BY <1>7 DEF StateInv, TPoint, TState, TFrame, THandles, TFlags
<1>16. (ResultInv /\ InstallInv /\ ExceptionKept /\ WaitReasonExact)'
  BY <1>7, GuardedPoints
     DEF ResultInv, InstallInv, ExceptionKept, Holders, WaitReasonExact,
        TPoint, TFrame, TState, TFlags
<1>17. (TThread /\ TCurrent /\ TFlags /\ THandles)'
  BY <1>6 DEF TThread, TCurrent, TFlags, THandles
<1>18. CountExact' /\ (count \in Nat)'
  BY <1>6 DEF Inv, TypeOK, CountExact
<1> QED
  BY <1>8, <1>9, <1>10, <1>11, <1>12, <1>13, <1>14, <1>15, <1>16, <1>17, <1>18,
    Fold

\* YieldToHold publishes WAITING and a reason under its caller's guard.
LEMMA YieldToHoldPreserves ==
  ASSUME Inv, NEW s \in Strands, YieldToHold(s)
  PROVE  Inv'
<1> USE DEF Known, Distinct, Working, Strands
<1>1. Known /\ pc[s] = "user"
  BY Unfold DEF YieldToHold, YieldPublish
<1> USE <1>1
<1>2. /\ s \in Fibers
      /\ thread[s] \in Threads
      /\ current[thread[s]] = s
      /\ op[s] = Nobody
  BY IdlePoints, DestroyingPoints, BlockedPoints
     DEF StrandInv, IdentInv, Ident, YieldToHold, YieldPublish, Publish,
        Carried, TCurrent, TFlags, TFrame, TPoint, TThread
<1>3. /\ alive[s]
      /\ ~exception[s]
      /\ state[s] = "EXEC"
      /\ caller[s] \in Strands \ {s}
      /\ pc[caller[s]] = "inside"
      /\ op[caller[s]] = s
  BY <1>2, IdlePoints
     DEF ResumerInv, StackInv, HandleInv, YieldToHold, YieldPublish, Publish,
        TFlags, THandles, TPoint, TState
<1>4. \A r \in Strands : pc[r] \in Guarded /\ op[r] = s => r = caller[s]
  BY <1>2, <1>3, GuardedPoints, CallingPoints, DestroyingPoints
     DEF HolderInv, DestroyerInv, TFlags, THandles, TPoint
<1>5. \A d \in Strands : pc[d] = "unwinding" => op[d] # s
  BY <1>2, <1>3, <1>4, IdlePoints DEF ResumerInv, TFlags, THandles, TPoint
<1> USE <1>2, <1>3, <1>4, <1>5
<1>6. PICK reason \in Reasons : YieldPublish(s, "WAITING", reason)
  BY DEF YieldToHold
<1>7. /\ waitReason' = [waitReason EXCEPT ![s] = reason]
      /\ suspendState' = [suspendState EXCEPT ![s] = "WAITING"]
      /\ state' = [state EXCEPT ![s] = "WAITING"]
      /\ pc' = [pc EXCEPT ![s] = "switching"]
      /\ op' = [op EXCEPT ![s] = s]
      /\ target' = [target EXCEPT ![s] = "WAITING"]
      /\ UNCHANGED <<alive, owned, count, operating, exception, context,
           caller, result, previous, thread, current>>
  BY <1>6
     DEF YieldPublish, Publish, Ident, status, life, handles, frames, carrier
<1>8. /\ \A r \in Fibers : waitReason'[r] = IF r = s THEN reason ELSE waitReason[r]
      /\ \A r \in Fibers : suspendState'[r] = IF r = s THEN "WAITING" ELSE suspendState[r]
      /\ \A r \in Fibers : state'[r] = IF r = s THEN "WAITING" ELSE state[r]
      /\ \A r \in Strands : pc'[r] = IF r = s THEN "switching" ELSE pc[r]
      /\ \A r \in Strands : op'[r] = IF r = s THEN s ELSE op[r]
      /\ \A r \in Strands : target'[r] = IF r = s THEN "WAITING" ELSE target[r]
      /\ UNCHANGED <<alive, owned, count, operating, exception, context,
           caller, result, previous, thread, current>>
  BY <1>6, <1>7 DEF TPoint, TState, TFrame
<1>9. reason # NoReason
  BY ReasonAssumption
<1>10. (TPoint /\ TState /\ TFrame)'
  BY <1>6, <1>9, <1>7, AllPoints DEF TPoint, TState, TFrame, States
<1>11. StrandInv'
  BY <1>6, <1>9, <1>8, IdlePoints, DestroyingPoints
     DEF StrandInv, Carried, TPoint, TThread, TFlags, TFrame
<1>12. ThreadInv'
  BY <1>6, <1>9, <1>8, BlockedPoints DEF ThreadInv, Carried, TPoint, TThread
<1>13. IdentInv'
  BY <1>6, <1>9, <1>8, BlockedPoints, IdlePoints
     DEF IdentInv, Ident, Carried, TPoint, TThread, TCurrent
<1>14. HolderInv'
  BY <1>6, <1>9, <1>8, GuardedPoints DEF HolderInv, TPoint, TFlags
<1>15. DestroyerInv'
  BY <1>6, <1>9, <1>8, CallingPoints, DestroyingPoints
     DEF DestroyerInv, TPoint, TFlags
<1>16. (ResumerInv /\ StackInv /\ HandleInv)'
  BY <1>6, <1>9, <1>8, IdlePoints
     DEF ResumerInv, StackInv, Unwinding, HandleInv, TPoint, THandles, TFlags
<1>17. PointInv'
  BY <1>6, <1>9, <1>8 DEF PointInv, TPoint, TState
<1>18. StateInv'
  BY <1>6, <1>9, <1>8, SMTT(60) DEF StateInv, TPoint, TState, TFrame, THandles, TFlags
<1>19. (ResultInv /\ InstallInv /\ ExceptionKept /\ WaitReasonExact)'
  BY <1>6, <1>9, <1>8, GuardedPoints
     DEF ResultInv, InstallInv, ExceptionKept, Holders, WaitReasonExact,
        TPoint, TFrame, TState, TFlags
<1>20. (TThread /\ TCurrent /\ TFlags /\ THandles)'
  BY <1>7 DEF TThread, TCurrent, TFlags, THandles
<1>21. CountExact' /\ (count \in Nat)'
  BY <1>7 DEF Inv, TypeOK, CountExact
<1> QED
  BY <1>10, <1>11, <1>12, <1>13, <1>14, <1>15, <1>16, <1>17, <1>18, <1>19,
    <1>20, <1>21, Fold

\* The jump out of a yield lands in the resume that waits for it.
LEMMA YieldSwitchPreserves ==
  ASSUME Inv, NEW s \in Strands, YieldSwitch(s)
  PROVE  Inv'
<1> USE DEF Known, Distinct, Working, Strands
<1>1. Known /\ pc[s] = "switching"
  BY Unfold DEF YieldSwitch, JumpToCaller, Keep, Handle
<1> USE <1>1
<1>2. /\ s \in Fibers
      /\ op[s] = s
      /\ alive[s]
  BY IdlePoints, DestroyingPoints
     DEF StrandInv, Carried, TFlags, TFrame, TPoint, TThread
<1>3. \A d \in Strands : pc[d] = "unwinding" => op[d] # s
  BY <1>2 DEF PointInv, StateInv, TFlags, TFrame, THandles, TPoint, TState
<1>4. /\ caller[s] \in Strands \ {s}
      /\ pc[caller[s]] = "inside"
      /\ op[caller[s]] = s
  BY <1>2, <1>3, IdlePoints
     DEF ResumerInv, StackInv, HandleInv, Unwinding, TFlags, THandles, TPoint
<1>5. /\ thread[s] \in Threads
      /\ thread[caller[s]] = thread[s]
      /\ current[thread[s]] = s
      /\ previous[caller[s]] = Ident(caller[s])
  BY <1>2, <1>3, <1>4, IdlePoints, DestroyingPoints, BlockedPoints
     DEF StrandInv, ThreadInv, IdentInv, Ident, Carried, TCurrent, TFlags,
        TFrame, THandles, TPoint, TThread
<1>6. \A r \in Strands : pc[r] \in {"check", "enter", "inside", "landed", "verify",
                               "rebuild", "install", "publish", "leave"}
         /\ op[r] = s => r = caller[s]
  BY <1>2, <1>3, <1>4, <1>5, GuardedPoints
     DEF HolderInv, TFlags, THandles, TPoint
<1>7. \A r \in Strands : pc[r] \notin Blocked /\ thread[r] = thread[s] => r = s
  BY <1>2, <1>3, <1>4, <1>5, <1>6, BlockedPoints DEF ThreadInv, TPoint, TThread
<1>8. state[s] # "EXEC"
  BY <1>2, <1>3, <1>4, <1>5, <1>6, <1>7
     DEF StateInv, TFlags, TFrame, THandles, TPoint, TState
<1> USE <1>2, <1>3, <1>4, <1>5, <1>6, <1>7, <1>8
<1>9. /\ caller' = [caller EXCEPT ![s] = Nobody]
      /\ context' = [context EXCEPT ![s] = s]
      /\ pc' = [pc EXCEPT ![s] = "suspended", ![caller[s]] = "landed"]
      /\ thread' = [thread EXCEPT ![s] = Nobody, ![caller[s]] = thread[s]]
      /\ UNCHANGED <<alive, owned, count, state, suspendState, waitReason,
           operating, exception, op, target, result, previous, current>>
  BY DEF YieldSwitch, JumpToCaller, Keep, Handle, Ident, status, life, handles,
      frames, carrier
<1>10. /\ \A r \in Fibers : caller'[r] = IF r = s THEN Nobody ELSE caller[r]
       /\ \A r \in Fibers : context'[r] = IF r = s THEN s ELSE context[r]
       /\ \A r \in Strands : pc'[r] = IF r = s THEN "suspended"
                                      ELSE IF r = caller[s] THEN "landed" ELSE pc[r]
       /\ \A r \in Strands : thread'[r] = IF r = s THEN Nobody
                                          ELSE IF r = caller[s] THEN thread[s] ELSE thread[r]
       /\ UNCHANGED <<alive, owned, count, state, suspendState, waitReason,
            operating, exception, op, target, result, previous, current>>
  BY <1>9 DEF TPoint, TThread, THandles
<1>11. (TPoint /\ TThread /\ THandles)'
  BY <1>9, AllPoints DEF TPoint, TThread, THandles
<1>12. StrandInv'
  BY <1>10, IdlePoints, DestroyingPoints
     DEF StrandInv, Carried, TPoint, TThread, TFlags, TFrame
<1>13. ThreadInv'
  BY <1>10, BlockedPoints DEF ThreadInv, Carried, TPoint, TThread
<1>14. IdentInv'
  BY <1>10, BlockedPoints, IdlePoints
     DEF IdentInv, Ident, Carried, TPoint, TThread, TCurrent
<1>15. HolderInv'
  BY <1>10, GuardedPoints DEF HolderInv, TPoint, TFlags
<1>16. DestroyerInv'
  BY <1>10, CallingPoints, DestroyingPoints DEF DestroyerInv, TPoint, TFlags
<1>17. (ResumerInv /\ StackInv /\ HandleInv)'
  BY <1>10, IdlePoints
     DEF ResumerInv, StackInv, Unwinding, HandleInv, TPoint, THandles, TFlags
<1>18. PointInv'
  BY <1>10 DEF PointInv, TPoint, TState
<1>19. StateInv'
  BY <1>10, SMTT(30) DEF StateInv, TPoint, TState, TFrame, THandles, TFlags
<1>20. (ResultInv /\ InstallInv /\ ExceptionKept)'
  BY <1>10, GuardedPoints, SMTT(60)
     DEF ResultInv, InstallInv, ExceptionKept, Holders, TPoint, TFrame, TState,
        TFlags
<1>21. (TCurrent /\ TFlags /\ TState /\ TFrame /\ WaitReasonExact)'
  BY <1>9 DEF TCurrent, TFlags, TState, TFrame, WaitReasonExact
<1>22. CountExact' /\ (count \in Nat)'
  BY <1>9 DEF Inv, TypeOK, CountExact
<1> QED
  BY <1>11, <1>12, <1>13, <1>14, <1>15, <1>16, <1>17, <1>18, <1>19, <1>20,
    <1>21, <1>22, Fold

\* The last jump of a stack lands in the resume that waits for it.
LEMMA ExitSwitchPreserves ==
  ASSUME Inv, NEW x \in Fibers, ExitSwitch(x)
  PROVE  Inv'
<1> USE DEF Known, Distinct, Working, Strands
<1>1. Known /\ pc[x] = "exiting" /\ x \in Strands
  BY Unfold DEF ExitSwitch, JumpToCaller, Keep
<1> USE <1>1
<1>2. op[x] = Nobody /\ alive[x]
  BY IdlePoints, DestroyingPoints
     DEF StrandInv, ResumerInv, StackInv, HandleInv, Carried, TFlags, TFrame,
        THandles, TPoint, TThread
<1>3. \A d \in Strands : pc[d] = "unwinding" => op[d] # x
  BY <1>2 DEF PointInv, StateInv, TFlags, TFrame, THandles, TPoint, TState
<1>4. /\ caller[x] \in Strands \ {x}
      /\ pc[caller[x]] = "inside"
      /\ op[caller[x]] = x
  BY <1>2, <1>3, IdlePoints
     DEF ResumerInv, StackInv, HandleInv, Unwinding, TFlags, THandles, TPoint
<1>5. /\ thread[x] \in Threads
      /\ thread[caller[x]] = thread[x]
      /\ current[thread[x]] = x
      /\ previous[caller[x]] = Ident(caller[x])
  BY <1>2, <1>3, <1>4, IdlePoints, DestroyingPoints, BlockedPoints
     DEF StrandInv, ThreadInv, IdentInv, Ident, Carried, TCurrent, TFlags,
        TFrame, THandles, TPoint, TThread
<1>6. \A r \in Strands : pc[r] \in {"check", "enter", "inside", "landed", "verify",
                               "rebuild", "install", "publish", "leave"}
         /\ op[r] = x => r = caller[x]
  BY <1>2, <1>3, <1>4, <1>5, GuardedPoints
     DEF HolderInv, TFlags, THandles, TPoint
<1>7. \A r \in Strands : pc[r] \notin Blocked /\ thread[r] = thread[x] => r = x
  BY <1>2, <1>3, <1>4, <1>5, <1>6, BlockedPoints DEF ThreadInv, TPoint, TThread
<1>8. state[x] # "EXEC"
  BY <1>2, <1>3, <1>4, <1>5, <1>6, <1>7
     DEF StateInv, TFlags, TFrame, THandles, TPoint, TState
<1> USE <1>2, <1>3, <1>4, <1>5, <1>6, <1>7, <1>8
<1>9. /\ caller' = [caller EXCEPT ![x] = Nobody]
      /\ context' = [context EXCEPT ![x] = Nobody]
      /\ pc' = [pc EXCEPT ![x] = "gone", ![caller[x]] = "landed"]
      /\ thread' = [thread EXCEPT ![x] = Nobody, ![caller[x]] = thread[x]]
      /\ UNCHANGED <<alive, owned, count, state, suspendState, waitReason,
           operating, exception, op, target, result, previous, current>>
  BY DEF ExitSwitch, JumpToCaller, Keep, Ident, status, life, handles, frames,
      carrier
<1>10. /\ \A r \in Fibers : caller'[r] = IF r = x THEN Nobody ELSE caller[r]
       /\ \A r \in Fibers : context'[r] = IF r = x THEN Nobody ELSE context[r]
       /\ \A r \in Strands : pc'[r] = IF r = x THEN "gone"
                                      ELSE IF r = caller[x] THEN "landed" ELSE pc[r]
       /\ \A r \in Strands : thread'[r] = IF r = x THEN Nobody
                                          ELSE IF r = caller[x] THEN thread[x] ELSE thread[r]
       /\ UNCHANGED <<alive, owned, count, state, suspendState, waitReason,
            operating, exception, op, target, result, previous, current>>
  BY <1>9 DEF TPoint, TThread, THandles
<1>11. (TPoint /\ TThread /\ THandles)'
  BY <1>9, AllPoints DEF TPoint, TThread, THandles
<1>12. StrandInv'
  BY <1>10, IdlePoints, DestroyingPoints
     DEF StrandInv, Carried, TPoint, TThread, TFlags, TFrame
<1>13. ThreadInv'
  BY <1>10, BlockedPoints DEF ThreadInv, Carried, TPoint, TThread
<1>14. IdentInv'
  BY <1>10, BlockedPoints, IdlePoints
     DEF IdentInv, Ident, Carried, TPoint, TThread, TCurrent
<1>15. (HolderInv /\ DestroyerInv)'
  BY <1>10, GuardedPoints, CallingPoints, DestroyingPoints
     DEF HolderInv, DestroyerInv, TPoint, TFlags
<1>16. (ResumerInv /\ StackInv /\ HandleInv)'
  BY <1>10, IdlePoints
     DEF ResumerInv, StackInv, Unwinding, HandleInv, TPoint, THandles, TFlags
<1>17. (PointInv /\ StateInv)'
  BY <1>10, SMTT(60) DEF PointInv, StateInv, TPoint, TState, TFrame, THandles, TFlags
<1>18. ResultInv'
  BY <1>10 DEF ResultInv, TPoint, TFrame, TState
<1>19. InstallInv'
  BY <1>10 DEF InstallInv, TPoint, TState
<1>20. ExceptionKept'
  BY <1>10, GuardedPoints DEF ExceptionKept, Holders, TPoint, TState, TFlags
<1>21. (TCurrent /\ TFlags /\ TState /\ TFrame /\ WaitReasonExact)'
  BY <1>9 DEF TCurrent, TFlags, TState, TFrame, WaitReasonExact
<1>22. CountExact' /\ (count \in Nat)'
  BY <1>9 DEF Inv, TypeOK, CountExact
<1> QED
  BY <1>11, <1>12, <1>13, <1>14, <1>15, <1>16, <1>17, <1>18, <1>19, <1>20,
    <1>21, <1>22, Fold

\* run publishes TERM under its caller's guard.
LEMMA FinishTermPreserves ==
  ASSUME Inv, NEW x \in Fibers, FinishTerm(x)
  PROVE  Inv'
<1> USE DEF Known, Distinct, Working, Strands
<1>1. Known /\ pc[x] = "user" /\ x \in Strands
  BY Unfold DEF FinishTerm, Finish, Publish, Unwinding
<1> USE <1>1
<1>2. /\ alive[x]
      /\ op[x] = Nobody
  BY IdlePoints, DestroyingPoints
     DEF ResumerInv, StackInv, HandleInv, StrandInv, Carried, TFlags, TFrame,
        THandles, TPoint, TThread
<1>3. ~exception[x]
  BY <1>2 DEF FinishTerm, Finish, Publish, Unwinding, TPoint, TState
<1>4. \A d \in Strands : pc[d] = "unwinding" => op[d] # x
  BY <1>2, <1>3 DEF Unwinding, FinishTerm, Finish, Publish, TPoint
<1>5. /\ caller[x] \in Strands \ {x}
      /\ pc[caller[x]] = "inside"
      /\ op[caller[x]] = x
      /\ state[x] = "EXEC"
  BY <1>2, <1>3, <1>4, IdlePoints
     DEF ResumerInv, StackInv, HandleInv, PointInv, StateInv, Unwinding,
        TFlags, TFrame, THandles, TPoint, TState
<1>6. \A r \in Strands : pc[r] \in Guarded /\ op[r] = x => r = caller[x]
  BY <1>2, <1>3, <1>4, <1>5, GuardedPoints, CallingPoints, DestroyingPoints
     DEF HolderInv, DestroyerInv, TFlags, THandles, TPoint
<1> USE <1>2, <1>3, <1>4, <1>5, <1>6
<1>7. /\ waitReason' = [waitReason EXCEPT ![x] = NoReason]
      /\ suspendState' = [suspendState EXCEPT ![x] = "TERM"]
      /\ state' = [state EXCEPT ![x] = "TERM"]
      /\ pc' = [pc EXCEPT ![x] = "exiting"]
      /\ UNCHANGED <<alive, owned, count, operating, exception, context,
           caller, op, target, result, previous, thread, current>>
  BY DEF FinishTerm, Finish, Publish, Unwinding, Ident, status, life, handles,
      frames, carrier
<1>8. /\ \A r \in Fibers : waitReason'[r] = IF r = x THEN NoReason ELSE waitReason[r]
      /\ \A r \in Fibers : suspendState'[r] = IF r = x THEN "TERM" ELSE suspendState[r]
      /\ \A r \in Fibers : state'[r] = IF r = x THEN "TERM" ELSE state[r]
      /\ \A r \in Strands : pc'[r] = IF r = x THEN "exiting" ELSE pc[r]
      /\ UNCHANGED <<alive, owned, count, operating, exception, context,
           caller, op, target, result, previous, thread, current>>
  BY <1>7 DEF TPoint, TState
<1>9. (TPoint /\ TState)'
  BY <1>7, AllPoints DEF TPoint, TState, States
<1>10. StrandInv'
  BY <1>8, IdlePoints, DestroyingPoints
     DEF StrandInv, Carried, TPoint, TThread, TFlags, TFrame
<1>11. ThreadInv'
  BY <1>8, BlockedPoints DEF ThreadInv, Carried, TPoint, TThread
<1>12. IdentInv'
  BY <1>8, BlockedPoints, IdlePoints
     DEF IdentInv, Ident, Carried, TPoint, TThread, TCurrent
<1>13. (HolderInv /\ DestroyerInv)'
  BY <1>8, GuardedPoints, CallingPoints, DestroyingPoints
     DEF HolderInv, DestroyerInv, TPoint, TFlags
<1>14. (ResumerInv /\ StackInv /\ HandleInv)'
  BY <1>8, IdlePoints
     DEF ResumerInv, StackInv, Unwinding, HandleInv, TPoint, THandles, TFlags
<1>15. PointInv'
  BY <1>8 DEF PointInv, TPoint, TState
<1>16. StateInv'
  BY <1>8 DEF StateInv, TPoint, TState, TFrame, THandles, TFlags
<1>17. (ResultInv /\ InstallInv /\ ExceptionKept /\ WaitReasonExact)'
  BY <1>8, GuardedPoints
     DEF ResultInv, InstallInv, ExceptionKept, Holders, WaitReasonExact,
        TPoint, TFrame, TState, TFlags
<1>18. (TThread /\ TCurrent /\ TFlags /\ THandles /\ TFrame)'
  BY <1>7 DEF TThread, TCurrent, TFlags, THandles, TFrame
<1>19. CountExact' /\ (count \in Nat)'
  BY <1>7 DEF Inv, TypeOK, CountExact
<1> QED
  BY <1>9, <1>10, <1>11, <1>12, <1>13, <1>14, <1>15, <1>16, <1>17, <1>18,
    <1>19, Fold

\* run stores the exception while EXEC is still published.
LEMMA FinishThrowPreserves ==
  ASSUME Inv, NEW x \in Fibers, FinishThrow(x)
  PROVE  Inv'
<1> USE DEF Known, Distinct, Working, Strands
<1>1. Known /\ pc[x] = "user" /\ x \in Strands
  BY Unfold DEF FinishThrow, Unwinding
<1> USE <1>1
<1>2. alive[x]
  BY IdlePoints DEF ResumerInv, StackInv, HandleInv, TFlags, THandles, TPoint
<1>3. \A d \in Strands : pc[d] = "unwinding" => op[d] # x
  BY <1>2 DEF Unwinding, FinishThrow, TPoint
<1>4. state[x] = "EXEC"
  BY <1>2, <1>3, IdlePoints
     DEF ResumerInv, StackInv, HandleInv, PointInv, StateInv, Unwinding,
        TFlags, TFrame, THandles, TPoint, TState
<1>5. \A r \in Strands : pc[r] \in {"install", "publish"} => op[r] # x
  BY <1>1 DEF PointInv, TPoint
<1> USE <1>2, <1>3, <1>4, <1>5
<1>6. /\ exception' = [exception EXCEPT ![x] = TRUE]
      /\ UNCHANGED <<alive, owned, count, state, suspendState, waitReason,
           operating, context, caller, pc, op, target, result, previous,
           thread, current>>
  BY DEF FinishThrow, Unwinding, Ident, status, life, handles, frames, carrier
<1>7. /\ \A r \in Fibers : exception'[r] <=> r = x \/ exception[r]
      /\ UNCHANGED <<alive, owned, count, state, suspendState, waitReason,
           operating, context, caller, pc, op, target, result, previous,
           thread, current>>
  BY <1>6 DEF TState
<1>8. TState'
  BY <1>6 DEF TState, States
<1>9. (InstallInv /\ ExceptionKept)'
  BY <1>7, GuardedPoints, SMTT(60)
     DEF InstallInv, ExceptionKept, Holders, TPoint, TState, TFlags
<1>10. /\ (TPoint /\ TThread /\ TCurrent /\ TFlags /\ THandles)'
       /\ (TFrame /\ StrandInv /\ ThreadInv /\ IdentInv /\ HolderInv)'
       /\ (DestroyerInv /\ ResumerInv /\ StackInv /\ HandleInv /\ PointInv)'
       /\ (StateInv /\ ResultInv /\ WaitReasonExact)'
  BY <1>6
     DEF TPoint, TThread, TCurrent, TFlags, THandles, TFrame, StrandInv,
        ThreadInv, IdentInv, Ident, HolderInv, DestroyerInv, ResumerInv,
        StackInv, Unwinding, HandleInv, PointInv, StateInv, ResultInv,
        WaitReasonExact
<1>11. CountExact' /\ (count \in Nat)'
  BY <1>6 DEF Inv, TypeOK, CountExact
<1> QED
  BY <1>8, <1>9, <1>10, <1>11, Fold

\* run publishes EXCEPT after the exception is stored.
LEMMA FinishExceptPreserves ==
  ASSUME Inv, NEW x \in Fibers, FinishExcept(x)
  PROVE  Inv'
<1> USE DEF Known, Distinct, Working, Strands
<1>1. Known /\ pc[x] = "user" /\ x \in Strands
  BY Unfold DEF FinishExcept, Finish, Publish, Unwinding, Stored
<1> USE <1>1
<1>2. /\ alive[x]
      /\ op[x] = Nobody
  BY IdlePoints, DestroyingPoints
     DEF ResumerInv, StackInv, HandleInv, StrandInv, Carried, TFlags, TFrame,
        THandles, TPoint, TThread
<1>3. exception[x]
  BY <1>2 DEF FinishExcept, Finish, Publish, Unwinding, Stored, TPoint, TState
<1>4. \A d \in Strands : pc[d] = "unwinding" => op[d] # x
  BY <1>2, <1>3 DEF Unwinding, FinishExcept, Finish, Publish, Stored, TPoint
<1>5. /\ caller[x] \in Strands \ {x}
      /\ pc[caller[x]] = "inside"
      /\ op[caller[x]] = x
      /\ state[x] = "EXEC"
  BY <1>2, <1>3, <1>4, IdlePoints
     DEF ResumerInv, StackInv, HandleInv, PointInv, StateInv, Unwinding,
        TFlags, TFrame, THandles, TPoint, TState
<1>6. \A r \in Strands : pc[r] \in Guarded /\ op[r] = x => r = caller[x]
  BY <1>2, <1>3, <1>4, <1>5, GuardedPoints, CallingPoints, DestroyingPoints
     DEF HolderInv, DestroyerInv, TFlags, THandles, TPoint
<1> USE <1>2, <1>3, <1>4, <1>5, <1>6
<1>7. /\ waitReason' = [waitReason EXCEPT ![x] = NoReason]
      /\ suspendState' = [suspendState EXCEPT ![x] = "EXCEPT"]
      /\ state' = [state EXCEPT ![x] = "EXCEPT"]
      /\ pc' = [pc EXCEPT ![x] = "exiting"]
      /\ UNCHANGED <<alive, owned, count, operating, exception, context,
           caller, op, target, result, previous, thread, current>>
  BY DEF FinishExcept, Finish, Publish, Unwinding, Stored, Ident, status, life,
      handles, frames, carrier
<1>8. /\ \A r \in Fibers : waitReason'[r] = IF r = x THEN NoReason ELSE waitReason[r]
      /\ \A r \in Fibers : suspendState'[r] = IF r = x THEN "EXCEPT" ELSE suspendState[r]
      /\ \A r \in Fibers : state'[r] = IF r = x THEN "EXCEPT" ELSE state[r]
      /\ \A r \in Strands : pc'[r] = IF r = x THEN "exiting" ELSE pc[r]
      /\ UNCHANGED <<alive, owned, count, operating, exception, context,
           caller, op, target, result, previous, thread, current>>
  BY <1>7 DEF TPoint, TState
<1>9. (TPoint /\ TState)'
  BY <1>7, AllPoints DEF TPoint, TState, States
<1>10. StrandInv'
  BY <1>8, IdlePoints, DestroyingPoints
     DEF StrandInv, Carried, TPoint, TThread, TFlags, TFrame
<1>11. ThreadInv'
  BY <1>8, BlockedPoints DEF ThreadInv, Carried, TPoint, TThread
<1>12. IdentInv'
  BY <1>8, BlockedPoints, IdlePoints
     DEF IdentInv, Ident, Carried, TPoint, TThread, TCurrent
<1>13. (HolderInv /\ DestroyerInv)'
  BY <1>8, GuardedPoints, CallingPoints, DestroyingPoints
     DEF HolderInv, DestroyerInv, TPoint, TFlags
<1>14. (ResumerInv /\ StackInv /\ HandleInv)'
  BY <1>8, IdlePoints
     DEF ResumerInv, StackInv, Unwinding, HandleInv, TPoint, THandles, TFlags
<1>15. (PointInv /\ StateInv)'
  BY <1>8 DEF PointInv, StateInv, TPoint, TState, TFrame, THandles, TFlags
<1>16. (ResultInv /\ InstallInv /\ ExceptionKept /\ WaitReasonExact)'
  BY <1>8, GuardedPoints
     DEF ResultInv, InstallInv, ExceptionKept, Holders, WaitReasonExact,
        TPoint, TFrame, TState, TFlags
<1>17. (TThread /\ TCurrent /\ TFlags /\ THandles /\ TFrame)'
  BY <1>7 DEF TThread, TCurrent, TFlags, THandles, TFrame
<1>18. CountExact' /\ (count \in Nat)'
  BY <1>7 DEF Inv, TypeOK, CountExact
<1> QED
  BY <1>9, <1>10, <1>11, <1>12, <1>13, <1>14, <1>15, <1>16, <1>17, <1>18, Fold

\* wake turns WAITING into READY wherever the stack has got to.
LEMMA WakePreserves ==
  ASSUME Inv, NEW s \in Strands, NEW f \in Fibers, Wake(s, f)
  PROVE  Inv'
<1> USE DEF Known, Distinct, Working, Strands
<1>1. Known /\ pc[s] = "user"
  BY Unfold DEF Wake, UserCall, ReasonCleared
<1> USE <1>1
<1>2. /\ alive[f]
      /\ state[f] = "WAITING"
      /\ ~exception[f]
  BY GuardedPoints
     DEF ExceptionKept, UserCall, Wake, ReasonCleared, TFlags, TPoint, TState
<1>3. pc[f] = "gone" => \E d \in Strands : pc[d] = "destroyed" /\ op[d] = f
  BY <1>2 DEF StateInv, TFlags, TFrame, THandles, TPoint, TState
<1>4. \A r \in Strands : pc[r] = "leave" /\ op[r] = f => pc[f] # "gone"
  BY <1>2, <1>3, CallingPoints, DestroyingPoints
     DEF DestroyerInv, TFlags, TPoint
<1> USE <1>2, <1>3, <1>4
<1>5. /\ waitReason' = [waitReason EXCEPT ![f] = NoReason]
      /\ state' = [state EXCEPT ![f] = "READY"]
      /\ UNCHANGED <<alive, owned, count, suspendState, operating, exception,
           context, caller, pc, op, target, result, previous, thread, current>>
  BY DEF Wake, UserCall, ReasonCleared, Ident, status, life, handles, frames,
      carrier
<1>6. /\ \A r \in Fibers : waitReason'[r] = IF r = f THEN NoReason ELSE waitReason[r]
      /\ \A r \in Fibers : state'[r] = IF r = f THEN "READY" ELSE state[r]
      /\ UNCHANGED <<alive, owned, count, suspendState, operating, exception,
           context, caller, pc, op, target, result, previous, thread, current>>
  BY <1>5 DEF TState
<1>7. TState'
  BY <1>5 DEF TState, States
<1>8. (PointInv /\ StateInv)'
  BY <1>6 DEF PointInv, StateInv, TPoint, TState, TFrame, THandles, TFlags
<1>9. (ResultInv /\ ExceptionKept /\ WaitReasonExact)'
  BY <1>6, GuardedPoints
     DEF ResultInv, ExceptionKept, Holders, WaitReasonExact, TPoint, TFrame,
        TState, TFlags
<1>10. /\ (TPoint /\ TThread /\ TCurrent /\ TFlags /\ THandles)'
       /\ (TFrame /\ StrandInv /\ ThreadInv /\ IdentInv /\ HolderInv)'
       /\ (DestroyerInv /\ ResumerInv /\ StackInv /\ HandleInv /\ InstallInv)'
  BY <1>5
     DEF TPoint, TThread, TCurrent, TFlags, THandles, TFrame, StrandInv,
        ThreadInv, IdentInv, Ident, HolderInv, DestroyerInv, ResumerInv,
        StackInv, Unwinding, HandleInv, InstallInv
<1>11. CountExact' /\ (count \in Nat)'
  BY <1>5 DEF Inv, TypeOK, CountExact
<1> QED
  BY <1>7, <1>8, <1>9, <1>10, <1>11, Fold

\* OperationGuard of reset, likewise.
LEMMA ResetEnterPreserves ==
  ASSUME Inv, NEW s \in Strands, NEW f \in Fibers, ResetEnter(s, f)
  PROVE  Inv'
<1> USE DEF Known, Distinct, Working, Strands
<1>1. Known /\ pc[s] = "user"
  BY Unfold DEF ResetEnter, Enter, UserCall, Admitted
<1> USE <1>1
<1>2. /\ alive[f]
      /\ thread[s] \in Threads
      /\ op[s] = Nobody
      /\ current[thread[s]] = Ident(s)
  BY IdlePoints, DestroyingPoints, BlockedPoints
     DEF UserCall, StrandInv, IdentInv, ResetEnter, Enter, Admitted, Carried,
        TCurrent, TFlags, TFrame, TPoint, TThread
<1>3. \A d \in Strands : pc[d] = "destroy" => op[d] # f
  BY <1>2, CallingPoints, DestroyingPoints, IdlePoints
     DEF DestroyerInv, ResumerInv, StackInv, HandleInv, Unwinding, UserCall,
        ResetEnter, Enter, Admitted, TFlags, THandles, TPoint
<1>4. \A d \in Strands : pc[d] = "destroyed" => op[d] # f
  BY <1>2, <1>3, CallingPoints, DestroyingPoints
     DEF DestroyerInv, PointInv, UserCall, ResetEnter, Enter, Admitted, TFlags,
        TPoint, TState
<1>5. \A d \in Strands : pc[d] = "unwinding" /\ op[d] = f => s = f
  BY <1>2, <1>3, <1>4, CallingPoints, DestroyingPoints
     DEF DestroyerInv, UserCall, ResetEnter, Enter, Admitted, TFlags, TPoint
<1>6. \A d \in Strands : pc[d] \in Destroying /\ op[d] = f => s = f /\ pc[d] = "unwinding"
  BY <1>2, <1>3, <1>4, <1>5, DestroyingPoints DEF Destroying, TPoint
<1> USE <1>2, <1>3, <1>4, <1>5, <1>6
<1>7. CASE operating[f]
  <2>1. /\ op' = [op EXCEPT ![s] = f]
        /\ pc' = [pc EXCEPT ![s] = "release"]
        /\ operating' = [operating EXCEPT ![f] = TRUE]
        /\ UNCHANGED <<alive, owned, count, state, suspendState, waitReason,
             exception, context, caller, target, result, previous, thread,
             current>>
    BY <1>7
       DEF ResetEnter, Enter, UserCall, Admitted, Ident, status, life, handles,
          frames, carrier
  <2>2. /\ \A r \in Strands : op'[r] = IF r = s THEN f ELSE op[r]
        /\ \A r \in Strands : pc'[r] = IF r = s THEN "release" ELSE pc[r]
        /\ \A r \in Fibers : operating'[r] <=> r = f \/ operating[r]
        /\ UNCHANGED <<alive, owned, count, state, suspendState, waitReason,
             exception, context, caller, target, result, previous, thread,
             current>>
    BY <1>7, <2>1 DEF TPoint, TFlags
  <2>3. (TPoint /\ TFlags)'
    BY <1>7, <2>1, AllPoints DEF TPoint, TFlags
  <2>4. StrandInv'
    BY <1>7, <2>2, IdlePoints, DestroyingPoints
       DEF StrandInv, Carried, TPoint, TThread, TFlags, TFrame
  <2>5. ThreadInv'
    BY <1>7, <2>2, BlockedPoints DEF ThreadInv, Carried, TPoint, TThread
  <2>6. IdentInv'
    BY <1>7, <2>2, BlockedPoints, IdlePoints
       DEF IdentInv, Ident, Carried, TPoint, TThread, TCurrent
  <2>7. (HolderInv /\ DestroyerInv)'
    BY <1>7, <2>2, GuardedPoints, CallingPoints, DestroyingPoints
       DEF HolderInv, DestroyerInv, TPoint, TFlags
  <2>8. (ResumerInv /\ StackInv /\ HandleInv)'
    BY <1>7, <2>2, IdlePoints
       DEF ResumerInv, StackInv, Unwinding, HandleInv, TPoint, THandles, TFlags
  <2>9. PointInv'
    BY <1>7, <2>2 DEF PointInv, TPoint, TState
  <2>10. StateInv'
    BY <1>7, <2>2 DEF StateInv, TPoint, TState, TFrame, THandles, TFlags
  <2>11. (ResultInv /\ InstallInv /\ ExceptionKept)'
    BY <1>7, <2>2, GuardedPoints
       DEF ResultInv, InstallInv, ExceptionKept, Holders, TPoint, TFrame,
          TState, TFlags
  <2>12. /\ (TThread /\ TCurrent /\ THandles /\ TState /\ TFrame)'
         /\ (WaitReasonExact)'
    BY <2>1 DEF TThread, TCurrent, THandles, TState, TFrame, WaitReasonExact
  <2>13. CountExact' /\ (count \in Nat)'
    BY <2>1 DEF Inv, TypeOK, CountExact
  <2> QED
    BY <2>3, <2>4, <2>5, <2>6, <2>7, <2>8, <2>9, <2>10, <2>11, <2>12, <2>13,
      Fold
<1>8. CASE ~operating[f]
  <2>1. /\ op' = [op EXCEPT ![s] = f]
        /\ pc' = [pc EXCEPT ![s] = "verify"]
        /\ operating' = [operating EXCEPT ![f] = TRUE]
        /\ UNCHANGED <<alive, owned, count, state, suspendState, waitReason,
             exception, context, caller, target, result, previous, thread,
             current>>
    BY <1>8
       DEF ResetEnter, Enter, UserCall, Admitted, Ident, status, life, handles,
          frames, carrier
  <2>2. /\ \A r \in Strands : op'[r] = IF r = s THEN f ELSE op[r]
        /\ \A r \in Strands : pc'[r] = IF r = s THEN "verify" ELSE pc[r]
        /\ \A r \in Fibers : operating'[r] <=> r = f \/ operating[r]
        /\ UNCHANGED <<alive, owned, count, state, suspendState, waitReason,
             exception, context, caller, target, result, previous, thread,
             current>>
    BY <1>8, <2>1 DEF TPoint, TFlags
  <2>3. \A r \in Strands : pc[r] \in Guarded => op[r] # f
    BY <1>8, GuardedPoints DEF HolderInv, TFlags, TPoint
  <2>4. (TPoint /\ TFlags)'
    BY <1>8, <2>3, <2>1, AllPoints DEF TPoint, TFlags
  <2>5. StrandInv'
    BY <1>8, <2>3, <2>2, IdlePoints, DestroyingPoints
       DEF StrandInv, Carried, TPoint, TThread, TFlags, TFrame
  <2>6. ThreadInv'
    BY <1>8, <2>3, <2>2, BlockedPoints DEF ThreadInv, Carried, TPoint, TThread
  <2>7. IdentInv'
    BY <1>8, <2>3, <2>2, BlockedPoints, IdlePoints
       DEF IdentInv, Ident, Carried, TPoint, TThread, TCurrent
  <2>8. (HolderInv /\ DestroyerInv)'
    BY <1>8, <2>3, <2>2, GuardedPoints, CallingPoints, DestroyingPoints
       DEF HolderInv, DestroyerInv, TPoint, TFlags
  <2>9. (ResumerInv /\ StackInv /\ HandleInv)'
    BY <1>8, <2>3, <2>2, IdlePoints
       DEF ResumerInv, StackInv, Unwinding, HandleInv, TPoint, THandles, TFlags
  <2>10. (PointInv /\ StateInv)'
    BY <1>8, <2>3, <2>2
       DEF PointInv, StateInv, TPoint, TState, TFrame, THandles, TFlags
  <2>11. (ResultInv /\ InstallInv /\ ExceptionKept)'
    BY <1>8, <2>3, <2>2, GuardedPoints
       DEF ResultInv, InstallInv, ExceptionKept, Holders, TPoint, TFrame,
          TState, TFlags
  <2>12. /\ (TThread /\ TCurrent /\ THandles /\ TState /\ TFrame)'
         /\ (WaitReasonExact)'
    BY <2>1 DEF TThread, TCurrent, THandles, TState, TFrame, WaitReasonExact
  <2>13. CountExact' /\ (count \in Nat)'
    BY <2>1 DEF Inv, TypeOK, CountExact
  <2> QED
    BY <2>4, <2>5, <2>6, <2>7, <2>8, <2>9, <2>10, <2>11, <2>12, <2>13, Fold
<1> QED
  BY <1>7, <1>8 DEF ResetEnter, Enter, UserCall, Admitted

\* reset goes on only with a stack that is gone.
LEMMA ResetVerifyPreserves ==
  ASSUME Inv, NEW s \in Strands, ResetVerify(s)
  PROVE  Inv'
<1> USE DEF Known, Distinct, Working, Strands
<1>1. Known /\ pc[s] = "verify"
  BY Unfold DEF ResetVerify
<1> USE <1>1
<1>2. op[s] \in Fibers /\ alive[op[s]]
  BY IdlePoints, DestroyingPoints
     DEF StrandInv, Carried, TFlags, TFrame, TPoint, TThread
<1> USE <1>2
<1>3. CASE state[op[s]] \in {"TERM", "EXCEPT"} /\ pc' = [pc EXCEPT ![s] = "rebuild"]
  <2>1. /\ pc' = [pc EXCEPT ![s] = "rebuild"]
        /\ UNCHANGED <<alive, owned, count, state, suspendState, waitReason,
             operating, exception, context, caller, op, target, result,
             previous, thread, current>>
    BY <1>3 DEF ResetVerify, Ident, status, life, handles, frames, carrier
  <2>2. /\ \A r \in Strands : pc'[r] = IF r = s THEN "rebuild" ELSE pc[r]
        /\ UNCHANGED <<alive, owned, count, state, suspendState, waitReason,
             operating, exception, context, caller, op, target, result,
             previous, thread, current>>
    BY <1>3, <2>1 DEF TPoint
  <2>3. \A d \in Strands : pc[d] = "unwinding" => op[d] # op[s]
    BY <1>3 DEF PointInv, StateInv, TFlags, TFrame, THandles, TPoint, TState
  <2>4. caller[op[s]] = Nobody
    BY <1>3, <2>3, IdlePoints, GuardedPoints, CallingPoints, DestroyingPoints
       DEF ResumerInv, StackInv, HandleInv, HolderInv, DestroyerInv, TFlags,
          THandles, TPoint
  <2>5. op[s] # s
    BY <1>3, <2>3, <2>4, IdlePoints, GuardedPoints
       DEF ResumerInv, StackInv, HandleInv, HolderInv, Unwinding, TFlags,
          THandles, TPoint
  <2>6. pc[op[s]] \in Idle
    BY <1>3, <2>3, <2>4, <2>5, IdlePoints
       DEF ResumerInv, StackInv, HandleInv, Unwinding, TFlags, THandles, TPoint
  <2>7. pc[op[s]] = "gone"
    <3>1. \A r \in Strands : pc[r] = "publish" => op[r] # op[s]
      BY <1>3, GuardedPoints DEF HolderInv, TFlags, TPoint
    <3> QED
      BY <1>3, <2>3, <2>4, <2>5, <2>6, <3>1
         DEF StateInv, Idle, TFlags, TFrame, THandles, TPoint, TState
  <2>8. TPoint'
    BY <1>3, <2>3, <2>4, <2>5, <2>6, <2>7, <2>1, AllPoints DEF TPoint
  <2>9. (StrandInv /\ ThreadInv /\ IdentInv)'
    BY <1>3, <2>3, <2>4, <2>5, <2>6, <2>7, <2>2, IdlePoints, DestroyingPoints,
      BlockedPoints
       DEF StrandInv, ThreadInv, IdentInv, Ident, Carried, TPoint, TThread,
          TFlags, TFrame, TCurrent
  <2>10. (HolderInv /\ DestroyerInv)'
    BY <1>3, <2>3, <2>4, <2>5, <2>6, <2>7, <2>2, GuardedPoints, CallingPoints,
      DestroyingPoints DEF HolderInv, DestroyerInv, TPoint, TFlags
  <2>11. (ResumerInv /\ StackInv /\ HandleInv)'
    BY <1>3, <2>3, <2>4, <2>5, <2>6, <2>7, <2>2, IdlePoints
       DEF ResumerInv, StackInv, Unwinding, HandleInv, TPoint, THandles, TFlags
  <2>12. (PointInv /\ StateInv)'
    BY <1>3, <2>3, <2>4, <2>5, <2>6, <2>7, <2>2
       DEF PointInv, StateInv, TPoint, TState, TFrame, THandles, TFlags
  <2>13. (ResultInv /\ InstallInv /\ ExceptionKept)'
    BY <1>3, <2>3, <2>4, <2>5, <2>6, <2>7, <2>2, GuardedPoints
       DEF ResultInv, InstallInv, ExceptionKept, Holders, TPoint, TFrame,
          TState, TFlags
  <2>14. /\ (TThread /\ TCurrent /\ TFlags /\ THandles /\ TState)'
         /\ (TFrame /\ WaitReasonExact)'
    BY <2>1
       DEF TThread, TCurrent, TFlags, THandles, TState, TFrame, WaitReasonExact
  <2>15. CountExact' /\ (count \in Nat)'
    BY <2>1 DEF Inv, TypeOK, CountExact
  <2> QED
    BY <2>8, <2>9, <2>10, <2>11, <2>12, <2>13, <2>14, <2>15, Fold
<1>4. CASE pc' = [pc EXCEPT ![s] = "leave"]
  <2>1. /\ pc' = [pc EXCEPT ![s] = "leave"]
        /\ UNCHANGED <<alive, owned, count, state, suspendState, waitReason,
             operating, exception, context, caller, op, target, result,
             previous, thread, current>>
    BY <1>4 DEF ResetVerify, Ident, status, life, handles, frames, carrier
  <2>2. /\ \A r \in Strands : pc'[r] = IF r = s THEN "leave" ELSE pc[r]
        /\ UNCHANGED <<alive, owned, count, state, suspendState, waitReason,
             operating, exception, context, caller, op, target, result,
             previous, thread, current>>
    BY <1>4, <2>1 DEF TPoint
  <2>3. TPoint'
    BY <1>4, <2>1, AllPoints DEF TPoint
  <2>4. (StrandInv /\ ThreadInv /\ IdentInv)'
    BY <1>4, <2>2, IdlePoints, DestroyingPoints, BlockedPoints
       DEF StrandInv, ThreadInv, IdentInv, Ident, Carried, TPoint, TThread,
          TFlags, TFrame, TCurrent
  <2>5. (HolderInv /\ DestroyerInv)'
    BY <1>4, <2>2, GuardedPoints, CallingPoints, DestroyingPoints
       DEF HolderInv, DestroyerInv, TPoint, TFlags
  <2>6. (ResumerInv /\ StackInv /\ HandleInv)'
    BY <1>4, <2>2, IdlePoints
       DEF ResumerInv, StackInv, Unwinding, HandleInv, TPoint, THandles, TFlags
  <2>7. (PointInv /\ StateInv)'
    BY <1>4, <2>2
       DEF PointInv, StateInv, TPoint, TState, TFrame, THandles, TFlags
  <2>8. (ResultInv /\ InstallInv /\ ExceptionKept)'
    BY <1>4, <2>2, GuardedPoints
       DEF ResultInv, InstallInv, ExceptionKept, Holders, TPoint, TFrame,
          TState, TFlags
  <2>9. /\ (TThread /\ TCurrent /\ TFlags /\ THandles /\ TState)'
        /\ (TFrame /\ WaitReasonExact)'
    BY <2>1
       DEF TThread, TCurrent, TFlags, THandles, TState, TFrame, WaitReasonExact
  <2>10. CountExact' /\ (count \in Nat)'
    BY <2>1 DEF Inv, TypeOK, CountExact
  <2> QED
    BY <2>3, <2>4, <2>5, <2>6, <2>7, <2>8, <2>9, <2>10, Fold
<1> QED
  BY <1>3, <1>4 DEF ResetVerify

\* reset drops the exception.
LEMMA ResetClearPreserves ==
  ASSUME Inv, NEW s \in Strands, ResetClear(s)
  PROVE  Inv'
<1> USE DEF Known, Distinct, Working, Strands
<1>1. Known /\ pc[s] = "rebuild"
  BY Unfold DEF ResetClear
<1> USE <1>1
<1>2. /\ op[s] \in Fibers
      /\ alive[op[s]]
      /\ op[s] # s
      /\ state[op[s]] \in {"TERM", "EXCEPT"}
      /\ pc[op[s]] = "gone"
  BY IdlePoints, DestroyingPoints
     DEF StrandInv, PointInv, StateInv, Carried, TFlags, TFrame, THandles,
        TPoint, TState, TThread
<1> USE <1>2
<1>3. /\ exception' = [exception EXCEPT ![op[s]] = FALSE]
      /\ pc' = [pc EXCEPT ![s] = "install"]
      /\ UNCHANGED <<alive, owned, count, state, suspendState, waitReason,
           operating, context, caller, op, target, result, previous, thread,
           current>>
  BY DEF ResetClear, Ident, status, life, handles, frames, carrier
<1>4. /\ \A r \in Fibers : exception'[r] <=> r # op[s] /\ exception[r]
      /\ \A r \in Strands : pc'[r] = IF r = s THEN "install" ELSE pc[r]
      /\ UNCHANGED <<alive, owned, count, state, suspendState, waitReason,
           operating, context, caller, op, target, result, previous, thread,
           current>>
  BY <1>3 DEF TPoint, TState
<1>5. (TPoint /\ TState)'
  BY <1>3, AllPoints DEF TPoint, TState, States
<1>6. StrandInv'
  BY <1>4, IdlePoints, DestroyingPoints
     DEF StrandInv, Carried, TPoint, TThread, TFlags, TFrame
<1>7. ThreadInv'
  BY <1>4, BlockedPoints DEF ThreadInv, Carried, TPoint, TThread
<1>8. IdentInv'
  BY <1>4, BlockedPoints, IdlePoints
     DEF IdentInv, Ident, Carried, TPoint, TThread, TCurrent
<1>9. (HolderInv /\ DestroyerInv)'
  BY <1>4, GuardedPoints, CallingPoints, DestroyingPoints
     DEF HolderInv, DestroyerInv, TPoint, TFlags
<1>10. (ResumerInv /\ StackInv /\ HandleInv)'
  BY <1>4, IdlePoints
     DEF ResumerInv, StackInv, Unwinding, HandleInv, TPoint, THandles, TFlags
<1>11. (PointInv /\ StateInv)'
  BY <1>4, SMTT(60) DEF PointInv, StateInv, TPoint, TState, TFrame, THandles, TFlags
<1>12. (ResultInv /\ InstallInv /\ ExceptionKept)'
  BY <1>4, GuardedPoints
     DEF ResultInv, InstallInv, ExceptionKept, Holders, TPoint, TFrame, TState,
        TFlags
<1>13. /\ (TThread /\ TCurrent /\ TFlags /\ THandles /\ TFrame)'
       /\ (WaitReasonExact)'
  BY <1>3 DEF TThread, TCurrent, TFlags, THandles, TFrame, WaitReasonExact
<1>14. CountExact' /\ (count \in Nat)'
  BY <1>3 DEF Inv, TypeOK, CountExact
<1> QED
  BY <1>5, <1>6, <1>7, <1>8, <1>9, <1>10, <1>11, <1>12, <1>13, <1>14, Fold

\* reset installs a new stack.
LEMMA ResetInstallPreserves ==
  ASSUME Inv, NEW s \in Strands, ResetInstall(s)
  PROVE  Inv'
<1> USE DEF Known, Distinct, Working, Strands
<1>1. Known /\ pc[s] = "install"
  BY Unfold DEF ResetInstall, Install
<1> USE <1>1
<1>2. /\ op[s] \in Fibers
      /\ alive[op[s]]
      /\ op[s] # s
      /\ state[op[s]] \in {"TERM", "EXCEPT"}
      /\ pc[op[s]] = "gone"
  BY IdlePoints, DestroyingPoints
     DEF StrandInv, PointInv, StateInv, Carried, TFlags, TFrame, THandles,
        TPoint, TState, TThread
<1>3. /\ ~exception[op[s]]
      /\ op[op[s]] = Nobody
      /\ thread[op[s]] = Nobody
      /\ target[op[s]] = "NONE"
  BY <1>2, IdlePoints, DestroyingPoints
     DEF StrandInv, InstallInv, Carried, TFlags, TFrame, TPoint, TState,
        TThread
<1>4. /\ caller[op[s]] = Nobody
      /\ \A d \in Strands : pc[d] = "unwinding" => op[d] # op[s]
  BY <1>2, <1>3, IdlePoints
     DEF ResumerInv, StackInv, HandleInv, TFlags, THandles, TPoint
<1>5. \A r \in Strands : pc[r] \in {"check", "enter", "inside", "landed", "verify",
                               "rebuild", "install", "publish", "leave"}
         /\ op[r] = op[s] => r = s
  BY <1>2, <1>3, <1>4, GuardedPoints DEF HolderInv, TFlags, TPoint
<1>6. \A d \in Strands : pc[d] \in {"destroy", "unwinding", "destroyed"} => op[d] # op[s]
  BY <1>2, <1>3, <1>4, <1>5, GuardedPoints, CallingPoints, DestroyingPoints
     DEF HolderInv, DestroyerInv, TFlags, TPoint
<1> USE <1>2, <1>3, <1>4, <1>5, <1>6
<1>7. /\ context' = [context EXCEPT ![op[s]] = op[s]]
      /\ caller' = [caller EXCEPT ![op[s]] = Nobody]
      /\ op' = [op EXCEPT ![op[s]] = op[s]]
      /\ pc' = [pc EXCEPT ![s] = "publish", ![op[s]] = "fresh"]
      /\ UNCHANGED <<alive, owned, count, state, suspendState, waitReason, operating,
           exception, target, result, previous, thread, current>>
  BY DEF ResetInstall, Install, Ident, status, life, handles, frames, carrier
<1>8. /\ \A r \in Fibers : context'[r] = IF r = op[s] THEN op[s] ELSE context[r]
      /\ \A r \in Fibers : caller'[r] = IF r = op[s] THEN Nobody ELSE caller[r]
      /\ \A r \in Strands : op'[r] = IF r = op[s] THEN op[s] ELSE op[r]
      /\ \A r \in Strands : pc'[r] = IF r = s THEN "publish"
                                     ELSE IF r = op[s] THEN "fresh" ELSE pc[r]
      /\ UNCHANGED <<alive, owned, count, state, suspendState, waitReason, operating,
           exception, target, result, previous, thread, current>>
  BY <1>7 DEF TPoint, THandles, TState
<1>9. (TPoint /\ THandles /\ TState)'
  BY <1>7, AllPoints DEF TPoint, THandles, TState, States
<1>10. StrandInv'
  BY <1>8, IdlePoints, DestroyingPoints
     DEF StrandInv, Carried, TPoint, TThread, TFlags, TFrame
<1>11. ThreadInv'
  BY <1>8, BlockedPoints DEF ThreadInv, Carried, TPoint, TThread
<1>12. IdentInv'
  BY <1>8, BlockedPoints, IdlePoints
     DEF IdentInv, Ident, Carried, TPoint, TThread, TCurrent
<1>13. HolderInv'
  BY <1>8, GuardedPoints DEF HolderInv, TPoint, TFlags
<1>14. DestroyerInv'
  BY <1>8, CallingPoints, DestroyingPoints DEF DestroyerInv, TPoint, TFlags
<1>15. (ResumerInv /\ StackInv /\ HandleInv)'
  BY <1>8, IdlePoints
     DEF ResumerInv, StackInv, Unwinding, HandleInv, TPoint, THandles, TFlags
<1>16. PointInv'
  BY <1>8 DEF PointInv, TPoint, TState
<1>17. StateInv'
  BY <1>8 DEF StateInv, TPoint, TState, TFrame, THandles, TFlags
<1>18. ResultInv'
  BY <1>8 DEF ResultInv, TPoint, TFrame, TState
<1>19. InstallInv'
  BY <1>8 DEF InstallInv, TPoint, TState
<1>20. ExceptionKept'
  BY <1>8, GuardedPoints DEF ExceptionKept, Holders, TPoint, TState, TFlags
<1>21. WaitReasonExact'
  BY <1>8 DEF WaitReasonExact, TState, TFlags
<1>22. (TThread /\ TCurrent /\ TFlags /\ TFrame)'
  BY <1>7 DEF TThread, TCurrent, TFlags, TFrame
<1>23. CountExact' /\ (count \in Nat)'
  BY <1>7 DEF Inv, TypeOK, CountExact
<1> QED
  BY <1>9, <1>10, <1>11, <1>12, <1>13, <1>14, <1>15, <1>16, <1>17, <1>18,
    <1>19, <1>20, <1>21, <1>22, <1>23, Fold

\* reset stores the state, its reason and where it stopped, in any order.
LEMMA ResetStorePreserves ==
  ASSUME Inv, NEW s \in Strands, ResetStore(s)
  PROVE  Inv'
<1> USE DEF Known, Distinct, Working, Strands
<1>1. Known /\ pc[s] = "publish"
  BY Unfold DEF ResetStore
<1> USE <1>1
<1>2. /\ op[s] \in Fibers
      /\ alive[op[s]]
      /\ op[s] # s
      /\ state[op[s]] \in {"TERM", "EXCEPT", "INIT"}
      /\ pc[op[s]] = "fresh"
      /\ waitReason[op[s]] = NoReason
      /\ ~exception[op[s]]
  BY IdlePoints, DestroyingPoints
     DEF StrandInv, PointInv, InstallInv, WaitReasonExact, Carried, TFlags,
        TFrame, THandles, TPoint, TState, TThread
<1>3. \A r \in Strands : pc[r] \in {"check", "enter", "inside", "landed", "verify",
                               "rebuild", "install", "publish", "leave"}
         /\ op[r] = op[s] => r = s
  BY <1>2, GuardedPoints DEF HolderInv, TFlags, TPoint
<1>4. \A d \in Strands : pc[d] \in {"destroy", "unwinding", "destroyed"} => op[d] # op[s]
  BY <1>2, <1>3, GuardedPoints, CallingPoints, DestroyingPoints
     DEF HolderInv, DestroyerInv, TFlags, TPoint
<1>5. caller[op[s]] = Nobody
  BY <1>2, <1>3, IdlePoints DEF ResumerInv, StackInv, HandleInv, TFlags, THandles, TPoint
<1> USE <1>2, <1>3, <1>4, <1>5
<1>6. /\ UNCHANGED <<alive, owned, count, operating, exception, context, caller, pc, op,
           target, result, previous, thread, current>>
      /\ TState'
      /\ \A r \in Fibers : r # op[s] => /\ state'[r] = state[r]
                                       /\ suspendState'[r] = suspendState[r]
      /\ UNCHANGED waitReason
      /\ state'[op[s]] = state[op[s]] \/ state'[op[s]] = "INIT"
  BY DEF ResetStore, TState, States, life, handles, frames, carrier
<1>7. (StrandInv /\ ThreadInv /\ IdentInv /\ HolderInv /\ DestroyerInv)'
  BY <1>6 DEF StrandInv, ThreadInv, IdentInv, Ident, HolderInv, DestroyerInv
<1>8. (ResumerInv /\ StackInv /\ HandleInv /\ InstallInv)'
  BY <1>6 DEF ResumerInv, StackInv, Unwinding, HandleInv, InstallInv
<1>9. PointInv'
  BY <1>6 DEF PointInv, TPoint
<1>10. StateInv'
  BY <1>6 DEF StateInv, TPoint, TFlags, THandles
<1>11. ResultInv'
  BY <1>6, GuardedPoints DEF ResultInv, TPoint, TFrame
<1>12. (ExceptionKept /\ WaitReasonExact)'
  BY <1>6, GuardedPoints DEF ExceptionKept, Holders, WaitReasonExact, TPoint, TFlags
<1>13. (TPoint /\ TThread /\ TCurrent /\ TFlags /\ THandles /\ TFrame)'
  BY <1>6 DEF TPoint, TThread, TCurrent, TFlags, THandles, TFrame
<1>14. CountExact' /\ (count \in Nat)'
  BY <1>6 DEF Inv, TypeOK, CountExact
<1> QED
  BY <1>6, <1>7, <1>8, <1>9, <1>10, <1>11, <1>12, <1>13, <1>14, Fold

\* reset has stored all of them.
LEMMA ResetDonePreserves ==
  ASSUME Inv, NEW s \in Strands, ResetDone(s)
  PROVE  Inv'
<1> USE DEF Known, Distinct, Working, Strands
<1>1. Known /\ pc[s] = "publish"
  BY Unfold DEF ResetDone
<1> USE <1>1
<1>2. /\ op[s] \in Fibers
      /\ op[s] # s
      /\ state[op[s]] = "INIT"
      /\ result[s] = "NONE"
  BY IdlePoints, DestroyingPoints
     DEF ResetDone, StrandInv, ResultInv, Carried, TFlags, TFrame, THandles,
        TPoint, TState, TThread
<1> USE <1>2
<1>3. /\ pc' = [pc EXCEPT ![s] = "leave"]
      /\ UNCHANGED <<alive, owned, count, state, suspendState, waitReason, operating,
           exception, context, caller, op, target, result, previous, thread, current>>
  BY DEF ResetDone, status, life, handles, frames, carrier
<1>4. \A r \in Strands : pc'[r] = IF r = s THEN "leave" ELSE pc[r]
  BY <1>3 DEF TPoint
<1>5. TPoint'
  BY <1>3, AllPoints DEF TPoint
<1>6. StrandInv'
  BY <1>3, <1>4, IdlePoints, DestroyingPoints
     DEF StrandInv, Carried, TPoint, TThread, TFlags, TFrame
<1>7. ThreadInv'
  BY <1>3, <1>4, BlockedPoints DEF ThreadInv, Carried, TPoint, TThread
<1>8. IdentInv'
  BY <1>3, <1>4, BlockedPoints, IdlePoints
     DEF IdentInv, Ident, Carried, TPoint, TThread, TCurrent
<1>9. (HolderInv /\ DestroyerInv)'
  BY <1>3, <1>4, GuardedPoints, CallingPoints, DestroyingPoints
     DEF HolderInv, DestroyerInv, TPoint, TFlags
<1>10. (ResumerInv /\ StackInv /\ HandleInv)'
  BY <1>3, <1>4, IdlePoints
     DEF ResumerInv, StackInv, Unwinding, HandleInv, TPoint, THandles, TFlags
<1>11. PointInv'
  BY <1>3, <1>4 DEF PointInv, TPoint
<1>12. StateInv'
  BY <1>3, <1>4 DEF StateInv, TPoint, TState, TFrame, THandles, TFlags
<1>13. (ResultInv /\ InstallInv /\ ExceptionKept)'
  BY <1>3, <1>4, GuardedPoints
     DEF ResultInv, InstallInv, ExceptionKept, Holders, TPoint, TFrame, TState, TFlags
<1>14. (TThread /\ TCurrent /\ TFlags /\ THandles /\ TState /\ TFrame /\ WaitReasonExact)'
  BY <1>3 DEF TThread, TCurrent, TFlags, THandles, TState, TFrame, WaitReasonExact
<1>15. CountExact' /\ (count \in Nat)'
  BY <1>3 DEF Inv, TypeOK, CountExact
<1> QED
  BY <1>5, <1>6, <1>7, <1>8, <1>9, <1>10, <1>11, <1>12, <1>13, <1>14, <1>15, Fold

\* ~Fiber takes the handle and unwinds a suspended stack.
LEMMA DestroyBeginPreserves ==
  ASSUME Inv, NEW s \in Strands, DestroyBegin(s)
  PROVE  Inv'
<1> USE DEF Known, Distinct, Working, Strands
<1>1. Known /\ pc[s] = "destroy"
  BY Unfold DEF DestroyBegin, Carry
<1> USE <1>1
<1>2. /\ op[s] \in Fibers
      /\ alive[op[s]]
      /\ op[s] # s
      /\ thread[s] \in Threads
      /\ current[thread[s]] = Ident(s)
  BY IdlePoints, DestroyingPoints, BlockedPoints
     DEF StrandInv, IdentInv, Carried, TCurrent, TFlags, TFrame, TPoint,
        TThread
<1>3. ~owned[op[s]]
  BY <1>2, CallingPoints, DestroyingPoints DEF DestroyerInv, TFlags, TPoint
<1>4. \A r \in Strands : pc[r] \in {"check", "enter", "inside", "landed", "verify",
                               "rebuild", "install", "publish", "leave", "release"} => op[r] # op[s]
  BY <1>2, <1>3, CallingPoints, DestroyingPoints
     DEF DestroyerInv, TFlags, TPoint
<1>5. \A d \in Strands : pc[d] \in {"destroy", "unwinding", "destroyed"} /\ op[d] = op[s] => d = s
  BY <1>2, <1>3, <1>4, CallingPoints, DestroyingPoints
     DEF DestroyerInv, TFlags, TPoint
<1>6. \A r \in Strands : pc[r] \notin Blocked /\ thread[r] = thread[s] => r = s
  BY <1>2, <1>3, <1>4, <1>5, BlockedPoints DEF ThreadInv, TPoint, TThread
<1>7. caller[op[s]] = Nobody
  BY <1>2, <1>3, <1>4, <1>5, <1>6, IdlePoints
     DEF ResumerInv, StackInv, HandleInv, TFlags, THandles, TPoint
<1>8. pc[op[s]] \in Idle
  BY <1>2, <1>3, <1>4, <1>5, <1>6, <1>7, IdlePoints
     DEF ResumerInv, StackInv, HandleInv, Unwinding, TFlags, THandles, TPoint
<1>9. /\ pc[op[s]] \in {"fresh", "suspended"} => context[op[s]] = op[s]
      /\ pc[op[s]] = "gone" => context[op[s]] = Nobody
  BY <1>2, <1>3, <1>4, <1>5, <1>6, <1>7, <1>8
     DEF HandleInv, TFlags, THandles, TPoint
<1>10. state[op[s]] # "EXEC"
  BY <1>2, <1>3, <1>4, <1>5, <1>6, <1>7, <1>8, <1>9
     DEF StateInv, TFlags, TFrame, THandles, TPoint, TState
<1>11. pc[op[s]] \in {"fresh", "suspended", "gone"}
  BY <1>2, <1>3, <1>4, <1>5, <1>6, <1>7, <1>8, <1>9, <1>10, IdlePoints
     DEF Idle, TPoint
<1> USE <1>2, <1>3, <1>4, <1>5, <1>6, <1>7, <1>8, <1>9, <1>10, <1>11
<1>12. CASE pc[op[s]] = "suspended"
  <2>1. /\ previous' = [previous EXCEPT ![s] = Ident(s)]
        /\ current' = [current EXCEPT ![thread[s]] = op[s]]
        /\ context' = [context EXCEPT ![op[s]] = Nobody]
        /\ pc' = [pc EXCEPT ![s] = "unwinding", ![op[s]] = "user"]
        /\ op' = [op EXCEPT ![op[s]] = Nobody]
        /\ target' = [target EXCEPT ![op[s]] = "NONE"]
        /\ thread' = [thread EXCEPT ![op[s]] = thread[s]]
        /\ UNCHANGED <<alive, owned, count, state, suspendState, waitReason,
             operating, exception, caller, result>>
    BY <1>12
       DEF DestroyBegin, Carry, Ident, status, life, handles, frames, carrier
  <2>2. /\ \A r \in Strands : previous'[r] = IF r = s THEN Ident(s) ELSE previous[r]
        /\ \A r \in Threads : current'[r] = IF r = thread[s] THEN op[s] ELSE current[r]
        /\ \A r \in Fibers : context'[r] = IF r = op[s] THEN Nobody ELSE context[r]
        /\ \A r \in Strands : pc'[r] = IF r = s THEN "unwinding"
                                       ELSE IF r = op[s] THEN "user" ELSE pc[r]
        /\ \A r \in Strands : op'[r] = IF r = op[s] THEN Nobody ELSE op[r]
        /\ \A r \in Strands : target'[r] = IF r = op[s] THEN "NONE" ELSE target[r]
        /\ \A r \in Strands : thread'[r] = IF r = op[s] THEN thread[s] ELSE thread[r]
        /\ UNCHANGED <<alive, owned, count, state, suspendState, waitReason,
             operating, exception, caller, result>>
    BY <1>12, <2>1 DEF TPoint, TThread, TCurrent, THandles, TFrame
  <2>3. /\ state[op[s]] \in {"READY", "WAITING"}
        /\ thread[op[s]] = Nobody
        /\ op[op[s]] = op[s]
    BY <1>12, IdlePoints, DestroyingPoints
       DEF PointInv, StateInv, StrandInv, Carried, TFlags, TFrame, THandles,
          TPoint, TState, TThread
  <2>4. (TPoint /\ TThread)'
    BY <1>12, <2>3, <2>1, AllPoints DEF TPoint, TThread
  <2>5. (TCurrent /\ THandles /\ TFrame)'
    BY <1>12, <2>3, <2>1
       DEF TCurrent, THandles, TFrame, TPoint, TThread, States
  <2>6. StrandInv'
    BY <1>12, <2>3, <2>2, IdlePoints, DestroyingPoints
       DEF StrandInv, Carried, TPoint, TThread, TFlags, TFrame
  <2>7. ThreadInv'
    BY <1>12, <2>3, <2>2, BlockedPoints DEF ThreadInv, Carried, TPoint, TThread
  <2>8. IdentInv'
    BY <1>12, <2>3, <2>2, BlockedPoints, IdlePoints
       DEF IdentInv, Ident, Carried, TPoint, TThread, TCurrent
  <2>9. HolderInv'
    BY <1>12, <2>3, <2>2, GuardedPoints DEF HolderInv, TPoint, TFlags
  <2>10. DestroyerInv'
    BY <1>12, <2>3, <2>2, CallingPoints, DestroyingPoints
       DEF DestroyerInv, TPoint, TFlags
  <2>11. ResumerInv'
    BY <1>12, <2>3, <2>2, IdlePoints DEF ResumerInv, TPoint, THandles, TFlags
  <2>12. StackInv'
    BY <1>12, <2>3, <2>2, IdlePoints
       DEF StackInv, Unwinding, TPoint, THandles, TFlags
  <2>13. HandleInv'
    BY <1>12, <2>3, <2>2 DEF HandleInv, TPoint, THandles, TFlags
  <2>14. PointInv'
    BY <1>12, <2>3, <2>2 DEF PointInv, TPoint, TState
  <2>15. StateInv'
    BY <1>12, <2>3, <2>2, SMTT(60) DEF StateInv, TPoint, TState, TFrame, THandles, TFlags
  <2>16. ResultInv'
    BY <1>12, <2>3, <2>2 DEF ResultInv, TPoint, TFrame, TState
  <2>17. InstallInv'
    BY <1>12, <2>3, <2>2 DEF InstallInv, TPoint, TState
  <2>18. ExceptionKept'
    BY <1>12, <2>3, <2>2, GuardedPoints
       DEF ExceptionKept, Holders, TPoint, TState, TFlags
  <2>19. (TFlags /\ TState /\ WaitReasonExact)'
    BY <2>1 DEF TFlags, TState, WaitReasonExact
  <2>20. CountExact' /\ (count \in Nat)'
    BY <2>1 DEF Inv, TypeOK, CountExact
  <2> QED
    BY <2>4, <2>5, <2>6, <2>7, <2>8, <2>9, <2>10, <2>11, <2>12, <2>13, <2>14,
      <2>15, <2>16, <2>17, <2>18, <2>19, <2>20, Fold
<1>13. CASE pc[op[s]] = "fresh"
  <2>1. /\ previous' = [previous EXCEPT ![s] = Ident(s)]
        /\ current' = [current EXCEPT ![thread[s]] = op[s]]
        /\ context' = [context EXCEPT ![op[s]] = Nobody]
        /\ pc' = [pc EXCEPT ![s] = "destroyed", ![op[s]] = "gone"]
        /\ op' = [op EXCEPT ![op[s]] = Nobody]
        /\ UNCHANGED <<alive, owned, count, state, suspendState, waitReason,
             operating, exception, caller, target, result, thread>>
    BY <1>13
       DEF DestroyBegin, Carry, Ident, status, life, handles, frames, carrier
  <2>2. /\ \A r \in Strands : previous'[r] = IF r = s THEN Ident(s) ELSE previous[r]
        /\ \A r \in Threads : current'[r] = IF r = thread[s] THEN op[s] ELSE current[r]
        /\ \A r \in Fibers : context'[r] = IF r = op[s] THEN Nobody ELSE context[r]
        /\ \A r \in Strands : pc'[r] = IF r = s THEN "destroyed"
                                       ELSE IF r = op[s] THEN "gone" ELSE pc[r]
        /\ \A r \in Strands : op'[r] = IF r = op[s] THEN Nobody ELSE op[r]
        /\ UNCHANGED <<alive, owned, count, state, suspendState, waitReason,
             operating, exception, caller, target, result, thread>>
    BY <1>13, <2>1 DEF TPoint, TCurrent, THandles
  <2>3. /\ thread[op[s]] = Nobody
        /\ op[op[s]] = op[s]
        /\ target[op[s]] = "NONE"
    BY <1>13, IdlePoints, DestroyingPoints
       DEF StrandInv, Carried, TFlags, TFrame, TPoint, TThread
  <2>4. (TPoint /\ TCurrent /\ THandles)'
    BY <1>13, <2>3, <2>1, AllPoints DEF TPoint, TCurrent, THandles
  <2>5. StrandInv'
    BY <1>13, <2>3, <2>2, IdlePoints, DestroyingPoints
       DEF StrandInv, Carried, TPoint, TThread, TFlags, TFrame
  <2>6. ThreadInv'
    BY <1>13, <2>3, <2>2, BlockedPoints DEF ThreadInv, Carried, TPoint, TThread
  <2>7. IdentInv'
    BY <1>13, <2>3, <2>2, BlockedPoints, IdlePoints
       DEF IdentInv, Ident, Carried, TPoint, TThread, TCurrent
  <2>8. HolderInv'
    BY <1>13, <2>3, <2>2, GuardedPoints DEF HolderInv, TPoint, TFlags
  <2>9. DestroyerInv'
    BY <1>13, <2>3, <2>2, CallingPoints, DestroyingPoints
       DEF DestroyerInv, TPoint, TFlags
  <2>10. (ResumerInv /\ StackInv /\ HandleInv)'
    BY <1>13, <2>3, <2>2, IdlePoints
       DEF ResumerInv, StackInv, Unwinding, HandleInv, TPoint, THandles, TFlags
  <2>11. PointInv'
    BY <1>13, <2>3, <2>2 DEF PointInv, TPoint, TState
  <2>12. StateInv'
    BY <1>13, <2>3, <2>2, SMTT(30)
       DEF StateInv, TPoint, TState, TFrame, THandles, TFlags
  <2>13. ResultInv'
    BY <1>13, <2>3, <2>2 DEF ResultInv, TPoint, TFrame, TState
  <2>14. InstallInv'
    BY <1>13, <2>3, <2>2 DEF InstallInv, TPoint, TState
  <2>15. ExceptionKept'
    BY <1>13, <2>3, <2>2, GuardedPoints
       DEF ExceptionKept, Holders, TPoint, TState, TFlags
  <2>16. (TThread /\ TFlags /\ TState /\ TFrame /\ WaitReasonExact)'
    BY <2>1 DEF TThread, TFlags, TState, TFrame, WaitReasonExact
  <2>17. CountExact' /\ (count \in Nat)'
    BY <2>1 DEF Inv, TypeOK, CountExact
  <2> QED
    BY <2>4, <2>5, <2>6, <2>7, <2>8, <2>9, <2>10, <2>11, <2>12, <2>13, <2>14,
      <2>15, <2>16, <2>17, Fold
<1>14. CASE pc[op[s]] = "gone"
  <2>1. /\ previous' = [previous EXCEPT ![s] = Ident(s)]
        /\ current' = [current EXCEPT ![thread[s]] = op[s]]
        /\ context' = [context EXCEPT ![op[s]] = Nobody]
        /\ pc' = [pc EXCEPT ![s] = "destroyed"]
        /\ UNCHANGED <<alive, owned, count, state, suspendState, waitReason,
             operating, exception, caller, op, target, result, thread>>
    BY <1>14
       DEF DestroyBegin, Carry, Ident, status, life, handles, frames, carrier
  <2>2. /\ \A r \in Strands : previous'[r] = IF r = s THEN Ident(s) ELSE previous[r]
        /\ \A r \in Threads : current'[r] = IF r = thread[s] THEN op[s] ELSE current[r]
        /\ \A r \in Fibers : context'[r] = IF r = op[s] THEN Nobody ELSE context[r]
        /\ \A r \in Strands : pc'[r] = IF r = s THEN "destroyed" ELSE pc[r]
        /\ UNCHANGED <<alive, owned, count, state, suspendState, waitReason,
             operating, exception, caller, op, target, result, thread>>
    BY <1>14, <2>1 DEF TPoint, TCurrent, THandles
  <2>3. (TPoint /\ TCurrent /\ THandles)'
    BY <1>14, <2>1, AllPoints DEF TPoint, TCurrent, THandles
  <2>4. StrandInv'
    BY <1>14, <2>2, IdlePoints, DestroyingPoints
       DEF StrandInv, Carried, TPoint, TThread, TFlags, TFrame
  <2>5. ThreadInv'
    BY <1>14, <2>2, BlockedPoints DEF ThreadInv, Carried, TPoint, TThread
  <2>6. IdentInv'
    BY <1>14, <2>2, BlockedPoints, IdlePoints
       DEF IdentInv, Ident, Carried, TPoint, TThread, TCurrent
  <2>7. HolderInv'
    BY <1>14, <2>2, GuardedPoints DEF HolderInv, TPoint, TFlags
  <2>8. DestroyerInv'
    BY <1>14, <2>2, CallingPoints, DestroyingPoints
       DEF DestroyerInv, TPoint, TFlags
  <2>9. (ResumerInv /\ StackInv /\ HandleInv)'
    BY <1>14, <2>2, IdlePoints
       DEF ResumerInv, StackInv, Unwinding, HandleInv, TPoint, THandles, TFlags
  <2>10. PointInv'
    BY <1>14, <2>2 DEF PointInv, TPoint, TState
  <2>11. StateInv'
    BY <1>14, <2>2, SMTT(60) DEF StateInv, TPoint, TState, TFrame, THandles, TFlags
  <2>12. (ResultInv /\ InstallInv /\ ExceptionKept)'
    BY <1>14, <2>2, GuardedPoints
       DEF ResultInv, InstallInv, ExceptionKept, Holders, TPoint, TFrame,
          TState, TFlags
  <2>13. (TThread /\ TFlags /\ TState /\ TFrame /\ WaitReasonExact)'
    BY <2>1 DEF TThread, TFlags, TState, TFrame, WaitReasonExact
  <2>14. CountExact' /\ (count \in Nat)'
    BY <2>1 DEF Inv, TypeOK, CountExact
  <2> QED
    BY <2>3, <2>4, <2>5, <2>6, <2>7, <2>8, <2>9, <2>10, <2>11, <2>12, <2>13,
      <2>14, Fold
<1> QED
  BY <1>12, <1>13, <1>14 DEF DestroyBegin, Carry

\* The unwound stack ends where ~Fiber waits for it.
LEMMA UnwindEndPreserves ==
  ASSUME Inv, NEW x \in Fibers, UnwindEnd(x)
  PROVE  Inv'
<1> USE DEF Known, Distinct, Working, Strands
<1>1. Known /\ pc[x] = "user" /\ x \in Strands
  BY Unfold DEF UnwindEnd
<1> USE <1>1
<1>2. PICK d \in Strands :
       /\ pc[d] = "unwinding"
       /\ op[d] = x
       /\ pc' = [pc EXCEPT ![x] = "gone", ![d] = "destroyed"]
       /\ thread' = [thread EXCEPT ![x] = Nobody, ![d] = thread[x]]
  BY DEF UnwindEnd
<1>3. /\ alive[x]
      /\ d # x
      /\ op[x] = Nobody
      /\ target[x] = "NONE"
      /\ thread[x] \in Threads
      /\ thread[d] = thread[x]
      /\ current[thread[x]] = x
      /\ previous[d] = Ident(d)
  BY <1>2, IdlePoints, DestroyingPoints, BlockedPoints
     DEF StrandInv, ThreadInv, IdentInv, Ident, Carried, TCurrent, TFlags,
        TFrame, TPoint, TThread
<1>4. caller[x] = Nobody
  BY <1>2, <1>3, IdlePoints DEF ResumerInv, TFlags, THandles, TPoint
<1>5. state[x] \in {"READY", "WAITING"}
  BY <1>2, <1>3, <1>4 DEF PointInv, TPoint, TState
<1>6. \A r \in Strands : pc[r] \in {"check", "enter", "inside", "landed", "verify",
                               "rebuild", "install", "publish", "leave", "release"} => op[r] # x
  BY <1>2, <1>3, <1>4, <1>5, CallingPoints, DestroyingPoints
     DEF DestroyerInv, TFlags, TPoint
<1>7. \A r \in Strands : pc[r] \in {"destroy", "unwinding", "destroyed"} /\ op[r] = x => r = d
  BY <1>2, <1>3, <1>4, <1>5, <1>6, CallingPoints, DestroyingPoints
     DEF DestroyerInv, TFlags, TPoint
<1>8. \A r \in Strands : pc[r] \notin Blocked /\ thread[r] = thread[x] => r = x
  BY <1>2, <1>3, <1>4, <1>5, <1>6, <1>7, BlockedPoints
     DEF ThreadInv, TPoint, TThread
<1> USE <1>2, <1>3, <1>4, <1>5, <1>6, <1>7, <1>8
<1>9. /\ pc' = [pc EXCEPT ![x] = "gone", ![d] = "destroyed"]
      /\ thread' = [thread EXCEPT ![x] = Nobody, ![d] = thread[x]]
      /\ UNCHANGED <<alive, owned, count, state, suspendState, waitReason,
           operating, exception, context, caller, op, target, result, previous,
           current>>
  BY DEF UnwindEnd, Ident, status, life, handles, frames, carrier
<1>10. /\ \A r \in Strands : pc'[r] = IF r = x THEN "gone"
                                      ELSE IF r = d THEN "destroyed" ELSE pc[r]
       /\ \A r \in Strands : thread'[r] = IF r = x THEN Nobody
                                          ELSE IF r = d THEN thread[x] ELSE thread[r]
       /\ UNCHANGED <<alive, owned, count, state, suspendState, waitReason,
            operating, exception, context, caller, op, target, result,
            previous, current>>
  BY <1>9 DEF TPoint, TThread
<1>11. (TPoint /\ TThread)'
  BY <1>9, AllPoints DEF TPoint, TThread
<1>12. StrandInv'
  BY <1>10, IdlePoints, DestroyingPoints
     DEF StrandInv, Carried, TPoint, TThread, TFlags, TFrame
<1>13. ThreadInv'
  BY <1>10, BlockedPoints DEF ThreadInv, Carried, TPoint, TThread
<1>14. IdentInv'
  BY <1>10, BlockedPoints, IdlePoints
     DEF IdentInv, Ident, Carried, TPoint, TThread, TCurrent
<1>15. HolderInv'
  BY <1>10, GuardedPoints DEF HolderInv, TPoint, TFlags
<1>16. DestroyerInv'
  BY <1>10, CallingPoints, DestroyingPoints DEF DestroyerInv, TPoint, TFlags
<1>17. (ResumerInv /\ StackInv /\ HandleInv)'
  BY <1>10, IdlePoints
     DEF ResumerInv, StackInv, Unwinding, HandleInv, TPoint, THandles, TFlags
<1>18. PointInv'
  BY <1>10 DEF PointInv, TPoint, TState
<1>19. StateInv'
  BY <1>10 DEF StateInv, TPoint, TState, TFrame, THandles, TFlags
<1>20. ResultInv'
  BY <1>10 DEF ResultInv, TPoint, TFrame, TState
<1>21. InstallInv'
  BY <1>10 DEF InstallInv, TPoint, TState
<1>22. ExceptionKept'
  BY <1>10, GuardedPoints DEF ExceptionKept, Holders, TPoint, TState, TFlags
<1>23. /\ (TCurrent /\ TFlags /\ THandles /\ TState /\ TFrame)'
       /\ (WaitReasonExact)'
  BY <1>9 DEF TCurrent, TFlags, THandles, TState, TFrame, WaitReasonExact
<1>24. CountExact' /\ (count \in Nat)'
  BY <1>9 DEF Inv, TypeOK, CountExact
<1> QED
  BY <1>11, <1>12, <1>13, <1>14, <1>15, <1>16, <1>17, <1>18, <1>19, <1>20,
    <1>21, <1>22, <1>23, <1>24, Fold

\* The object is gone and nothing refers to it.
LEMMA DestroyEndPreserves ==
  ASSUME Inv, NEW s \in Strands, DestroyEnd(s)
  PROVE  Inv'
<1> USE DEF Known, Distinct, Working, Strands
<1>1. Known /\ pc[s] = "destroyed"
  BY Unfold DEF DestroyEnd, Restore, CountDown
<1> USE <1>1
<1>2. /\ op[s] \in Fibers
      /\ alive[op[s]]
      /\ op[s] # s
      /\ pc[op[s]] = "gone"
      /\ op[op[s]] = Nobody
      /\ thread[s] \in Threads
      /\ previous[s] = Ident(s)
  BY IdlePoints, DestroyingPoints, BlockedPoints
     DEF StrandInv, PointInv, StateInv, IdentInv, Carried, TCurrent, TFlags,
        TFrame, THandles, TPoint, TState, TThread
<1>3. \A r \in Strands : op[r] = op[s] => r = s
  BY <1>2, GuardedPoints, CallingPoints, DestroyingPoints, BlockedPoints,
    IdlePoints
     DEF DestroyerInv, StrandInv, Destroying, Calling, Points, Blocked,
        Guarded, Idle, Carried, TFlags, TFrame, TPoint, TThread
<1> USE <1>2, <1>3
<1>4. /\ alive' = [alive EXCEPT ![op[s]] = FALSE]
      /\ count' = count - 1
      /\ current' = [current EXCEPT ![thread[s]] = previous[s]]
      /\ previous' = [previous EXCEPT ![s] = Nobody]
      /\ pc' = [pc EXCEPT ![s] = "user"]
      /\ op' = [op EXCEPT ![s] = Nobody]
      /\ UNCHANGED <<owned, state, suspendState, waitReason, operating,
           exception, context, caller, target, result, thread>>
  BY DEF DestroyEnd, Restore, CountDown, Ident, status, life, handles, frames,
      carrier
<1>5. /\ \A r \in Fibers : alive'[r] <=> r # op[s] /\ alive[r]
      /\ \A r \in Threads : current'[r] = IF r = thread[s] THEN previous[s] ELSE current[r]
      /\ \A r \in Strands : previous'[r] = IF r = s THEN Nobody ELSE previous[r]
      /\ \A r \in Strands : pc'[r] = IF r = s THEN "user" ELSE pc[r]
      /\ \A r \in Strands : op'[r] = IF r = s THEN Nobody ELSE op[r]
      /\ UNCHANGED <<owned, state, suspendState, waitReason, operating,
           exception, context, caller, target, result, thread>>
  BY <1>4 DEF TPoint, TCurrent, TFlags
<1>6. (TPoint /\ TCurrent /\ TFlags)'
  BY <1>4, AllPoints DEF TPoint, TCurrent, TFlags
<1>7. StrandInv'
  BY <1>5, IdlePoints, DestroyingPoints
     DEF StrandInv, Carried, TPoint, TThread, TFlags, TFrame
<1>8. ThreadInv'
  BY <1>5, BlockedPoints DEF ThreadInv, Carried, TPoint, TThread
<1>9. IdentInv'
  BY <1>5, BlockedPoints, IdlePoints
     DEF IdentInv, Ident, Carried, TPoint, TThread, TCurrent
<1>10. (HolderInv /\ DestroyerInv)'
  BY <1>5, GuardedPoints, CallingPoints, DestroyingPoints
     DEF HolderInv, DestroyerInv, TPoint, TFlags
<1>11. (ResumerInv /\ StackInv /\ HandleInv)'
  BY <1>5, IdlePoints
     DEF ResumerInv, StackInv, Unwinding, HandleInv, TPoint, THandles, TFlags
<1>12. (PointInv /\ StateInv)'
  BY <1>5 DEF PointInv, StateInv, TPoint, TState, TFrame, THandles, TFlags
<1>13. (ResultInv /\ InstallInv /\ ExceptionKept /\ WaitReasonExact)'
  BY <1>5, GuardedPoints
     DEF ResultInv, InstallInv, ExceptionKept, Holders, WaitReasonExact,
        TPoint, TFrame, TState, TFlags
<1>14. (TThread /\ THandles /\ TState /\ TFrame)'
  BY <1>4 DEF TThread, THandles, TState, TFrame
<1>15. CountExact' /\ (count \in Nat)'
  BY <1>5, <1>4, CountDownExact DEF Inv, TypeOK
<1> QED
  BY <1>6, <1>7, <1>8, <1>9, <1>10, <1>11, <1>12, <1>13, <1>14, <1>15, Fold

-----------------------------------------------------------------------------
(* The invariant and what follows from it.                                 *)

\* Inv holds at the start: no object exists, every thread is in user code.
LEMMA InitEstablishes ==
  ASSUME Init
  PROVE  Inv
<1> USE DEF Init, Strands
<1>1. Distinct
  BY FiberAssumption DEF Distinct
<1>2. TypeOK
  BY <1>1, AllPoints DEF TypeOK, Distinct, States
<1>3. CountExact
  <2>1. {f \in Fibers : alive[f]} = {}
    OBVIOUS
  <2> QED
    BY <2>1, FS_EmptySet DEF CountExact
<1>4. \A s \in Strands : pc[s] = IF s \in Threads THEN "user" ELSE "gone"
  OBVIOUS
<1>5. StrandInv /\ ThreadInv /\ IdentInv
  BY <1>1, <1>4, IdlePoints, BlockedPoints, DestroyingPoints
     DEF Distinct, StrandInv, ThreadInv, IdentInv, Ident
<1>6. HolderInv /\ DestroyerInv /\ ResumerInv /\ StackInv /\ HandleInv
  BY <1>1, <1>4, GuardedPoints, DestroyingPoints
     DEF Distinct, HolderInv, DestroyerInv, ResumerInv, StackInv, HandleInv
<1>7. PointInv /\ StateInv /\ ResultInv /\ InstallInv
  BY <1>1, <1>4 DEF Distinct, PointInv, StateInv, ResultInv, InstallInv
<1>8. ExceptionKept /\ WaitReasonExact
  BY DEF ExceptionKept, WaitReasonExact
<1> QED
  BY <1>2, <1>3, <1>5, <1>6, <1>7, <1>8 DEF Inv, IInv

\* A step of the library preserves Inv.
LEMMA LibraryPreserves ==
  ASSUME Inv, NEW s \in Strands, Library(s)
  PROVE  Inv'
<1>1. CASE ResumeCheck(s)
  BY <1>1, ResumeCheckPreserves
<1>2. CASE ResumeSwitch(s)
  BY <1>2, ResumeSwitchPreserves
<1>3. CASE ResumeLand(s)
  BY <1>3, ResumeLandPreserves
<1>4. CASE Leave(s)
  BY <1>4, LeavePreserves
<1>5. CASE Release(s)
  BY <1>5, ReleasePreserves
<1>6. CASE YieldSwitch(s)
  BY <1>6, YieldSwitchPreserves
<1>7. CASE ExitSwitch(s)
  <2>1. s \in Fibers
    BY <1>7 DEF ExitSwitch, Inv, IInv, StrandInv, Strands
  <2> QED
    BY <1>7, <2>1, ExitSwitchPreserves
<1>8. CASE ResetVerify(s)
  BY <1>8, ResetVerifyPreserves
<1>9. CASE ResetClear(s)
  BY <1>9, ResetClearPreserves
<1>10. CASE ResetInstall(s)
  BY <1>10, ResetInstallPreserves
<1>11. CASE DestroyBegin(s)
  BY <1>11, DestroyBeginPreserves
<1>12. CASE DestroyEnd(s)
  BY <1>12, DestroyEndPreserves
<1>13. CASE ResetStore(s)
  BY <1>13, ResetStorePreserves
<1>14. CASE ResetDone(s)
  BY <1>14, ResetDonePreserves
<1> QED
  BY <1>1, <1>2, <1>3, <1>4, <1>5, <1>6, <1>7, <1>8, <1>9, <1>10, <1>11, <1>12,
     <1>13, <1>14
     DEF Library

\* A step of user code preserves Inv.
LEMMA UserPreserves ==
  ASSUME Inv, NEW s \in Strands, User(s)
  PROVE  Inv'
BY GetThisPreserves, YieldToReadyPreserves, YieldToHoldPreserves,
   ConstructPreserves, DropOwnerPreserves, ResumeEnterPreserves,
   ResetEnterPreserves, WakePreserves
   DEF User

\* A step of run preserves Inv.
LEMMA RunPreserves ==
  ASSUME Inv, NEW x \in Fibers, Run(x)
  PROVE  Inv'
BY FinishTermPreserves, FinishThrowPreserves, FinishExceptPreserves,
   UnwindEndPreserves
   DEF Run

\* A step that changes nothing preserves Inv.
LEMMA StutterPreserves ==
  ASSUME Inv, UNCHANGED vars
  PROVE  Inv'
<1> USE DEF vars, status, life, handles, frames, carrier
<1>1. TypeOK' /\ CountExact'
  BY DEF Inv, TypeOK, CountExact
<1>2. (StrandInv /\ ThreadInv /\ IdentInv /\ HolderInv /\ DestroyerInv)'
  BY DEF Inv, IInv, StrandInv, ThreadInv, IdentInv, Ident, HolderInv, DestroyerInv
<1>3. (ResumerInv /\ StackInv /\ HandleInv /\ PointInv /\ StateInv)'
  BY DEF Inv, IInv, ResumerInv, StackInv, Unwinding, HandleInv, PointInv, StateInv
<1>4. (ResultInv /\ InstallInv /\ ExceptionKept /\ WaitReasonExact)'
  BY DEF Inv, IInv, ResultInv, InstallInv, ExceptionKept, Holders, WaitReasonExact
<1> QED
  BY <1>1, <1>2, <1>3, <1>4 DEF Inv, IInv

\* The inductive invariant of the fiber: strands, threads, identity, guard,
\* stack, handle, state and result of every object stay in step.
THEOREM Invariance == Spec => []Inv
<1>1. Init => Inv
  BY InitEstablishes
<1>2. Inv /\ [Next]_vars => Inv'
  <2> SUFFICES ASSUME Inv, [Next]_vars
               PROVE  Inv'
    OBVIOUS
  <2>1. CASE \E s \in Strands : Library(s)
    BY <2>1, LibraryPreserves
  <2>2. CASE \E s \in Strands : User(s)
    BY <2>2, UserPreserves
  <2>3. CASE \E x \in Fibers : Run(x)
    BY <2>3, RunPreserves
  <2>4. CASE UNCHANGED vars
    BY <2>4, StutterPreserves
  <2> QED
    BY <2>1, <2>2, <2>3, <2>4 DEF Next
<1> QED
  BY <1>1, <1>2, PTL DEF Spec

-----------------------------------------------------------------------------
(* The properties of Fiber.                                                *)

\* Every variable keeps its type.
THEOREM TypeCorrect == Spec => []TypeOK
<1>1. Inv => TypeOK
  BY DEF Inv
<1> QED
  BY <1>1, Invariance, PTL

\* OperationGuard: whatever the interleaving of resume, reset and nested
\* calls, the flag of an object is up exactly while one call is guarded by it.
THEOREM GuardExclusive == Spec => []SingleHolder
<1>1. Inv => SingleHolder
  BY DEF Inv, IInv, HolderInv, SingleHolder, Holders, Strands
<1> QED
  BY <1>1, Invariance, PTL

\* g_currentFiber names the fiber whose code runs, through nested resumes,
\* migration between threads and forced unwinding.
THEOREM IdentityCorrect == Spec => []CurrentIdentity
<1>1. Inv => CurrentIdentity
  <2> SUFFICES ASSUME Inv
               PROVE  CurrentIdentity
    OBVIOUS
  <2> QED
    BY BlockedPoints DEF Inv, IInv, IdentInv, Ident, ThreadInv, CurrentIdentity
<1> QED
  BY <1>1, Invariance, PTL

\* resume returns how the activation it started ended, wake or no wake.
THEOREM ResumeResult == Spec => []ResumeReturns
<1>1. Inv => ResumeReturns
  BY DEF Inv, IInv, ResultInv, ResumeReturns
<1> QED
  BY <1>1, Invariance, PTL

\* state and waitReason, stored one after the other, agree whenever anybody
\* can look, between the stores of reset too.
THEOREM WaitReason == Spec => []WaitReasonExact
<1>1. Inv => WaitReasonExact
  BY DEF Inv, IInv
<1> QED
  BY <1>1, Invariance, PTL

\* An object that can be resumed by its state has the handle of a stack that
\* waits; an ended one has neither.
THEOREM HandleCorrect == Spec => []HandleMatchesState
<1>1. Inv => HandleMatchesState
  <2> SUFFICES ASSUME Inv, NEW f \in Fibers, alive[f], ~operating[f], ~Dying(f)
               PROVE  CASE state[f] = "INIT" -> context[f] = f /\ pc[f] = "fresh"
                        [] state[f] \in {"READY", "WAITING"} ->
                              context[f] = f /\ pc[f] = "suspended"
                        [] state[f] \in {"TERM", "EXCEPT"} ->
                              context[f] = Nobody /\ pc[f] = "gone"
                        [] OTHER -> FALSE
    BY DEF HandleMatchesState
  <2>1. Known
    BY Unfold
  <2>2. \A s \in Strands : op[s] = f => pc[s] \notin Guarded /\ pc[s] \notin Destroying
    BY <2>1 DEF Known, HolderInv, Dying
  <2>3. pc[f] \in Idle
    BY <2>1, <2>2, GuardedPoints, DestroyingPoints
       DEF Known, StackInv, Unwinding, Distinct, THandles
  <2>4. state[f] # "EXEC" /\ state[f] \in States
    BY <2>1, <2>2, GuardedPoints DEF Known, StateInv, TState
  <2>5. pc[f] = "fresh" => state[f] = "INIT"
    BY <2>1, <2>2, <2>4, GuardedPoints DEF Known, StateInv
  <2>6. pc[f] = "suspended" => state[f] \in {"READY", "WAITING"}
    BY <2>1, <2>4 DEF Known, StateInv
  <2>7. pc[f] = "gone" => state[f] \in {"TERM", "EXCEPT"}
    BY <2>1, <2>2, DestroyingPoints DEF Known, StateInv
  <2>8. context[f] = IF pc[f] \in {"fresh", "suspended"} THEN f ELSE Nobody
    BY <2>1 DEF Known, HandleInv
  <2> QED
    BY <2>3, <2>4, <2>5, <2>6, <2>7, <2>8 DEF Idle
<1> QED
  BY <1>1, Invariance, PTL

\* Whoever reads EXCEPT finds the exception.
THEOREM ExceptionFound == Spec => []ExceptionKept
<1>1. Inv => ExceptionKept
  BY DEF Inv, IInv
<1> QED
  BY <1>1, Invariance, PTL

\* ~Fiber never meets an object in use, no jump an empty handle.
THEOREM CrashFree == Spec => []NoCrash
<1>1. Inv => NoCrash
  <2> SUFFICES ASSUME Inv, NEW s \in Strands
               PROVE  /\ pc[s] = "destroy" => current[thread[s]] # op[s] /\ ~operating[op[s]]
                      /\ pc[s] = "enter" => context[op[s]] # Nobody
                      /\ pc[s] \in {"switching", "exiting"} => caller[s] # Nobody
    BY DEF NoCrash
  <2>1. Known
    BY Unfold
  <2>2. pc[s] = "enter" => context[op[s]] # Nobody
    BY <2>1 DEF Known, PointInv, HandleInv, StrandInv, Working, Distinct, Strands
  <2>3. CASE pc[s] = "destroy"
    <3>1. /\ op[s] \in Fibers
          /\ alive[op[s]]
          /\ op[s] # s
          /\ op[s] # Nobody
      BY <2>1, <2>3, DestroyingPoints
         DEF Known, StrandInv, Working, Distinct, Strands
    <3>2. current[thread[s]] # op[s]
      BY <2>1, <2>3, <3>1, BlockedPoints DEF Known, IdentInv, Ident
    <3>3. ~operating[op[s]]
      BY <2>1, <2>3, <3>1, GuardedPoints, DestroyingPoints
         DEF Known, HolderInv, DestroyerInv, Calling
    <3> QED
      BY <2>3, <3>2, <3>3
  <2>4. CASE pc[s] \in {"switching", "exiting"}
    <3>1. s \in Fibers /\ alive[s] /\ pc[s] \notin Idle
      BY <2>1, <2>4, IdlePoints DEF Known, StrandInv, HandleInv, Strands
    <3>2. ~Unwinding(s)
      BY <2>1, <2>4 DEF Known, PointInv, Unwinding
    <3>3. caller[s] # Nobody
      BY <2>1, <3>1, <3>2 DEF Known, StackInv
    <3> QED
      BY <2>4, <3>3
  <2> QED
    BY <2>2, <2>3, <2>4
<1> QED
  BY <1>1, Invariance, PTL

\* keep_alive: no call, and no code on a fiber's stack, outlives the object.
THEOREM MemorySafe == Spec => []NoUseAfterFree
<1>1. Inv => NoUseAfterFree
  BY DEF Inv, IInv, StrandInv, HandleInv, NoUseAfterFree
<1> QED
  BY <1>1, Invariance, PTL

\* TotalFibers is exact between any two steps.
THEOREM TotalFibersExact == Spec => []CountExact
<1>1. Inv => CountExact
  BY DEF Inv
<1> QED
  BY <1>1, Invariance, PTL

-----------------------------------------------------------------------------
(* Fiber implements FiberLifecycle.                                        *)

\* What the abstract specification sees of object f.
Status(f) == IF alive[f] THEN state[f] ELSE "NONE"
Active(f) == alive[f] /\ operating[f]

\* One object gets a new status.
LEMMA BecomeStep ==
  ASSUME NEW f \in Fibers, NEW new,
         \A g \in Fibers : Status(g)' = IF g = f THEN new ELSE Status(g),
         \A g \in Fibers : Active(g)' = Active(g)
  PROVE  Lifecycle!Become(f, new)
BY DEF Status, Active, Lifecycle!Become

\* One object's admission changes.
LEMMA ActiveStep ==
  ASSUME NEW f \in Fibers, NEW new,
         \A g \in Fibers : Active(g)' = IF g = f THEN new ELSE Active(g),
         \A g \in Fibers : Status(g)' = Status(g)
  PROVE  /\ [g \in Fibers |-> Active(g)]' = [[g \in Fibers |-> Active(g)] EXCEPT ![f] = new]
         /\ [g \in Fibers |-> Status(g)]' = [g \in Fibers |-> Status(g)]
OBVIOUS

\* Nothing the abstract specification sees changes.
LEMMA HiddenStep ==
  ASSUME UNCHANGED <<alive, state, operating>>
  PROVE  UNCHANGED Lifecycle!vars
BY DEF Lifecycle!vars

\* make_shared<Fiber> is Create.
LEMMA ConstructRefines ==
  ASSUME Inv, NEW s \in Strands, NEW f \in Fibers, Construct(s, f)
  PROVE  Lifecycle!Create(f)
<1>1. Known
  BY Unfold
<1>2. /\ \A g \in Fibers : Status(g)' = IF g = f THEN "INIT" ELSE Status(g)
      /\ \A g \in Fibers : Active(g)' = Active(g)
  BY <1>1 DEF Known, TFlags, TState, Construct, Install, Publish, Status, Active
<1>3. Lifecycle!Become(f, "INIT")
  BY <1>2, BecomeStep
<1> QED
  BY <1>3 DEF Lifecycle!Create, Construct

\* test_and_set is Enter when it admits the call.
LEMMA EnterRefines ==
  ASSUME Inv, NEW s \in Strands, NEW f \in Fibers, NEW point, Enter(s, f, point)
  PROVE  Lifecycle!Enter(f) \/ UNCHANGED Lifecycle!vars
<1>1. Known /\ alive[f]
  BY Unfold DEF Enter, UserCall
<1>2. /\ operating' = [operating EXCEPT ![f] = TRUE]
      /\ UNCHANGED <<alive, state>>
  BY DEF Enter, status, life
<1>3. CASE operating[f]
  <2>1. UNCHANGED operating
    BY <1>1, <1>2, <1>3 DEF Known, TFlags
  <2> QED
    BY <1>2, <2>1, HiddenStep
<1>4. CASE ~operating[f]
  <2>1. /\ \A g \in Fibers : Active(g)' = IF g = f THEN TRUE ELSE Active(g)
        /\ \A g \in Fibers : Status(g)' = Status(g)
    BY <1>1, <1>2 DEF Known, TFlags, Active, Status
  <2>2. Status(f) # "NONE" /\ ~Active(f)
    BY <1>1, <1>4 DEF Known, TState, States, Status, Active
  <2> QED
    BY <2>1, <2>2, ActiveStep DEF Lifecycle!Enter, Status, Active
<1> QED
  BY <1>3, <1>4

\* resume's section under stateMutex is Start, or throws.
LEMMA ResumeCheckRefines ==
  ASSUME Inv, NEW s \in Strands, ResumeCheck(s)
  PROVE  (\E f \in Fibers : Lifecycle!Start(f)) \/ UNCHANGED Lifecycle!vars
<1>1. Known
  BY Unfold
<1>2. op[s] \in Fibers /\ alive[op[s]] /\ operating[op[s]]
  BY <1>1, GuardedPoints DEF Known, Working, StrandInv, HolderInv, ResumeCheck, Distinct, Strands
<1>3. PICK f \in Fibers : f = op[s]
  BY <1>2
<1>4. CASE Resumable(f)
  <2>1. /\ \A g \in Fibers : Status(g)' = IF g = f THEN "EXEC" ELSE Status(g)
        /\ \A g \in Fibers : Active(g)' = Active(g)
    BY <1>1, <1>2, <1>3, <1>4 DEF Known, TState, TFlags, ResumeCheck, Status, Active, life
  <2>2. Lifecycle!Become(f, "EXEC")
    BY <1>2, <1>3, <2>1, BecomeStep
  <2>3. Lifecycle!Start(f)
    BY <1>2, <1>3, <1>4, <2>2 DEF Lifecycle!Start, Resumable
  <2> QED
    BY <1>2, <1>3, <2>3
<1>5. CASE ~Resumable(f)
  BY <1>3, <1>5, HiddenStep DEF ResumeCheck, life
<1> QED
  BY <1>4, <1>5

\* Publishing the end of an activation is Stop.
LEMMA StopRefines ==
  ASSUME Inv, NEW f \in Fibers, alive[f], operating[f], state[f] = "EXEC",
         NEW to \in {"READY", "WAITING", "TERM", "EXCEPT"},
         state' = [state EXCEPT ![f] = to], UNCHANGED <<alive, operating>>
  PROVE  Lifecycle!Stop(f)
<1>1. Known
  BY Unfold
<1>2. /\ \A g \in Fibers : Status(g)' = IF g = f THEN to ELSE Status(g)
      /\ \A g \in Fibers : Active(g)' = Active(g)
  BY <1>1 DEF Known, TState, Status, Active
<1>3. Lifecycle!Become(f, to)
  BY <1>2, BecomeStep
<1> QED
  BY <1>3 DEF Lifecycle!Stop

\* The stack that runs is the one an admitted call resumed.
LEMMA Running ==
  ASSUME Inv, NEW f \in Fibers, pc[f] = "user", ~Unwinding(f)
  PROVE  alive[f] /\ operating[f] /\ state[f] = "EXEC"
<1>1. Known
  BY Unfold
<1>2. alive[f] /\ caller[f] \in Strands /\ pc[caller[f]] = "inside" /\ op[caller[f]] = f
  BY <1>1, IdlePoints DEF Known, HandleInv, StackInv, THandles
<1> QED
  BY <1>1, <1>2, GuardedPoints DEF Known, HolderInv, StateInv, Distinct

\* A yield is Stop.
LEMMA YieldRefines ==
  ASSUME Inv, NEW s \in Strands, NEW to \in {"READY", "WAITING"}, NEW reason,
         YieldPublish(s, to, reason)
  PROVE  \E f \in Fibers : Lifecycle!Stop(f)
<1>1. Known
  BY Unfold
<1>2. s \in Fibers /\ current[thread[s]] = s
  BY <1>1, BlockedPoints DEF Known, IdentInv, Ident, YieldPublish
<1>3. ~Unwinding(s)
  BY <1>1, <1>2 DEF Known, ResumerInv, YieldPublish, Unwinding
<1>4. alive[s] /\ operating[s] /\ state[s] = "EXEC"
  BY <1>2, <1>3, Running DEF YieldPublish
<1>5. state' = [state EXCEPT ![s] = to] /\ UNCHANGED <<alive, operating>>
  BY <1>2 DEF YieldPublish, Publish, life
<1> QED
  BY <1>2, <1>4, <1>5, StopRefines

\* The end of run is Stop.
LEMMA FinishRefines ==
  ASSUME Inv, NEW x \in Fibers, NEW how \in {"TERM", "EXCEPT"}, Finish(x, how)
  PROVE  Lifecycle!Stop(x)
<1>1. alive[x] /\ operating[x] /\ state[x] = "EXEC"
  BY Running DEF Finish
<1>2. state' = [state EXCEPT ![x] = how] /\ UNCHANGED <<alive, operating>>
  BY DEF Finish, Publish, life
<1> QED
  BY <1>1, <1>2, StopRefines

\* ~OperationGuard is Leave: the object does not run any more.
LEMMA LeaveRefines ==
  ASSUME Inv, NEW s \in Strands, Leave(s)
  PROVE  \E f \in Fibers : Lifecycle!Leave(f)
<1>1. Known
  BY Unfold
<1>2. pc[s] = "leave" /\ op[s] \in Fibers /\ alive[op[s]] /\ operating[op[s]]
  BY <1>1, GuardedPoints DEF Known, Working, StrandInv, HolderInv, Leave, Distinct, Strands
<1>3. PICK f \in Fibers : f = op[s]
  BY <1>2
<1>4. state[f] # "EXEC"
  BY <1>1, <1>2, <1>3, GuardedPoints DEF Known, HolderInv, StateInv
<1>5. /\ \A g \in Fibers : Active(g)' = IF g = f THEN FALSE ELSE Active(g)
      /\ \A g \in Fibers : Status(g)' = Status(g)
  BY <1>1, <1>2, <1>3 DEF Known, TFlags, Leave, Clear, Active, Status, status, life
<1>6. Active(f) /\ Status(f) # "EXEC"
  BY <1>2, <1>3, <1>4 DEF Active, Status
<1>7. Lifecycle!Leave(f)
  BY <1>2, <1>3, <1>5, <1>6, ActiveStep DEF Lifecycle!Leave, Active, Status
<1> QED
  BY <1>2, <1>3, <1>7

\* wake is Wake, wherever the stack has got to.
LEMMA WakeRefines ==
  ASSUME Inv, NEW s \in Strands, NEW f \in Fibers, Wake(s, f)
  PROVE  Lifecycle!Wake(f)
<1>1. Known
  BY Unfold
<1>2. /\ \A g \in Fibers : Status(g)' = IF g = f THEN "READY" ELSE Status(g)
      /\ \A g \in Fibers : Active(g)' = Active(g)
  BY <1>1 DEF Known, TState, Wake, UserCall, Status, Active, life
<1>3. Lifecycle!Become(f, "READY")
  BY <1>2, BecomeStep
<1> QED
  BY <1>3 DEF Lifecycle!Wake, Wake, UserCall

\* reset's store of INIT is Renew; its other stores are not visible.
LEMMA ResetRefines ==
  ASSUME Inv, NEW s \in Strands, ResetStore(s)
  PROVE  (\E f \in Fibers : Lifecycle!Renew(f)) \/ UNCHANGED Lifecycle!vars
<1>1. Known
  BY Unfold
<1>2. /\ op[s] \in Fibers
      /\ alive[op[s]]
      /\ operating[op[s]]
      /\ state[op[s]] \in {"TERM", "EXCEPT", "INIT"}
  BY <1>1, GuardedPoints
     DEF Known, Working, StrandInv, HolderInv, PointInv, ResetStore, Distinct, Strands
<1>3. PICK f \in Fibers : f = op[s]
  BY <1>2
<1>4. UNCHANGED <<alive, operating>>
  BY DEF ResetStore, life
<1>5. CASE UNCHANGED state
  BY <1>4, <1>5, HiddenStep
<1>6. CASE state' = [state EXCEPT ![f] = "INIT"] /\ state[f] = "INIT"
  <2>1. UNCHANGED state
    BY <1>1, <1>6 DEF Known, TState
  <2> QED
    BY <1>4, <2>1, HiddenStep
<1>7. CASE state' = [state EXCEPT ![f] = "INIT"] /\ state[f] # "INIT"
  <2>1. /\ \A g \in Fibers : Status(g)' = IF g = f THEN "INIT" ELSE Status(g)
        /\ \A g \in Fibers : Active(g)' = Active(g)
    BY <1>1, <1>2, <1>3, <1>4, <1>7 DEF Known, TState, Status, Active
  <2>2. Lifecycle!Become(f, "INIT")
    BY <1>2, <1>3, <2>1, BecomeStep
  <2>3. Lifecycle!Renew(f)
    BY <1>2, <1>3, <1>7, <2>2 DEF Lifecycle!Renew
  <2> QED
    BY <2>3
<1> QED
  BY <1>3, <1>5, <1>6, <1>7 DEF ResetStore

\* The end of ~Fiber is Destroy: no call is admitted, nothing runs.
LEMMA DestroyRefines ==
  ASSUME Inv, NEW s \in Strands, DestroyEnd(s)
  PROVE  \E f \in Fibers : Lifecycle!Destroy(f)
<1>1. Known
  BY Unfold
<1>2. pc[s] = "destroyed" /\ op[s] \in Fibers /\ alive[op[s]] /\ state[op[s]] # "EXEC"
  BY <1>1 DEF Known, Working, StrandInv, PointInv, DestroyEnd, Distinct, Strands
<1>3. PICK f \in Fibers : f = op[s]
  BY <1>2
<1>4. ~operating[f]
  BY <1>1, <1>2, <1>3, GuardedPoints, DestroyingPoints DEF Known, HolderInv, DestroyerInv, Calling
<1>5. /\ \A g \in Fibers : Status(g)' = IF g = f THEN "NONE" ELSE Status(g)
      /\ \A g \in Fibers : Active(g)' = Active(g)
  BY <1>1, <1>2, <1>3, <1>4 DEF Known, TFlags, DestroyEnd, Status, Active, status
<1>6. Lifecycle!Become(f, "NONE")
  BY <1>2, <1>3, <1>5, BecomeStep
<1>7. Status(f) \notin {"NONE", "EXEC"}
  BY <1>1, <1>2, <1>3 DEF Known, TState, States, Status
<1>8. Lifecycle!Destroy(f)
  BY <1>2, <1>3, <1>4, <1>6, <1>7 DEF Lifecycle!Destroy, Status
<1> QED
  BY <1>2, <1>3, <1>8

\* Fiber implements FiberLifecycle: every step is a step of the abstract
\* specification or invisible to it.
THEOREM Refinement == Spec => Refines
<1>1. Init => Lifecycle!Init
  BY DEF Init, Lifecycle!Init
<1>2. Inv /\ [Next]_vars => [Lifecycle!Next]_(Lifecycle!vars)
  <2> SUFFICES ASSUME Inv, [Next]_vars
               PROVE  Lifecycle!Next \/ UNCHANGED Lifecycle!vars
    OBVIOUS
  <2> USE DEF Lifecycle!Next
  <2>1. ASSUME NEW s \in Strands, Library(s)
        PROVE  Lifecycle!Next \/ UNCHANGED Lifecycle!vars
    <3>1. CASE ResumeCheck(s)
      BY <3>1, ResumeCheckRefines
    <3>2. CASE Leave(s)
      BY <3>2, LeaveRefines
    <3>3. CASE ResetStore(s)
      BY <3>3, ResetRefines
    <3>4. CASE DestroyEnd(s)
      BY <3>4, DestroyRefines
    <3>5. CASE ResumeSwitch(s) \/ ResumeLand(s) \/ Release(s)
      BY <3>5, HiddenStep DEF ResumeSwitch, ResumeLand, Release, status, life
    <3>6. CASE YieldSwitch(s) \/ ExitSwitch(s)
      BY <3>6, HiddenStep DEF YieldSwitch, ExitSwitch, JumpToCaller, Keep, status, life
    <3>7. CASE ResetVerify(s) \/ ResetClear(s) \/ ResetInstall(s) \/ ResetDone(s)
      BY <3>7, HiddenStep DEF ResetVerify, ResetClear, ResetInstall, ResetDone, status, life
    <3>8. CASE DestroyBegin(s)
      BY <3>8, HiddenStep DEF DestroyBegin, status, life
    <3> QED
      BY <2>1, <3>1, <3>2, <3>3, <3>4, <3>5, <3>6, <3>7, <3>8 DEF Library
  <2>2. ASSUME NEW s \in Strands, User(s)
        PROVE  Lifecycle!Next \/ UNCHANGED Lifecycle!vars
    <3>1. CASE GetThis(s)
      BY <3>1, HiddenStep DEF GetThis, status
    <3>2. CASE YieldToReady(s) \/ YieldToHold(s)
      BY <3>2, YieldRefines DEF YieldToReady, YieldToHold
    <3>3. ASSUME NEW f \in Fibers, Construct(s, f)
          PROVE  Lifecycle!Next
      BY <3>3, ConstructRefines
    <3>4. ASSUME NEW f \in Fibers, DropOwner(s, f)
          PROVE  UNCHANGED Lifecycle!vars
      BY <3>4, HiddenStep DEF DropOwner, status
    <3>5. ASSUME NEW f \in Fibers, ResumeEnter(s, f) \/ ResetEnter(s, f)
          PROVE  Lifecycle!Next \/ UNCHANGED Lifecycle!vars
      BY <3>5, EnterRefines DEF ResumeEnter, ResetEnter
    <3>6. ASSUME NEW f \in Fibers, Wake(s, f)
          PROVE  Lifecycle!Next
      BY <3>6, WakeRefines
    <3> QED
      BY <2>2, <3>1, <3>2, <3>3, <3>4, <3>5, <3>6 DEF User
  <2>3. ASSUME NEW x \in Fibers, Run(x)
        PROVE  Lifecycle!Next \/ UNCHANGED Lifecycle!vars
    <3>1. CASE FinishTerm(x) \/ FinishExcept(x)
      BY <3>1, FinishRefines DEF FinishTerm, FinishExcept
    <3>2. CASE FinishThrow(x) \/ UnwindEnd(x)
      BY <3>2, HiddenStep DEF FinishThrow, UnwindEnd, status, life
    <3> QED
      BY <2>3, <3>1, <3>2 DEF Run
  <2>4. CASE UNCHANGED vars
    BY <2>4, HiddenStep DEF vars, status, life
  <2> QED
    BY <2>1, <2>2, <2>3, <2>4 DEF Next
<1> QED
  BY <1>1, <1>2, Invariance, PTL DEF Spec, Refines, Lifecycle!Spec
=============================================================================
