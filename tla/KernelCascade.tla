---------------------------- MODULE KernelCascade ----------------------------
(***************************************************************************)
(* The terminal cascade of kernel/dispatcher.py as the code runs it: a     *)
(* recursion between cancel_task, fail_task, complete_task and             *)
(* _after_terminal_transition, over one tree state.  KernelDispatcher has  *)
(* the same cascade in closed form; SettledAgrees compares the two on      *)
(* every reachable state.                                                  *)
(*                                                                         *)
(* AfterTerminal is the one recursive function.  The methods that it calls *)
(* and that call it back take it as their argument `after`.                *)
(***************************************************************************)
EXTENDS KernelDispatcher, FiniteSetsExt

\* The store holds finitely many tasks.
ASSUME FiniteAssumption == IsFiniteSet(Task)

\* A tree state: the three persisted fields that a cascade reads and writes.
TreeState == [phase    : [Task -> Phases],
              decision : [Task -> DecisionStatuses],
              deferred : [Task -> BOOLEAN]]

Now == [phase |-> phase, decision |-> decision, deferred |-> deferred]

Ended(s, t) == s.phase[t] \in TerminalPhases

\* The task's own part of a terminal transition.
Record(s, t, outcome) ==
  [phase    |-> [s.phase EXCEPT ![t] = outcome],
   deferred |-> [s.deferred EXCEPT ![t] = FALSE],
   decision |-> [s.decision EXCEPT ![t] =
                   IF outcome # "completed" /\ @ \in PendingStatuses
                   THEN "rejected" ELSE @]]

FailTask(after, s, t) ==
  IF Ended(s, t) THEN s ELSE after[Record(s, t, "failed"), t]

CancelTask(after, s, t) ==
  IF Ended(s, t) THEN s ELSE after[Record(s, t, "cancelled"), t]

CompleteTask(after, s, t) ==
  IF Ended(s, t) THEN s
  ELSE IF \E c \in Children(t) : s.phase[c] \in LivePhases
  THEN [s EXCEPT !.deferred[t] = @ \/ t \in Explicit]
  ELSE IF s.phase[t] # "executing" THEN [s EXCEPT !.deferred[t] = FALSE]
  ELSE after[Record(s, t, "completed"), t]

\* _list_child_tasks: the children that have been submitted.
ChildTasks(s, t) == {c \in Children(t) : s.phase[c] # "absent"}

\* The loop over the children, in some order.
CancelEach(after, s, tasks) ==
  FoldSet(LAMBDA c, acc : CancelTask(after, acc, c), s, tasks)

CancelLiveChildSubtree(after, s, t) ==
  IF s.phase[t] = "completed" THEN s ELSE CancelEach(after, s, ChildTasks(s, t))

ReconcileParent(after, s, t) ==
  LET p == Parent[t]
  IN  IF \/ p = None
         \/ s.phase[p] # "executing"
         \/ \E c \in ChildTasks(s, p) : ~Ended(s, c)
      THEN s
      ELSE IF \E c \in ChildTasks(s, p) : s.phase[c] \in {"failed", "cancelled"}
      THEN IF p \in Explicit THEN s ELSE FailTask(after, s, p)
      ELSE IF p \in Explicit /\ ~s.deferred[p] THEN s
      ELSE CompleteTask(after, s, p)

\* The tree states and tasks that _after_terminal_transition is called with:
\* the end of the task is already recorded.
Closing == {x \in TreeState \X Task : Ended(x[1], x[2])}

AfterTerminal[x \in Closing] ==
  ReconcileParent(AfterTerminal, CancelLiveChildSubtree(AfterTerminal, x[1], x[2]), x[2])

-----------------------------------------------------------------------------
\* The recursion of the code and the closed form of KernelDispatcher give the
\* same tree in every reachable state, for every live task and
\* outcome: the closed form loses no ancestor, no descendant, no order.
SettledAgrees ==
  \A t \in {u \in Task : phase[u] \in LivePhases} :
    /\ \A s \in {FailTask(AfterTerminal, Now, t), CancelTask(AfterTerminal, Now, t)} :
         LET after == Settled(phase, t, s.phase[t])
         IN  s = [phase |-> after,
                  decision |-> SettledDecisions(phase, decision, after),
                  deferred |-> SettledDeferrals(phase, after)]
    /\ HasActiveChild(t) \/ phase[t] # "executing"
         \/ LET after == Settled(phase, t, "completed")
             IN  CompleteTask(AfterTerminal, Now, t) =
                   [phase |-> after,
                    decision |-> SettledDecisions(phase, decision, after),
                    deferred |-> SettledDeferrals(phase, after)]
=============================================================================
