-------------------------- MODULE KernelDispatcher --------------------------
(***************************************************************************)
(* The kernel dispatcher (src/copaw/kernel/dispatcher.py) with the task    *)
(* lifecycle (kernel/lifecycle.py) and the decision requests of the store  *)
(* (kernel/persistence.py).                                                *)
(*                                                                         *)
(* Every dispatcher method but one is synchronous: on the event loop it is *)
(* one atomic step, including the whole cascade over the task forest.  The *)
(* exception is execute_task, which is suspended while the capability      *)
(* runs; runs[t] counts the suspended calls for t.                         *)
(***************************************************************************)
EXTENDS Naturals, FiniteSets

CONSTANTS
  Task,            \* identifiers of kernel tasks
  None,            \* "no parent"
  Parent,          \* parent_task_id of each task, or None
  Above,           \* the strict ancestors of each task
  Explicit,        \* capability system:dispatch_query or dispatch_command
  Gated,           \* risk level that must be confirmed
  AutoApproved,    \* gated, but the main brain approves it itself
  ClosesOnApproval,\* no capability, payload auto_complete_on_approval
  Retried,         \* identifier derived from the client's request identifier
  Unattended,      \* the submitter or approver does not execute the task
  Faults,          \* which of "crash", "abandon", "recovery" may happen
  MaxRuns          \* bound on concurrent execute_task calls of one task

ASSUME ForestAssumption ==
  /\ None \notin Task
  /\ Parent \in [Task -> Task \cup {None}]
  /\ Above \in [Task -> SUBSET Task]
  /\ \A t \in Task : t \notin Above[t]
  /\ \A t \in Task :
       Above[t] = IF Parent[t] = None THEN {}
                  ELSE {Parent[t]} \cup Above[Parent[t]]
  /\ \A t \in Task : \A u \in Above[t] : Above[u] \subseteq Above[t]

\* Every non-empty set of tasks has one that lies below no other of the set,
\* as in every forest whose branches are finite.
ASSUME RootsAssumption ==
  \A S \in SUBSET Task : S # {} => \E v \in S : Above[v] \cap S = {}

\* list_child_tasks returns 200 children of a task: none has more.
ASSUME ChildrenAssumption ==
  \A t \in Task : LET C == {c \in Task : Parent[c] = t}
                  IN  IsFiniteSet(C) /\ Cardinality(C) <= 200

ASSUME KindAssumption ==
  /\ Explicit \subseteq Task /\ Gated \subseteq Task /\ Retried \subseteq Task
  /\ AutoApproved \subseteq Gated /\ Unattended \subseteq Task
  /\ ClosesOnApproval \subseteq Gated \ Explicit
  /\ Faults \subseteq {"crash", "abandon", "recovery"}
  /\ MaxRuns \in Nat \ {0}

VARIABLES
  phase,     \* the persisted phase of each task
  decision,  \* status of the latest decision request of each task
  deferred,  \* a closeout of the task is remembered until its children end
  runs       \* execute_task calls awaiting the capability

vars == <<phase, decision, deferred, runs>>

-----------------------------------------------------------------------------
(* Phases and decision statuses.                                           *)

TerminalPhases == {"completed", "failed", "cancelled"}
LivePhases     == {"risk-check", "waiting-confirm", "executing"}
Phases         == {"absent"} \cup LivePhases \cup TerminalPhases

PendingStatuses  == {"open", "reviewing"}
DecisionStatuses == {"none", "approved", "rejected", "expired"} \cup PendingStatuses

Children(t) == {c \in Task : Parent[c] = t}

\* The persisted columns hold values of their enumerations, and the number of
\* suspended calls of a task stays within its bound.
TypeOK ==
  /\ phase \in [Task -> Phases]
  /\ decision \in [Task -> DecisionStatuses]
  /\ deferred \in [Task -> BOOLEAN]
  /\ runs \in [Task -> 0..MaxRuns]

Init ==
  /\ phase = [t \in Task |-> "absent"]
  /\ decision = [t \in Task |-> "none"]
  /\ deferred = [t \in Task |-> FALSE]
  /\ runs = [t \in Task |-> 0]

-----------------------------------------------------------------------------
(* The cascade that follows every terminal transition.                     *)

\* Mutant: only the children are cancelled, not the whole subtree.
LiveChildrenOnly(ph, t) == {d \in Children(t) : ph[d] \in LivePhases}

\* The live tasks below t that are reached from t through live tasks only.
LiveBelow(ph, t) ==
  {d \in Task : /\ t \in Above[d]
                /\ ph[d] \in LivePhases
                /\ \A m \in Above[d] : t \in Above[m] => ph[m] \in LivePhases}

\* The ancestors of t from its parent up to and including u.
PathUp(t, u) == {v \in Above[t] : v = u \/ u \in Above[v]}

\* Mutant: only the child that ended last is looked at.
LastChildSoured(ph, t, u) == ph[t] \in {"failed", "cancelled"}

\* Something on the way from t to u ended badly, so u may not complete.
Soured(ph, t, u) ==
  \/ ph[t] \in {"failed", "cancelled"}
  \/ \E v \in PathUp(t, u) : \E c \in Children(v) : ph[c] \in {"failed", "cancelled"}

\* Mutant: a deferred closeout is never replayed.
NeverReplayed(ph, t, v) == v \notin Explicit

\* v may close once its children have: a parent whose capability dispatches
\* queries waits for an explicit closeout, and only a clean one is replayed.
MayClose(ph, t, v) == v \notin Explicit \/ (deferred[v] /\ ~Soured(ph, t, v))

\* Mutant: the parent is not reconciled.
NoAncestor(ph, t) == {}

\* The ancestors of t that its closing closes: each is executing and has no
\* live child left but the one that closes just before it.
ClosedAbove(ph, t) ==
  {u \in Above[t] :
     \A v \in PathUp(t, u) :
       /\ ph[v] = "executing"
       /\ \A c \in Children(v) : ph[c] \in LivePhases => c \in Above[t]
       /\ MayClose(ph, t, v)}

\* The phases after t has closed with the given outcome.
Settled(ph, t, outcome) ==
  LET below == IF outcome = "completed" THEN {} ELSE LiveBelow(ph, t)
      mid   == [u \in Task |-> IF u = t THEN outcome
                               ELSE IF u \in below THEN "cancelled" ELSE ph[u]]
      above == ClosedAbove(mid, t)
  IN  [u \in Task |-> IF u \notin above THEN mid[u]
                      ELSE IF Soured(mid, t, u) THEN "failed" ELSE "completed"]

\* Mutant: closing a task leaves its decision request open.
DecisionsKept(ph, dec, after) == dec

\* Tasks that fail or are cancelled reject their pending decision request;
\* every task that closes forgets its deferred closeout.
SettledDecisions(ph, dec, after) ==
  [u \in Task |-> IF /\ after[u] # ph[u] /\ after[u] # "completed"
                    /\ dec[u] \in PendingStatuses
                 THEN "rejected" ELSE dec[u]]

SettledDeferrals(ph, after) == [u \in Task |-> deferred[u] /\ after[u] = ph[u]]

\* Close t, starting from the phases ph and the decisions dec of this step.
Close(ph, dec, t, outcome) ==
  LET after == Settled(ph, t, outcome)
  IN  /\ phase' = after
      /\ decision' = SettledDecisions(ph, dec, after)
      /\ deferred' = SettledDeferrals(ph, after)

HasActiveChild(t) == \E c \in Children(t) : phase[c] \in LivePhases

\* Mutant: the lifecycle does not check that the task executes.
CompleteUnchecked(ph, dec, t) ==
  \/ /\ HasActiveChild(t)
     /\ phase' = ph /\ decision' = dec
     /\ deferred' = [deferred EXCEPT ![t] = @ \/ t \in Explicit]
  \/ ~HasActiveChild(t) /\ Close(ph, dec, t, "completed")

\* complete_task on a live task, whose phase in this step is ph[t].
Complete(ph, dec, t) ==
  \/ /\ HasActiveChild(t)
     /\ phase' = ph /\ decision' = dec
     /\ deferred' = [deferred EXCEPT ![t] = @ \/ t \in Explicit]
  \/ /\ ~HasActiveChild(t) /\ ph[t] = "executing"
     /\ Close(ph, dec, t, "completed")
  \/ /\ ~HasActiveChild(t) /\ ph[t] # "executing"       \* lifecycle raises
     /\ phase' = ph /\ decision' = dec
     /\ deferred' = [deferred EXCEPT ![t] = FALSE]

\* Mutant: fail_task and cancel_task do not look for an earlier outcome.
FinishAgain(t, outcome) ==
  \/ outcome = "completed" /\ phase[t] \in TerminalPhases
       /\ UNCHANGED <<phase, decision, deferred>>
  \/ outcome = "completed" /\ phase[t] \in LivePhases /\ Complete(phase, decision, t)
  \/ outcome # "completed" /\ Close(phase, decision, t, outcome)

\* complete_task, fail_task or cancel_task: idempotent on a terminal task.
Finish(t, outcome) ==
  \/ /\ phase[t] \in TerminalPhases
     /\ UNCHANGED <<phase, decision, deferred>>
  \/ /\ phase[t] \in LivePhases /\ outcome = "completed"
     /\ Complete(phase, decision, t)
  \/ /\ phase[t] \in LivePhases /\ outcome # "completed"
     /\ Close(phase, decision, t, outcome)

-----------------------------------------------------------------------------
(* Admission.                                                              *)

MaySubmit(t) ==
  /\ phase[t] = "absent" \/ t \in Retried
  /\ Parent[t] # None => phase[Parent[t]] # "absent"

\* Mutant: a child is admitted whatever the phase of its parent.
AnyParent(t) == TRUE

ParentOpen(t) == Parent[t] # None => phase[Parent[t]] \notin TerminalPhases

\* submit, refused: the parent is terminal, or governance blocks the admission
\* (which it may do to any task).
SubmitRefused(t) ==
  /\ MaySubmit(t)
  /\ Close([phase EXCEPT ![t] = "risk-check"], decision, t, "cancelled")
  /\ UNCHANGED runs

Start(t) == [runs EXCEPT ![t] = @ + 1]

\* submit, admitted to executing; the caller then executes at once unless
\* it is unattended.
SubmitAdmitted(t) ==
  /\ MaySubmit(t) /\ ParentOpen(t)
  /\ t \in Gated => t \in AutoApproved
  /\ phase' = [phase EXCEPT ![t] = "executing"]
  /\ decision' = [decision EXCEPT ![t] = IF t \in Gated THEN "approved" ELSE @]
  /\ deferred' = [deferred EXCEPT ![t] = FALSE]
  /\ IF t \in Unattended THEN UNCHANGED runs
     ELSE runs[t] < MaxRuns /\ runs' = Start(t)

\* submit, held for confirmation; a pending decision request is reused.
SubmitHeld(t) ==
  /\ MaySubmit(t) /\ ParentOpen(t)
  /\ t \in Gated \ AutoApproved
  /\ phase' = [phase EXCEPT ![t] = "waiting-confirm"]
  /\ decision' = [decision EXCEPT ![t] = IF @ \in PendingStatuses THEN @ ELSE "open"]
  /\ deferred' = [deferred EXCEPT ![t] = FALSE]
  /\ UNCHANGED runs

-----------------------------------------------------------------------------
(* Decisions.                                                              *)

PendingDecision(t) == decision[t] \in PendingStatuses /\ phase[t] = "waiting-confirm"

MarkReviewing(t) ==
  /\ decision[t] = "open"
  /\ decision' = [decision EXCEPT ![t] = "reviewing"]
  /\ UNCHANGED <<phase, deferred, runs>>

\* approve_decision: release the task, then execute it or close it.
Approve(t) ==
  /\ PendingDecision(t)
  /\ LET ph  == [phase EXCEPT ![t] = "executing"]
         dec == [decision EXCEPT ![t] = "approved"]
     IN  \/ /\ t \notin Unattended \cup ClosesOnApproval
            /\ runs[t] < MaxRuns /\ runs' = Start(t)
            /\ phase' = ph /\ decision' = dec /\ UNCHANGED deferred
         \/ /\ t \in ClosesOnApproval
            /\ Complete(ph, dec, t) /\ UNCHANGED runs
         \/ /\ t \in Unattended \ ClosesOnApproval
            /\ phase' = ph /\ decision' = dec /\ UNCHANGED <<deferred, runs>>

Reject(t) ==
  /\ PendingDecision(t)
  /\ Close(phase, decision, t, "cancelled")
  /\ UNCHANGED runs

\* Mutant: recovery cancels the held task and leaves the request as it is.
RecoverTaskOnly(overdue) ==
  /\ "recovery" \in Faults
  /\ overdue # {} /\ \A t \in overdue : decision[t] \in PendingStatuses
  /\ phase' = [t \in Task |->
       IF t \in overdue /\ phase[t] = "waiting-confirm" THEN "cancelled" ELSE phase[t]]
  /\ UNCHANGED <<decision, deferred, runs>>

\* Startup recovery expires overdue decisions.  expire_decision cancels the
\* held task through the lifecycle alone, so no cascade follows; when it
\* raises because the task is not held, only the decision is expired.
Recover(overdue) ==
  /\ "recovery" \in Faults
  /\ overdue # {} /\ \A t \in overdue : decision[t] \in PendingStatuses
  /\ phase' = [t \in Task |->
       IF t \in overdue /\ phase[t] = "waiting-confirm" THEN "cancelled" ELSE phase[t]]
  /\ decision' = [t \in Task |-> IF t \in overdue THEN "expired" ELSE decision[t]]
  /\ UNCHANGED <<deferred, runs>>

-----------------------------------------------------------------------------
(* Execution.                                                              *)

\* execute_task up to the await: only the phase is checked, so a task may be
\* executed by several callers at once.
Execute(t) ==
  /\ phase[t] = "executing" /\ runs[t] < MaxRuns
  /\ runs' = Start(t)
  /\ UNCHANGED <<phase, decision, deferred>>

\* execute_task after the await: the capability succeeded, failed, timed out
\* or reported a cancellation.
Return(t, outcome) ==
  /\ runs[t] > 0
  /\ runs' = [runs EXCEPT ![t] = @ - 1]
  /\ Finish(t, outcome)

\* A caller closes the task without execute_task (turn executor, cleanup).
CloseByCaller(t, outcome) ==
  /\ phase[t] \in LivePhases
  /\ Finish(t, outcome)
  /\ UNCHANGED runs

\* The awaiting coroutine is cancelled: CancelledError passes every handler.
Abandon(t) ==
  /\ "abandon" \in Faults
  /\ runs[t] > 0
  /\ runs' = [runs EXCEPT ![t] = @ - 1]
  /\ UNCHANGED <<phase, decision, deferred>>

\* The process stops and starts again: the suspended calls are lost, the
\* tasks and the decisions are read back from the store.
Crash ==
  /\ "crash" \in Faults
  /\ \E t \in Task : runs[t] > 0
  /\ runs' = [t \in Task |-> 0]
  /\ UNCHANGED <<phase, decision, deferred>>

-----------------------------------------------------------------------------
Decide(t) == Approve(t) \/ Reject(t)

ReturnSome(t) == \E outcome \in TerminalPhases : Return(t, outcome)

Next ==
  \/ \E t \in Task :
       \/ SubmitRefused(t) \/ SubmitAdmitted(t) \/ SubmitHeld(t)
       \/ MarkReviewing(t) \/ Decide(t)
       \/ Execute(t) \/ ReturnSome(t) \/ Abandon(t)
       \/ \E outcome \in TerminalPhases : CloseByCaller(t, outcome)
  \/ \E overdue \in SUBSET Task : Recover(overdue)
  \/ Crash

Spec == Init /\ [][Next]_vars

(***************************************************************************)
(* Fairness.  execution_timeout_seconds bounds every await of a            *)
(* capability, so a suspended execute_task returns; that a held task is    *)
(* eventually decided is assumed of the operator.  Nothing obliges a       *)
(* caller to submit or to execute.                                         *)
(***************************************************************************)
Fairness == \A t \in Task : WF_vars(ReturnSome(t)) /\ WF_vars(Decide(t))

FairSpec == Spec /\ Fairness

-----------------------------------------------------------------------------
(* Properties.                                                             *)

\* A task waits for confirmation exactly while its decision request is
\* pending: whatever closes, resubmits or releases the task settles the
\* request with it, so the operator's inbox never shows a dead request and
\* no held task is without one (dispatcher.submit, confirm, fail, cancel).
HeldIffPending ==
  \A t \in Task : decision[t] \in PendingStatuses <=> phase[t] = "waiting-confirm"

\* A task whose risk level must be confirmed executes or completes only under
\* an approved decision, through retries, stale calls and restarts.
ApprovedBeforeExecuting ==
  \A t \in Gated : phase[t] \in {"executing", "completed"} => decision[t] = "approved"

\* No live task is left under a terminal parent: a failed or cancelled parent
\* takes its subtree with it, a parent completes after its children, and a
\* child is refused once its parent is terminal (dispatcher 699-745).
NoOrphan ==
  \A t \in Task :
    Parent[t] # None /\ phase[t] \in LivePhases => phase[Parent[t]] \notin TerminalPhases

\* The first outcome of a task stands: calls that return late, in any number,
\* cannot change it.  Only a client retry under the same identifier may.
FirstOutcomeStands ==
  [][\A t \in Task \ Retried :
       phase[t] \in TerminalPhases => phase'[t] = phase[t]]_vars

\* When the last live child of an executing parent ends, a parent that needs
\* no explicit closeout ends in the same step, and whichever parent completes
\* in that step has no failed or cancelled child.
ParentFollowsLastChild ==
  [][\A p \in Task :
       phase[p] = "executing" /\ HasActiveChild(p) /\ ~HasActiveChild(p)' =>
         /\ p \notin Explicit => phase'[p] \in TerminalPhases
         /\ phase'[p] = "completed" =>
              \A c \in Children(p) : phase'[c] \notin {"failed", "cancelled"}]_vars

\* A closeout deferred by a dispatch_query parent is carried out in the step
\* in which its last child ends, when every child completed.
CleanCloseoutReplayed ==
  [][\A p \in Task :
       /\ phase[p] = "executing" /\ deferred[p] /\ HasActiveChild(p)
       /\ \A c \in Children(p) : phase'[c] \in {"absent", "completed"}
       => phase'[p] = "completed"]_vars

\* Every admitted task ends, if calls return and operators decide, unless a
\* decision below it expires: expire_decision closes the held task and never
\* reconciles its parent, and a closeout refused before is not made up for.
EveryTaskEnds ==
  \A t \in Task :
    phase[t] \in LivePhases ~>
      \/ phase[t] \in TerminalPhases
      \/ \E d \in Task : t \in Above[d] /\ decision[d] = "expired"

-----------------------------------------------------------------------------
(* The forest that the dispatcher implements.                              *)

StatusOf(t) ==
  CASE phase[t] = "absent" -> "none"
    [] phase[t] \in LivePhases -> "open"
    [] phase[t] = "completed" -> "done"
    [] OTHER -> "stopped"

Forest == INSTANCE TaskForest WITH status <- [t \in Task |-> StatusOf(t)]

\* Whatever mixture of decisions, calls, retries and restarts occurs, each
\* step closes one task and what follows from it, and nothing else.
ImplementsForest == Forest!Spec
=============================================================================
