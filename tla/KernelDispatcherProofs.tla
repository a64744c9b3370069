----------------------- MODULE KernelDispatcherProofs -----------------------
(* Theorems about the kernel dispatcher, for every forest of tasks, every     *)
(* assignment of kinds to tasks and every set of faults.                      *)
EXTENDS KernelDispatcher, TLAPS

-----------------------------------------------------------------------------
(* Type correctness.                                                         *)

\* A cascade maps phases to phases.
LEMMA SettledType ==
  ASSUME NEW ph \in [Task -> Phases], NEW t \in Task, NEW outcome \in TerminalPhases
  PROVE  Settled(ph, t, outcome) \in [Task -> Phases]
  BY DEF Settled, Phases, TerminalPhases, LivePhases

LEMMA CloseType ==
  ASSUME NEW ph \in [Task -> Phases], NEW dec \in [Task -> DecisionStatuses],
         NEW t \in Task, NEW outcome \in TerminalPhases,
         TypeOK, Close(ph, dec, t, outcome)
  PROVE  /\ phase' \in [Task -> Phases]
         /\ decision' \in [Task -> DecisionStatuses]
         /\ deferred' \in [Task -> BOOLEAN]
<1> DEFINE after == Settled(ph, t, outcome)
<1>1. after \in [Task -> Phases]
  BY SettledType
<1>2. phase' = after /\ decision' = SettledDecisions(ph, dec, after)
      /\ deferred' = SettledDeferrals(ph, after)
  BY DEF Close
<1> HIDE DEF after
<1>3. SettledDecisions(ph, dec, after) \in [Task -> DecisionStatuses]
  BY DEF SettledDecisions, DecisionStatuses
<1>4. SettledDeferrals(ph, after) \in [Task -> BOOLEAN]
  BY DEF SettledDeferrals, TypeOK
<1> QED
  BY <1>1, <1>2, <1>3, <1>4

LEMMA CompleteType ==
  ASSUME NEW ph \in [Task -> Phases], NEW dec \in [Task -> DecisionStatuses],
         NEW t \in Task, TypeOK, Complete(ph, dec, t)
  PROVE  /\ phase' \in [Task -> Phases]
         /\ decision' \in [Task -> DecisionStatuses]
         /\ deferred' \in [Task -> BOOLEAN]
<1>1. CASE Close(ph, dec, t, "completed")
  BY <1>1, CloseType DEF TerminalPhases
<1>2. CASE /\ phase' = ph /\ decision' = dec
           /\ deferred' = [deferred EXCEPT ![t] = @ \/ t \in Explicit]
  BY <1>2 DEF TypeOK
<1>3. CASE /\ phase' = ph /\ decision' = dec
           /\ deferred' = [deferred EXCEPT ![t] = FALSE]
  BY <1>3 DEF TypeOK
<1> QED
  BY <1>1, <1>2, <1>3 DEF Complete

LEMMA FinishType ==
  ASSUME NEW t \in Task, NEW outcome \in TerminalPhases, TypeOK, Finish(t, outcome)
  PROVE  /\ phase' \in [Task -> Phases]
         /\ decision' \in [Task -> DecisionStatuses]
         /\ deferred' \in [Task -> BOOLEAN]
<1>1. CASE UNCHANGED <<phase, decision, deferred>>
  BY <1>1 DEF TypeOK
<1>2. CASE Complete(phase, decision, t)
  BY <1>2, CompleteType DEF TypeOK
<1>3. CASE Close(phase, decision, t, outcome)
  BY <1>3, CloseType DEF TypeOK
<1> QED
  BY <1>1, <1>2, <1>3 DEF Finish

\* Every variable keeps its type, through every cascade and fault.
THEOREM TypeCorrect == Spec => []TypeOK
<1>1. Init => TypeOK
  BY KindAssumption DEF Init, TypeOK, Phases, DecisionStatuses
<1>2. TypeOK /\ [Next]_vars => TypeOK'
  <2> SUFFICES ASSUME TypeOK, [Next]_vars PROVE TypeOK'
    OBVIOUS
  <2> USE DEF TypeOK
  <2> MaxRuns \in Nat \ {0}
    BY KindAssumption
  <2>1. ASSUME NEW t \in Task, SubmitRefused(t) PROVE TypeOK'
    <3>1. [phase EXCEPT ![t] = "risk-check"] \in [Task -> Phases]
      BY DEF Phases, LivePhases
    <3> QED
      BY <2>1, <3>1, CloseType DEF SubmitRefused, TerminalPhases
  <2>2. ASSUME NEW t \in Task, SubmitAdmitted(t) PROVE TypeOK'
    BY <2>2 DEF SubmitAdmitted, Start, Phases, LivePhases, DecisionStatuses
  <2>3. ASSUME NEW t \in Task, SubmitHeld(t) PROVE TypeOK'
    BY <2>3 DEF SubmitHeld, Phases, LivePhases, DecisionStatuses, PendingStatuses
  <2>4. ASSUME NEW t \in Task, MarkReviewing(t) PROVE TypeOK'
    BY <2>4 DEF MarkReviewing, DecisionStatuses, PendingStatuses
  <2>5. ASSUME NEW t \in Task, Approve(t) PROVE TypeOK'
    <3> DEFINE ph  == [phase EXCEPT ![t] = "executing"]
               dec == [decision EXCEPT ![t] = "approved"]
    <3>1. ph \in [Task -> Phases] /\ dec \in [Task -> DecisionStatuses]
      BY DEF Phases, LivePhases, DecisionStatuses
    <3>2. CASE Complete(ph, dec, t) /\ UNCHANGED runs
      BY <3>1, <3>2, CompleteType
    <3>3. CASE phase' = ph /\ decision' = dec /\ UNCHANGED <<deferred, runs>>
      BY <3>1, <3>3
    <3>4. CASE /\ runs[t] < MaxRuns /\ runs' = Start(t)
               /\ phase' = ph /\ decision' = dec /\ UNCHANGED deferred
      BY <3>1, <3>4 DEF Start
    <3> QED
      BY <2>5, <3>2, <3>3, <3>4 DEF Approve
  <2>6. ASSUME NEW t \in Task, Reject(t) PROVE TypeOK'
    BY <2>6, CloseType DEF Reject, TerminalPhases
  <2>7. ASSUME NEW overdue \in SUBSET Task, Recover(overdue) PROVE TypeOK'
    BY <2>7 DEF Recover, Phases, TerminalPhases, DecisionStatuses
  <2>8. ASSUME NEW t \in Task, Execute(t) PROVE TypeOK'
    BY <2>8 DEF Execute, Start
  <2>9. ASSUME NEW t \in Task, NEW outcome \in TerminalPhases, Return(t, outcome)
        PROVE TypeOK'
    <3>1. runs' \in [Task -> 0..MaxRuns]
      BY <2>9 DEF Return
    <3> QED
      BY <2>9, <3>1, FinishType DEF Return
  <2>10. ASSUME NEW t \in Task, NEW outcome \in TerminalPhases, CloseByCaller(t, outcome)
         PROVE TypeOK'
    BY <2>10, FinishType DEF CloseByCaller
  <2>11. ASSUME NEW t \in Task, Abandon(t) PROVE TypeOK'
    BY <2>11 DEF Abandon
  <2>12. CASE Crash
    BY <2>12 DEF Crash
  <2>13. CASE UNCHANGED vars
    BY <2>13 DEF vars
  <2> QED
    BY <2>1, <2>2, <2>3, <2>4, <2>5, <2>6, <2>7, <2>8, <2>9, <2>10, <2>11, <2>12, <2>13
       DEF Next, Decide, ReturnSome
<1> QED
  BY <1>1, <1>2, PTL DEF Spec

-----------------------------------------------------------------------------
(* What a cascade does to a task.                                            *)

\* A task that a cascade started at t changes is t itself, a live task below
\* t that is cancelled, or an executing ancestor of t that is closed.
LEMMA SettledCases ==
  ASSUME NEW ph \in [Task -> Phases], NEW t \in Task, NEW outcome \in TerminalPhases,
         NEW u \in Task
  PROVE  LET after == Settled(ph, t, outcome)
         IN  \/ u # t /\ after[u] = ph[u]
             \/ u = t /\ after[u] = outcome
             \/ /\ u # t /\ outcome # "completed" /\ u \in LiveBelow(ph, t)
                /\ ph[u] \in LivePhases /\ after[u] = "cancelled"
             \/ /\ u # t /\ u \in Above[t]
                /\ ph[u] = "executing" /\ after[u] \in {"failed", "completed"}
<1> DEFINE below == IF outcome = "completed" THEN {} ELSE LiveBelow(ph, t)
           mid   == [v \in Task |-> IF v = t THEN outcome
                                   ELSE IF v \in below THEN "cancelled" ELSE ph[v]]
           above == ClosedAbove(mid, t)
<1>1. Settled(ph, t, outcome) =
        [v \in Task |-> IF v \notin above THEN mid[v]
                       ELSE IF Soured(mid, t, v) THEN "failed" ELSE "completed"]
  BY DEF Settled
<1>2. t \notin above
  BY ForestAssumption DEF ClosedAbove
<1>3. ASSUME u \in above PROVE u \in Above[t] /\ mid[u] = "executing"
  <2>1. u \in PathUp(t, u)
    BY <1>3 DEF ClosedAbove, PathUp
  <2> QED
    BY <1>3, <2>1 DEF ClosedAbove
<1>4. u \in below => outcome # "completed" /\ u \in LiveBelow(ph, t) /\ ph[u] \in LivePhases
  BY DEF LiveBelow
<1> HIDE DEF above, below
<1>5. CASE u = t
  BY <1>1, <1>2, <1>5
<1>6. CASE u # t /\ u \in above
  <2>1. mid[u] = "executing" /\ u \in Above[t]
    BY <1>3, <1>6
  <2>2. ph[u] = "executing"
    BY <1>6, <2>1
  <2> QED
    BY <1>1, <1>6, <2>1, <2>2
<1>7. CASE u # t /\ u \notin above
  BY <1>1, <1>4, <1>7
<1> QED
  BY <1>5, <1>6, <1>7

-----------------------------------------------------------------------------
(* Decisions.  The invariants need each other: a decision that is settled    *)
(* again must not be the approval of an executing task, and a task that is   *)
(* not gated must have no decision that its submission could leave pending.  *)

OnlyGatedDecided == \A t \in Task \ Gated : decision[t] = "none"

Decisions == HeldIffPending /\ ApprovedBeforeExecuting /\ OnlyGatedDecided

DecisionInv == TypeOK /\ Decisions

\* Phases and decisions, at some point within a step, agree on the task u.
Agree(ph, dec, u) ==
  /\ dec[u] \in PendingStatuses <=> ph[u] = "waiting-confirm"
  /\ u \in Gated /\ ph[u] \in {"executing", "completed"} => dec[u] = "approved"
  /\ u \notin Gated => dec[u] = "none"

LEMMA DecisionsAgree == Decisions <=> \A u \in Task : Agree(phase, decision, u)
  BY KindAssumption
     DEF Decisions, HeldIffPending, ApprovedBeforeExecuting, OnlyGatedDecided, Agree

LEMMA DecisionsAgreeNext == Decisions' <=> \A u \in Task : Agree(phase', decision', u)
  BY KindAssumption
     DEF Decisions, HeldIffPending, ApprovedBeforeExecuting, OnlyGatedDecided, Agree

\* Closing a task keeps the decisions in step, whether the step began with a
\* submission, an approval or neither.
LEMMA CloseDecisions ==
  ASSUME NEW ph \in [Task -> Phases], NEW dec \in [Task -> DecisionStatuses],
         NEW t \in Task, NEW outcome \in TerminalPhases,
         ph[t] \in LivePhases,
         \A u \in Task \ {t} : Agree(ph, dec, u),
         t \notin Gated => dec[t] = "none",
         outcome = "completed" => ph[t] = "executing" /\ Agree(ph, dec, t),
         Close(ph, dec, t, outcome)
  PROVE  Decisions'
<1> DEFINE after == Settled(ph, t, outcome)
<1>1. phase' = after /\ decision' = SettledDecisions(ph, dec, after)
  BY DEF Close
<1> SUFFICES ASSUME NEW u \in Task PROVE Agree(phase', decision', u)
  BY DecisionsAgreeNext
<1>2. \/ u # t /\ after[u] = ph[u]
      \/ u = t /\ after[u] = outcome
      \/ u # t /\ ph[u] \in LivePhases /\ after[u] = "cancelled"
      \/ u # t /\ ph[u] = "executing" /\ after[u] \in {"failed", "completed"}
  BY SettledCases
<1>3. decision'[u] =
        IF after[u] # ph[u] /\ after[u] # "completed" /\ dec[u] \in PendingStatuses
        THEN "rejected" ELSE dec[u]
  BY <1>1 DEF SettledDecisions
<1> HIDE DEF after
<1> QED
  BY <1>1, <1>2, <1>3 DEF Agree, TerminalPhases, LivePhases, PendingStatuses

LEMMA CompleteDecisions ==
  ASSUME NEW ph \in [Task -> Phases], NEW dec \in [Task -> DecisionStatuses],
         NEW t \in Task, ph[t] \in LivePhases,
         \A u \in Task : Agree(ph, dec, u),
         Complete(ph, dec, t)
  PROVE  Decisions'
<1>1. CASE phase' = ph /\ decision' = dec
  BY <1>1, DecisionsAgreeNext
<1>2. CASE ph[t] = "executing" /\ Close(ph, dec, t, "completed")
  <2>1. t \notin Gated => dec[t] = "none"
    BY DEF Agree
  <2> QED
    BY <1>2, <2>1, CloseDecisions DEF TerminalPhases
<1> QED
  BY <1>1, <1>2 DEF Complete

LEMMA FinishDecisions ==
  ASSUME DecisionInv, NEW t \in Task, NEW outcome \in TerminalPhases, Finish(t, outcome)
  PROVE  Decisions'
<1>1. \A u \in Task : Agree(phase, decision, u)
  BY DecisionsAgree DEF DecisionInv
<1>2. phase \in [Task -> Phases] /\ decision \in [Task -> DecisionStatuses]
  BY DEF DecisionInv, TypeOK
<1>3. CASE UNCHANGED <<phase, decision, deferred>>
  BY <1>1, <1>3, DecisionsAgreeNext
<1>4. CASE phase[t] \in LivePhases /\ Complete(phase, decision, t)
  BY <1>1, <1>2, <1>4, CompleteDecisions
<1>5. CASE phase[t] \in LivePhases /\ outcome # "completed"
           /\ Close(phase, decision, t, outcome)
  BY <1>1, <1>2, <1>5, CloseDecisions DEF Agree
<1> QED
  BY <1>3, <1>4, <1>5 DEF Finish

LEMMA DecisionStep == DecisionInv /\ [Next]_vars => Decisions'
<1> SUFFICES ASSUME DecisionInv, [Next]_vars PROVE Decisions'
  OBVIOUS
<1>0. /\ \A u \in Task : Agree(phase, decision, u)
      /\ phase \in [Task -> Phases] /\ decision \in [Task -> DecisionStatuses]
  BY DecisionsAgree DEF DecisionInv, TypeOK
<1>1. ASSUME NEW t \in Task, SubmitRefused(t) PROVE Decisions'
  <2> DEFINE ph == [phase EXCEPT ![t] = "risk-check"]
  <2>1. /\ ph \in [Task -> Phases] /\ ph[t] \in LivePhases
        /\ \A u \in Task \ {t} : ph[u] = phase[u]
    BY <1>0 DEF Phases, LivePhases
  <2>2. "cancelled" \in TerminalPhases /\ Close(ph, decision, t, "cancelled")
    BY <1>1 DEF TerminalPhases, SubmitRefused
  <2> HIDE DEF ph
  <2>3. \A u \in Task \ {t} : Agree(ph, decision, u)
    BY <1>0, <2>1 DEF Agree
  <2>4. t \notin Gated => decision[t] = "none"
    BY <1>0 DEF Agree
  <2> QED
    BY <1>0, <2>1, <2>2, <2>3, <2>4, CloseDecisions
<1>2. ASSUME NEW t \in Task, SubmitAdmitted(t) PROVE Decisions'
  <2> SUFFICES ASSUME NEW u \in Task PROVE Agree(phase', decision', u)
    BY DecisionsAgreeNext
  <2> QED
    BY <1>0, <1>2 DEF SubmitAdmitted, Agree, PendingStatuses
<1>3. ASSUME NEW t \in Task, SubmitHeld(t) PROVE Decisions'
  <2> SUFFICES ASSUME NEW u \in Task PROVE Agree(phase', decision', u)
    BY DecisionsAgreeNext
  <2> QED
    BY <1>0, <1>3 DEF SubmitHeld, Agree, PendingStatuses
<1>4. ASSUME NEW t \in Task, MarkReviewing(t) PROVE Decisions'
  <2> SUFFICES ASSUME NEW u \in Task PROVE Agree(phase', decision', u)
    BY DecisionsAgreeNext
  <2> QED
    BY <1>0, <1>4 DEF MarkReviewing, Agree, PendingStatuses
<1>5. ASSUME NEW t \in Task, Approve(t) PROVE Decisions'
  <2> DEFINE ph  == [phase EXCEPT ![t] = "executing"]
             dec == [decision EXCEPT ![t] = "approved"]
  <2>1. /\ ph \in [Task -> Phases] /\ dec \in [Task -> DecisionStatuses]
        /\ ph[t] \in LivePhases
    BY <1>0 DEF Phases, LivePhases, DecisionStatuses
  <2>2. ASSUME NEW u \in Task PROVE Agree(ph, dec, u)
    BY <1>0, <1>5 DEF Approve, PendingDecision, Agree, PendingStatuses
  <2>3. CASE Complete(ph, dec, t)
    <3> HIDE DEF ph, dec
    <3> QED BY <2>1, <2>2, <2>3, CompleteDecisions
  <2>4. CASE phase' = ph /\ decision' = dec
    BY <2>2, <2>4, DecisionsAgreeNext
  <2> QED
    BY <1>5, <2>3, <2>4 DEF Approve
<1>6. ASSUME NEW t \in Task, Reject(t) PROVE Decisions'
  BY <1>0, <1>6, CloseDecisions
     DEF Reject, PendingDecision, Agree, TerminalPhases, LivePhases
<1>7. ASSUME NEW overdue \in SUBSET Task, Recover(overdue) PROVE Decisions'
  <2> SUFFICES ASSUME NEW u \in Task PROVE Agree(phase', decision', u)
    BY DecisionsAgreeNext
  <2> QED
    BY <1>0, <1>7 DEF Recover, Agree, PendingStatuses
<1>8. ASSUME NEW t \in Task, NEW outcome \in TerminalPhases, Finish(t, outcome)
      PROVE Decisions'
  BY <1>8, FinishDecisions
<1>9. CASE UNCHANGED <<phase, decision>>
  BY <1>0, <1>9, DecisionsAgreeNext
<1> QED
  BY <1>1, <1>2, <1>3, <1>4, <1>5, <1>6, <1>7, <1>8, <1>9
     DEF Next, Decide, ReturnSome, Return, CloseByCaller, Execute, Abandon, Crash, vars

LEMMA DecisionInvariant == Spec => []DecisionInv
<1>1. Init => Decisions
  BY KindAssumption DEF Init, Decisions, HeldIffPending, ApprovedBeforeExecuting,
         OnlyGatedDecided, PendingStatuses
<1>2. DecisionInv /\ [Next]_vars => Decisions'
  BY DecisionStep
<1> QED
  BY <1>1, <1>2, TypeCorrect, PTL DEF Spec, DecisionInv

\* A task is held exactly while its decision request is pending.
THEOREM HeldWhilePending == Spec => []HeldIffPending
  BY DecisionInvariant, PTL DEF DecisionInv, Decisions

\* A gated task executes or completes only under an approved decision.
THEOREM ApprovalPrecedesExecution == Spec => []ApprovedBeforeExecuting
  BY DecisionInvariant, PTL DEF DecisionInv, Decisions

-----------------------------------------------------------------------------
(* The forest.  Without expiry, every phase change is the submission of one   *)
(* task or the cascade of one closing, and neither leaves an orphan.         *)

\* u is not a live task under a terminal parent.
Sheltered(ph, u) ==
  Parent[u] # None /\ ph[u] \in LivePhases => ph[Parent[u]] \notin TerminalPhases

\* The ancestors between t and a node lie below the node's own ancestors.
LEMMA PathGrows ==
  ASSUME NEW t \in Task, NEW u \in Above[t], Parent[u] # None
  PROVE  /\ Parent[u] \in Above[t]
         /\ PathUp(t, u) \subseteq PathUp(t, Parent[u])
  BY ForestAssumption DEF PathUp

\* A cascade leaves no orphan, if there was none but under t, and if t is not
\* completed over a live child.
LEMMA CascadeShelters ==
  ASSUME NEW ph \in [Task -> Phases], NEW t \in Task, NEW outcome \in TerminalPhases,
         ph[t] \in LivePhases,
         \A u \in Task \ {t} : Sheltered(ph, u),
         outcome = "completed" => \A c \in Children(t) : ph[c] \notin LivePhases
  PROVE  \A u \in Task : Sheltered(Settled(ph, t, outcome), u)
<1> DEFINE below == IF outcome = "completed" THEN {} ELSE LiveBelow(ph, t)
           mid   == [v \in Task |-> IF v = t THEN outcome
                                   ELSE IF v \in below THEN "cancelled" ELSE ph[v]]
           above == ClosedAbove(mid, t)
           after == Settled(ph, t, outcome)
<1>1. after = [v \in Task |-> IF v \notin above THEN mid[v]
                             ELSE IF Soured(mid, t, v) THEN "failed" ELSE "completed"]
  BY DEF Settled
<1> SUFFICES ASSUME NEW u \in Task, Parent[u] # None, after[u] \in LivePhases,
                    after[Parent[u]] \in TerminalPhases
             PROVE  FALSE
  BY DEF Sheltered
<1> DEFINE p == Parent[u]
<1>2. p \in Task /\ Above[u] = {p} \cup Above[p] /\ p \notin Above[p]
  BY ForestAssumption
<1>3. u # t /\ u \notin below /\ u \notin above /\ ph[u] \in LivePhases /\ mid[u] = ph[u]
  <2>1. u \notin above
    BY <1>1 DEF LivePhases
  <2>2. mid[u] \in LivePhases
    BY <1>1, <2>1
  <2>3. u # t /\ u \notin below
    BY <2>2 DEF LivePhases, TerminalPhases
  <2> QED
    BY <2>1, <2>2, <2>3
<1>4. ph[p] \notin TerminalPhases
  BY <1>3 DEF Sheltered
<1>5. p = t \/ p \in below \/ p \in above
  <2> HIDE DEF below, above
  <2> QED BY <1>1, <1>2, <1>4
<1>6. ASSUME p = t PROVE FALSE
  <2>1. outcome # "completed"
    BY <1>3, <1>6 DEF Children
  <2>2. \A m \in Above[u] : t \in Above[m] => ph[m] \in LivePhases
    BY <1>2, <1>6, ForestAssumption
  <2> QED
    BY <1>2, <1>3, <1>6, <2>1, <2>2 DEF LiveBelow
<1>7. ASSUME p \in below PROVE FALSE
  <2>1. outcome # "completed" /\ p \in LiveBelow(ph, t)
    BY <1>7
  <2>2. /\ t \in Above[p] /\ ph[p] \in LivePhases
        /\ \A m \in Above[p] : t \in Above[m] => ph[m] \in LivePhases
    BY <2>1 DEF LiveBelow
  <2>3. u \in LiveBelow(ph, t)
    BY <1>2, <1>3, <2>2 DEF LiveBelow
  <2> QED
    BY <1>3, <2>1, <2>3
<1>8. ASSUME p \in above PROVE FALSE
  <2> HIDE DEF mid
  <2>1. /\ p \in Above[t]
        /\ \A v \in PathUp(t, p) :
             /\ mid[v] = "executing"
             /\ \A c \in Children(v) : mid[c] \in LivePhases => c \in Above[t]
             /\ MayClose(mid, t, v)
    BY <1>8 DEF ClosedAbove
  <2>2. p \in PathUp(t, p)
    BY <2>1 DEF PathUp
  <2>3. u \in Above[t]
    BY <1>3, <2>1, <2>2 DEF Children
  <2>4. PathUp(t, u) \subseteq PathUp(t, p)
    BY <2>3, PathGrows
  <2>5. u \in above
    BY <2>1, <2>3, <2>4 DEF ClosedAbove
  <2> QED
    BY <1>3, <2>5
<1> QED
  BY <1>5, <1>6, <1>7, <1>8

LEMMA CompleteShelters ==
  ASSUME NEW ph \in [Task -> Phases], NEW dec, NEW t \in Task, ph[t] \in LivePhases,
         \A c \in Children(t) : ph[c] = phase[c],
         \A u \in Task : Sheltered(ph, u),
         Complete(ph, dec, t)
  PROVE  \A u \in Task : Sheltered(phase', u)
<1>1. CASE phase' = ph
  BY <1>1
<1>2. CASE ~HasActiveChild(t) /\ Close(ph, dec, t, "completed")
  <2>1. \A c \in Children(t) : ph[c] \notin LivePhases
    BY <1>2 DEF HasActiveChild
  <2>2. phase' = Settled(ph, t, "completed")
    BY <1>2 DEF Close
  <2> QED
    BY <2>1, <2>2, CascadeShelters DEF TerminalPhases
<1> QED
  BY <1>1, <1>2 DEF Complete

LEMMA OrphanStep ==
  ASSUME "recovery" \notin Faults, TypeOK, NoOrphan, [Next]_vars
  PROVE  NoOrphan'
<1>0. phase \in [Task -> Phases] /\ \A u \in Task : Sheltered(phase, u)
  BY DEF TypeOK, NoOrphan, Sheltered
<1> SUFFICES \A u \in Task : Sheltered(phase', u)
  BY DEF NoOrphan, Sheltered
<1>1. ASSUME NEW t \in Task, SubmitRefused(t) PROVE \A u \in Task : Sheltered(phase', u)
  <2> DEFINE ph == [phase EXCEPT ![t] = "risk-check"]
  <2>1. ph \in [Task -> Phases] /\ ph[t] \in LivePhases
    BY <1>0 DEF Phases, LivePhases
  <2>2. \A u \in Task \ {t} : Sheltered(ph, u)
    BY <1>0 DEF Sheltered, LivePhases, TerminalPhases
  <2>3. phase' = Settled(ph, t, "cancelled")
    BY <1>1 DEF SubmitRefused, Close
  <2> HIDE DEF ph
  <2> QED
    BY <2>1, <2>2, <2>3, CascadeShelters DEF TerminalPhases
<1>2. ASSUME NEW t \in Task, SubmitAdmitted(t) \/ SubmitHeld(t)
      PROVE \A u \in Task : Sheltered(phase', u)
  <2>1. /\ \/ phase' = [phase EXCEPT ![t] = "executing"]
           \/ phase' = [phase EXCEPT ![t] = "waiting-confirm"]
        /\ Parent[t] # None => phase[Parent[t]] \notin TerminalPhases
    BY <1>2 DEF SubmitAdmitted, SubmitHeld, ParentOpen
  <2> SUFFICES ASSUME NEW u \in Task, Parent[u] # None PROVE Sheltered(phase', u)
    BY DEF Sheltered
  <2>2. Parent[u] \in Task
    BY ForestAssumption
  <2> QED
    BY <1>0, <2>1, <2>2 DEF Sheltered, TerminalPhases, LivePhases
<1>3. ASSUME NEW t \in Task, Approve(t) PROVE \A u \in Task : Sheltered(phase', u)
  <2> DEFINE ph  == [phase EXCEPT ![t] = "executing"]
             dec == [decision EXCEPT ![t] = "approved"]
  <2>1. /\ ph \in [Task -> Phases] /\ ph[t] \in LivePhases
        /\ \A u \in Task : Sheltered(ph, u)
    BY <1>0, <1>3 DEF Approve, PendingDecision, Sheltered, Phases, LivePhases, TerminalPhases
  <2>2. \A c \in Children(t) : ph[c] = phase[c]
    BY <1>0, ForestAssumption DEF Children
  <2>3. Complete(ph, dec, t) \/ phase' = ph
    BY <1>3 DEF Approve
  <2> HIDE DEF ph, dec
  <2> QED
    BY <2>1, <2>2, <2>3, CompleteShelters
<1>4. ASSUME NEW t \in Task, Reject(t) PROVE \A u \in Task : Sheltered(phase', u)
  BY <1>0, <1>4, CascadeShelters
     DEF Reject, PendingDecision, Close, LivePhases, TerminalPhases
<1>5. ASSUME NEW t \in Task, NEW outcome \in TerminalPhases, Finish(t, outcome)
      PROVE \A u \in Task : Sheltered(phase', u)
  <2>1. CASE UNCHANGED phase
    BY <1>0, <2>1
  <2>2. CASE phase[t] \in LivePhases /\ Complete(phase, decision, t)
    BY <1>0, <2>2, CompleteShelters
  <2>3. CASE phase[t] \in LivePhases /\ outcome # "completed"
             /\ Close(phase, decision, t, outcome)
    BY <1>0, <2>3, CascadeShelters DEF Close
  <2> QED
    BY <1>5, <2>1, <2>2, <2>3 DEF Finish
<1>6. CASE UNCHANGED phase
  BY <1>0, <1>6
<1> QED
  BY <1>1, <1>2, <1>3, <1>4, <1>5, <1>6
     DEF Next, Decide, ReturnSome, Return, CloseByCaller, Execute, Abandon, Crash,
         MarkReviewing, Recover, vars

\* No live task is left under a terminal parent, whatever the forest, the
\* order of calls and the crashes, as long as no decision expires.
THEOREM NoOrphans ==
  ASSUME "recovery" \notin Faults
  PROVE  Spec => []NoOrphan
<1>1. Init => NoOrphan
  BY DEF Init, NoOrphan, LivePhases
<1>2. TypeOK /\ NoOrphan /\ [Next]_vars => NoOrphan'
  BY OrphanStep
<1> QED
  BY <1>1, <1>2, TypeCorrect, PTL DEF Spec

-----------------------------------------------------------------------------
(* Outcomes.                                                                 *)

\* A cascade changes no terminal task.
LEMMA CascadeKeepsOutcomes ==
  ASSUME NEW ph \in [Task -> Phases], NEW t \in Task, NEW outcome \in TerminalPhases,
         ph[t] \in LivePhases, NEW u \in Task, ph[u] \in TerminalPhases
  PROVE  Settled(ph, t, outcome)[u] = ph[u]
  BY SettledCases DEF TerminalPhases, LivePhases

LEMMA OutcomeStep ==
  ASSUME TypeOK, Next, NEW u \in Task \ Retried, phase[u] \in TerminalPhases
  PROVE  phase'[u] = phase[u]
<1>0. phase \in [Task -> Phases] /\ u \in Task
  BY DEF TypeOK
<1>1. ASSUME NEW t \in Task, SubmitRefused(t) \/ SubmitAdmitted(t) \/ SubmitHeld(t)
      PROVE phase'[u] = phase[u]
  <2>1. u # t
    BY <1>1 DEF SubmitRefused, SubmitAdmitted, SubmitHeld, MaySubmit, TerminalPhases
  <2>2. CASE SubmitRefused(t)
    <3> DEFINE ph == [phase EXCEPT ![t] = "risk-check"]
    <3>1. /\ ph \in [Task -> Phases] /\ ph[t] \in LivePhases
          /\ ph[u] = phase[u]
      BY <1>0, <2>1 DEF Phases, LivePhases
    <3>2. phase' = Settled(ph, t, "cancelled")
      BY <2>2 DEF SubmitRefused, Close
    <3> HIDE DEF ph
    <3> QED
      BY <1>0, <3>1, <3>2, CascadeKeepsOutcomes DEF TerminalPhases
  <2> QED
    BY <1>0, <1>1, <2>1, <2>2 DEF SubmitAdmitted, SubmitHeld
<1>2. ASSUME NEW t \in Task, NEW ph \in [Task -> Phases], NEW dec,
             ph[t] \in LivePhases, ph[u] = phase[u], Complete(ph, dec, t)
      PROVE phase'[u] = phase[u]
  BY <1>0, <1>2, CascadeKeepsOutcomes DEF Complete, Close, TerminalPhases
<1>3. ASSUME NEW t \in Task, Approve(t) PROVE phase'[u] = phase[u]
  <2> DEFINE ph  == [phase EXCEPT ![t] = "executing"]
             dec == [decision EXCEPT ![t] = "approved"]
  <2>1. ph \in [Task -> Phases] /\ ph[t] \in LivePhases /\ ph[u] = phase[u]
    BY <1>0, <1>3 DEF Approve, PendingDecision, Phases, LivePhases, TerminalPhases
  <2>2. Complete(ph, dec, t) \/ phase' = ph
    BY <1>3 DEF Approve
  <2> HIDE DEF ph, dec
  <2> QED
    BY <1>2, <2>1, <2>2
<1>4. ASSUME NEW t \in Task, Reject(t) PROVE phase'[u] = phase[u]
  BY <1>0, <1>4, CascadeKeepsOutcomes
     DEF Reject, PendingDecision, Close, LivePhases, TerminalPhases
<1>5. ASSUME NEW overdue \in SUBSET Task, Recover(overdue) PROVE phase'[u] = phase[u]
  BY <1>0, <1>5 DEF Recover, TerminalPhases
<1>6. ASSUME NEW t \in Task, NEW outcome \in TerminalPhases, Finish(t, outcome)
      PROVE phase'[u] = phase[u]
  <2>1. CASE phase[t] \in LivePhases /\ Complete(phase, decision, t)
    BY <1>0, <1>2, <2>1
  <2>2. CASE phase[t] \in LivePhases /\ Close(phase, decision, t, outcome)
    BY <1>0, <2>2, CascadeKeepsOutcomes DEF Close
  <2> QED
    BY <1>6, <2>1, <2>2 DEF Finish
<1> QED
  BY <1>1, <1>3, <1>4, <1>5, <1>6
     DEF Next, Decide, ReturnSome, Return, CloseByCaller, Execute, Abandon, Crash,
         MarkReviewing

\* The first outcome of a task that is not submitted again stands.
THEOREM FirstOutcome == Spec => FirstOutcomeStands
<1>1. TypeOK /\ [Next]_vars =>
        [\A t \in Task \ Retried :
           phase[t] \in TerminalPhases => phase'[t] = phase[t]]_vars
  BY OutcomeStep DEF vars
<1> QED
  BY <1>1, TypeCorrect, PTL DEF Spec, FirstOutcomeStands
=============================================================================
