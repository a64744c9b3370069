------------------------- MODULE KernelForestProofs -------------------------
(* Theorems about the forest of tasks that the kernel dispatcher keeps:      *)
(* what it implements, what the end of a last child does to its parent, and  *)
(* that the closing cascade is the recursion that the code runs.  The first  *)
(* two leave out the expiry of decisions, which closes a task without a      *)
(* cascade.                                                                  *)
EXTENDS KernelDispatcherProofs, KernelCascade, FiniteSetTheorems

-----------------------------------------------------------------------------
(* Paths in the forest.                                                      *)

\* A task above u has a child that is u or above u.
LEMMA ChildTowards ==
  ASSUME NEW u \in Task, NEW t \in Above[u]
  PROVE  \E c \in Children(t) : c = u \/ c \in Above[u]
<1> DEFINE S == {v \in {u} \cup Above[u] : t \in Above[v]}
<1>1. S \in SUBSET Task /\ u \in S
  BY ForestAssumption
<1>2. PICK v \in S : Above[v] \cap S = {}
  BY <1>1, RootsAssumption
<1>3. /\ v \in Task /\ t \in Above[v] /\ v \in {u} \cup Above[u]
      /\ Parent[v] # None /\ Above[v] = {Parent[v]} \cup Above[Parent[v]]
  BY <1>1, <1>2, ForestAssumption
<1>4. Parent[v] \in Above[u]
  BY <1>3, ForestAssumption
<1>5. t \notin Above[Parent[v]]
  BY <1>2, <1>3, <1>4
<1>6. v \in Children(t)
  BY <1>3, <1>5 DEF Children
<1> QED
  BY <1>3, <1>6

\* Of two tasks above t, one is above the other.
LEMMA Comparable ==
  ASSUME NEW t \in Task, NEW v \in Above[t], NEW c \in Above[t], v # c
  PROVE  v \in Above[c] \/ c \in Above[v]
<1> DEFINE S == {x \in {t} \cup Above[t] : v \in Above[x] /\ c \in Above[x]}
<1>1. S \in SUBSET Task /\ t \in S
  BY ForestAssumption
<1>2. PICK x \in S : Above[x] \cap S = {}
  BY <1>1, RootsAssumption
<1>3. /\ x \in Task /\ v \in Above[x] /\ c \in Above[x] /\ x \in {t} \cup Above[t]
      /\ Parent[x] # None /\ Above[x] = {Parent[x]} \cup Above[Parent[x]]
  BY <1>1, <1>2, ForestAssumption
<1>4. Parent[x] \in Above[t] /\ Parent[x] \in Above[x]
  BY <1>3, ForestAssumption
<1>5. ~(v \in Above[Parent[x]] /\ c \in Above[Parent[x]])
  BY <1>2, <1>4
<1> QED
  BY <1>3, <1>5

\* The path from t to the parent of a node on it is the path to the node,
\* and the parent.
LEMMA PathToParent ==
  ASSUME NEW t \in Task, NEW p \in Task, NEW c \in Children(p),
         c = t \/ c \in Above[t]
  PROVE  /\ p \in Above[t]
         /\ \A v \in PathUp(t, p) : v = p \/ (c # t /\ v \in PathUp(t, c))
<1>1. /\ c \in Task /\ Parent[c] = p /\ p # None /\ Above[c] = {p} \cup Above[p]
      /\ p \notin Above[p]
  BY ForestAssumption DEF Children
<1>2. p \in Above[t]
  BY <1>1, ForestAssumption
<1>3. ASSUME NEW v \in PathUp(t, p), v # p
      PROVE  c # t /\ v \in PathUp(t, c)
  <2>1. v \in Above[t] /\ p \in Above[v] /\ v \in Task
    BY <1>3, ForestAssumption DEF PathUp
  <2>2. v \notin Above[p] /\ v \notin Above[c]
    BY <1>1, <1>3, <2>1, ForestAssumption
  <2>3. c # t
    BY <2>1, <2>2
  <2>4. v = c \/ c \in Above[v]
    BY <2>1, <2>2, <2>3, Comparable
  <2> QED
    BY <2>1, <2>3, <2>4 DEF PathUp
<1> QED
  BY <1>2, <1>3

-----------------------------------------------------------------------------
(* A live task is live all the way up.                                       *)

NoAbsentParent ==
  \A t \in Task : Parent[t] # None /\ phase[t] # "absent" => phase[Parent[t]] # "absent"

ForestInv == TypeOK /\ NoOrphan /\ NoAbsentParent

LEMMA LiveAbove ==
  ASSUME ForestInv, NEW u \in Task, phase[u] \in LivePhases, NEW a \in Above[u]
  PROVE  phase[a] \in LivePhases
<1> SUFFICES ASSUME phase[a] \notin LivePhases PROVE FALSE
  OBVIOUS
<1> DEFINE S == {v \in {u} \cup Above[u] : phase[v] \in LivePhases /\ a \in Above[v]}
<1>1. S \in SUBSET Task /\ u \in S
  BY ForestAssumption
<1>2. PICK v \in S : Above[v] \cap S = {}
  BY <1>1, RootsAssumption
<1>3. /\ v \in Task /\ phase[v] \in LivePhases /\ a \in Above[v]
      /\ v \in {u} \cup Above[u]
      /\ Parent[v] # None /\ Above[v] = {Parent[v]} \cup Above[Parent[v]]
  BY <1>1, <1>2, ForestAssumption
<1>4. Parent[v] \in Above[u] /\ Parent[v] \in Task
  BY <1>3, ForestAssumption
<1>5. phase[Parent[v]] \in LivePhases
  BY <1>3, <1>4 DEF ForestInv, NoOrphan, NoAbsentParent, TypeOK, Phases, LivePhases
<1>6. a \in Above[Parent[v]]
  BY <1>3, <1>5
<1> QED
  BY <1>2, <1>3, <1>4, <1>5, <1>6

-----------------------------------------------------------------------------
(* The steps, as the forest sees them.                                       *)

\* The phase of one task is set to a live one: it is submitted, or released.
Opens(t) ==
  /\ \E x \in LivePhases : phase' = [phase EXCEPT ![t] = x]
  /\ phase[t] \in LivePhases \/ (MaySubmit(t) /\ ParentOpen(t))

\* A cascade starts at t, whose phase in this step is first set to ph[t].
Closes(t, ph, outcome) ==
  /\ ph[t] \in LivePhases /\ \A u \in Task \ {t} : ph[u] = phase[u]
  /\ phase[t] \in LivePhases \/ MaySubmit(t)
  /\ outcome = "completed" => phase[t] \in LivePhases /\ ~HasActiveChild(t)
  /\ phase' = Settled(ph, t, outcome)

\* Without expiry a step changes no phase, opens one task or closes one.
Forward ==
  \/ phase' = phase
  \/ \E t \in Task : Opens(t)
  \/ \E t \in Task : \E ph \in [Task -> Phases] : \E outcome \in TerminalPhases :
       Closes(t, ph, outcome)

LEMMA CompleteForward ==
  ASSUME NEW ph \in [Task -> Phases], NEW dec, NEW t \in Task,
         phase[t] \in LivePhases, ph[t] \in LivePhases,
         \A u \in Task \ {t} : ph[u] = phase[u], Complete(ph, dec, t)
  PROVE  phase' = ph \/ Closes(t, ph, "completed")
  BY DEF Complete, Close, Closes

LEMMA StepForward ==
  ASSUME "recovery" \notin Faults, TypeOK, [Next]_vars
  PROVE  Forward
<1>0. phase \in [Task -> Phases]
  BY DEF TypeOK
<1>1. ASSUME NEW t \in Task, SubmitRefused(t) PROVE Forward
  <2> DEFINE ph == [phase EXCEPT ![t] = "risk-check"]
  <2>1. ph \in [Task -> Phases] /\ Closes(t, ph, "cancelled")
    BY <1>0, <1>1 DEF SubmitRefused, Close, Closes, Phases, LivePhases
  <2> QED
    BY <2>1 DEF Forward, TerminalPhases
<1>2. ASSUME NEW t \in Task, SubmitAdmitted(t) \/ SubmitHeld(t) PROVE Forward
  BY <1>2 DEF SubmitAdmitted, SubmitHeld, Opens, Forward, LivePhases
<1>3. ASSUME NEW t \in Task, Approve(t) PROVE Forward
  <2> DEFINE ph  == [phase EXCEPT ![t] = "executing"]
             dec == [decision EXCEPT ![t] = "approved"]
  <2>1. /\ ph \in [Task -> Phases] /\ ph[t] \in LivePhases
        /\ phase[t] \in LivePhases /\ \A u \in Task \ {t} : ph[u] = phase[u]
    BY <1>0, <1>3 DEF Approve, PendingDecision, Phases, LivePhases
  <2>2. Complete(ph, dec, t) \/ phase' = ph
    BY <1>3 DEF Approve
  <2>3. phase' = ph => Opens(t)
    BY <2>1 DEF Opens, LivePhases
  <2> HIDE DEF ph, dec
  <2>4. phase' = ph \/ Closes(t, ph, "completed")
    BY <2>1, <2>2, CompleteForward
  <2> QED
    BY <2>1, <2>3, <2>4 DEF Forward, TerminalPhases
<1>4. ASSUME NEW t \in Task, Reject(t) PROVE Forward
  <2>1. Closes(t, phase, "cancelled")
    BY <1>4 DEF Reject, PendingDecision, Close, Closes, LivePhases
  <2> QED
    BY <1>0, <2>1 DEF Forward, TerminalPhases
<1>5. ASSUME NEW t \in Task, NEW outcome \in TerminalPhases, Finish(t, outcome)
      PROVE Forward
  <2>1. CASE UNCHANGED phase
    BY <2>1 DEF Forward
  <2>2. CASE phase[t] \in LivePhases /\ Complete(phase, decision, t)
    BY <1>0, <2>2, CompleteForward DEF Forward, TerminalPhases
  <2>3. CASE phase[t] \in LivePhases /\ outcome # "completed"
             /\ Close(phase, decision, t, outcome)
    <3>1. Closes(t, phase, outcome)
      BY <2>3 DEF Closes, Close
    <3> QED
      BY <1>0, <3>1 DEF Forward
  <2> QED
    BY <1>5, <2>1, <2>2, <2>3 DEF Finish
<1>6. CASE UNCHANGED phase
  BY <1>6 DEF Forward
<1> QED
  BY <1>1, <1>2, <1>3, <1>4, <1>5, <1>6
     DEF Next, Decide, ReturnSome, Return, CloseByCaller, Execute, Abandon, Crash,
         MarkReviewing, Recover, vars

LEMMA NoAbsentStep ==
  ASSUME TypeOK, NoAbsentParent, Forward
  PROVE  NoAbsentParent'
<1>0. phase \in [Task -> Phases]
  BY DEF TypeOK
<1> SUFFICES ASSUME NEW u \in Task, Parent[u] # None, phase'[u] # "absent"
             PROVE  phase'[Parent[u]] # "absent"
  BY DEF NoAbsentParent
<1>1. Parent[u] \in Task
  BY ForestAssumption
<1>2. ASSUME NEW t \in Task, phase[t] \in LivePhases \/ MaySubmit(t),
             \A v \in Task : phase'[v] = "absent" => v # t /\ phase[v] = "absent",
             \A v \in Task \ {t} : phase[v] = "absent" => phase'[v] = "absent"
      PROVE  phase'[Parent[u]] # "absent"
  BY <1>1, <1>2 DEF MaySubmit, NoAbsentParent, LivePhases
<1>3. ASSUME NEW t \in Task, Opens(t) PROVE phase'[Parent[u]] # "absent"
  BY <1>0, <1>2, <1>3 DEF Opens, LivePhases
<1>4. ASSUME NEW t \in Task, NEW ph \in [Task -> Phases], NEW outcome \in TerminalPhases,
             Closes(t, ph, outcome)
      PROVE  phase'[Parent[u]] # "absent"
  <2>1. \A v \in Task :
          \/ v # t /\ phase'[v] = ph[v]
          \/ v = t /\ phase'[v] = outcome
          \/ ph[v] \in LivePhases /\ phase'[v] \in {"cancelled", "failed", "completed"}
    BY <1>4, SettledCases DEF Closes, LivePhases
  <2> QED
    BY <1>2, <1>4, <2>1 DEF Closes, LivePhases, TerminalPhases
<1> QED
  BY <1>1, <1>3, <1>4 DEF Forward, NoAbsentParent

LEMMA ForestInvariant ==
  ASSUME "recovery" \notin Faults
  PROVE  Spec => []ForestInv
<1>1. Init => NoAbsentParent
  BY DEF Init, NoAbsentParent
<1>2. TypeOK /\ NoAbsentParent /\ [Next]_vars => NoAbsentParent'
  BY NoAbsentStep, StepForward
<1>3. Spec => []NoOrphan
  BY NoOrphans
<1> QED
  BY <1>1, <1>2, <1>3, TypeCorrect, PTL DEF Spec, ForestInv

-----------------------------------------------------------------------------
(* A cascade, in the terms of the forest.                                    *)

\* The phases once t and what is below it are closed, and the ancestors that
\* close with it.
Mid(ph, t, outcome) ==
  [u \in Task |->
     IF u = t THEN outcome
     ELSE IF outcome # "completed" /\ u \in LiveBelow(ph, t) THEN "cancelled" ELSE ph[u]]

Up(ph, t, outcome) == ClosedAbove(Mid(ph, t, outcome), t)

LEMMA SettledByParts ==
  ASSUME NEW ph \in [Task -> Phases], NEW t \in Task, NEW outcome \in TerminalPhases
  PROVE  Settled(ph, t, outcome) =
           [u \in Task |->
              IF u \notin Up(ph, t, outcome) THEN Mid(ph, t, outcome)[u]
              ELSE IF Soured(Mid(ph, t, outcome), t, u) THEN "failed" ELSE "completed"]
<1> DEFINE below == IF outcome = "completed" THEN {} ELSE LiveBelow(ph, t)
           mid   == [u \in Task |-> IF u = t THEN outcome
                                   ELSE IF u \in below THEN "cancelled" ELSE ph[u]]
<1>1. mid = Mid(ph, t, outcome)
  BY DEF Mid
<1> QED
  BY <1>1 DEF Settled, Up

LEMMA UpExecutes ==
  ASSUME NEW ph \in [Task -> Phases], NEW t \in Task, NEW outcome \in TerminalPhases,
         NEW u \in Up(ph, t, outcome)
  PROVE  /\ u \in Task /\ u # t /\ u \in Above[t] /\ t \notin Above[u]
         /\ ph[u] = "executing"
         /\ \A v \in PathUp(t, u) :
              /\ Mid(ph, t, outcome)[v] = "executing"
              /\ \A c \in Children(v) :
                   Mid(ph, t, outcome)[c] \in LivePhases => c \in Above[t]
              /\ MayClose(Mid(ph, t, outcome), t, v)
         /\ u \in PathUp(t, u)
<1>1. u \in Above[t] /\ u \in PathUp(t, u) /\ u \in Task /\ u # t /\ t \notin Above[u]
  BY ForestAssumption DEF Up, ClosedAbove, PathUp
<1>2. Mid(ph, t, outcome)[u] = "executing"
  BY <1>1 DEF Up, ClosedAbove
<1>3. ph[u] = "executing"
  BY <1>1, <1>2 DEF Mid
<1> QED
  BY <1>1, <1>3 DEF Up, ClosedAbove

\* Nothing live is left under an ancestor that a cascade closes, and one that
\* it completes has no child that failed or was cancelled.
LEMMA UpIsClean ==
  ASSUME NEW ph \in [Task -> Phases], NEW t \in Task, NEW outcome \in TerminalPhases,
         NEW u \in Up(ph, t, outcome), NEW c \in Children(u)
  PROVE  LET after == Settled(ph, t, outcome)
         IN  /\ after[c] \notin LivePhases
             /\ after[u] = "completed" => after[c] \notin {"failed", "cancelled"}
<1> DEFINE mid == Mid(ph, t, outcome)
           up  == Up(ph, t, outcome)
<1>1. /\ u \in Task /\ u \in Above[t] /\ u \in PathUp(t, u)
      /\ \A v \in PathUp(t, u) :
           /\ mid[v] = "executing"
           /\ \A d \in Children(v) : mid[d] \in LivePhases => d \in Above[t]
           /\ MayClose(mid, t, v)
  BY UpExecutes
<1>2. c \in Task /\ Parent[c] = u /\ u # None
  BY <1>1, ForestAssumption DEF Children
<1>3. c \in Above[t] => PathUp(t, c) \subseteq PathUp(t, u)
  BY <1>2, PathGrows
<1>4. /\ Settled(ph, t, outcome)[u] = IF Soured(mid, t, u) THEN "failed" ELSE "completed"
      /\ Settled(ph, t, outcome)[c] =
           IF c \notin up THEN mid[c]
           ELSE IF Soured(mid, t, c) THEN "failed" ELSE "completed"
  BY <1>1, <1>2, SettledByParts
<1>5. c \notin up => mid[c] \notin LivePhases
  <2> SUFFICES ASSUME mid[c] \in LivePhases PROVE c \in up
    OBVIOUS
  <2>1. c \in Above[t]
    BY <1>1
  <2> QED
    BY <1>1, <1>3, <2>1 DEF Up, ClosedAbove
<1>6. ~Soured(mid, t, u) => mid[c] \notin {"failed", "cancelled"}
  BY <1>1 DEF Soured
<1>7. c \in up /\ ~Soured(mid, t, u) => ~Soured(mid, t, c)
  <2>1. c \in up => c \in Above[t]
    BY UpExecutes
  <2> QED
    BY <1>3, <2>1 DEF Soured
<1> HIDE DEF mid, up
<1> QED
  BY <1>4, <1>5, <1>6, <1>7 DEF LivePhases

\* What is live below t is connected to it by live tasks.
LEMMA LiveBelowAll ==
  ASSUME ForestInv, NEW t \in Task, NEW ph \in [Task -> Phases],
         \A u \in Task \ {t} : ph[u] = phase[u]
  PROVE  LiveBelow(ph, t) = {d \in Task : t \in Above[d] /\ phase[d] \in LivePhases}
<1>1. ASSUME NEW d \in Task, t \in Above[d] PROVE d # t
  BY <1>1, ForestAssumption
<1>2. ASSUME NEW d \in Task, t \in Above[d], phase[d] \in LivePhases,
             NEW m \in Above[d], t \in Above[m]
      PROVE  ph[m] \in LivePhases
  BY <1>1, <1>2, LiveAbove, ForestAssumption
<1> QED
  BY <1>1, <1>2 DEF LiveBelow

-----------------------------------------------------------------------------
(* The dispatcher implements the forest.                                     *)

abstract == [t \in Task |-> StatusOf(t)]

LEMMA StatusCases ==
  ASSUME NEW t \in Task, phase[t] \in Phases
  PROVE  /\ abstract[t] \in {"none", "open", "done", "stopped"}
         /\ abstract[t] = "none" <=> phase[t] = "absent"
         /\ abstract[t] = "open" <=> phase[t] \in LivePhases
         /\ abstract[t] = "done" <=> phase[t] = "completed"
         /\ abstract[t] = "stopped" <=> phase[t] \in {"failed", "cancelled"}
  BY DEF abstract, StatusOf, Phases, LivePhases, TerminalPhases

LEMMA OpensRefines ==
  ASSUME ForestInv, phase' \in [Task -> Phases], NEW t \in Task, Opens(t)
  PROVE  Forest!Open(t)
<1>0. phase \in [Task -> Phases]
  BY DEF ForestInv, TypeOK
<1>1. PICK x \in LivePhases : phase' = [phase EXCEPT ![t] = x]
  BY DEF Opens
<1>2. abstract[t] \in {"done", "stopped"} => t \in Retried
  BY <1>0, StatusCases DEF Opens, MaySubmit, LivePhases
<1>3. ASSUME Parent[t] # None PROVE abstract[Parent[t]] = "open"
  <2>1. Parent[t] \in Task /\ Parent[t] \in Above[t]
    BY <1>3, ForestAssumption
  <2>2. phase[Parent[t]] \in LivePhases
    <3>1. CASE phase[t] \in LivePhases
      BY <2>1, <3>1, LiveAbove
    <3>2. CASE MaySubmit(t) /\ ParentOpen(t)
      BY <1>0, <1>3, <2>1, <3>2 DEF MaySubmit, ParentOpen, Phases
    <3> QED
      BY <3>1, <3>2 DEF Opens
  <2> QED
    BY <1>0, <2>1, <2>2, StatusCases
<1>4. abstract' = [abstract EXCEPT ![t] = "open"]
  BY <1>0, <1>1 DEF abstract, StatusOf, LivePhases
<1> QED
  BY <1>2, <1>3, <1>4 DEF Forest!Open, Forest!Closed, abstract

LEMMA ClosesRefines ==
  ASSUME ForestInv, phase' \in [Task -> Phases], NEW t \in Task,
         NEW ph \in [Task -> Phases], NEW outcome \in TerminalPhases,
         Closes(t, ph, outcome)
  PROVE  Forest!Next
<1> DEFINE up    == Up(ph, t, outcome)
           below == {d \in Task : t \in Above[d] /\ abstract[d] = "open"}
           end   == IF outcome = "completed" THEN "done" ELSE "stopped"
<1>0. phase \in [Task -> Phases]
  BY DEF ForestInv, TypeOK
<1>1. below = LiveBelow(ph, t)
  BY <1>0, LiveBelowAll, StatusCases DEF Closes
<1>2. phase' = [u \in Task |->
         IF u \notin up THEN Mid(ph, t, outcome)[u]
         ELSE IF Soured(Mid(ph, t, outcome), t, u) THEN "failed" ELSE "completed"]
  BY SettledByParts DEF Closes
<1>3. ASSUME NEW u \in Task PROVE
        /\ abstract'[u] \in {"none", "open", "done", "stopped"}
        /\ abstract'[u] = "open" <=> phase'[u] \in LivePhases
        /\ abstract'[u] = "done" <=> phase'[u] = "completed"
        /\ abstract'[u] = "stopped" <=> phase'[u] \in {"failed", "cancelled"}
        /\ phase'[u] = phase[u] => abstract'[u] = abstract[u]
  BY DEF abstract, StatusOf, Phases, LivePhases, TerminalPhases
<1>4. abstract[t] \in {"done", "stopped"} => t \in Retried
  BY <1>0, StatusCases DEF Closes, MaySubmit, LivePhases
<1>5. outcome = "completed" => below = {}
  <2> SUFFICES ASSUME outcome = "completed", NEW d \in below PROVE FALSE
    OBVIOUS
  <2>1. d \in Task /\ t \in Above[d] /\ phase[d] \in LivePhases
    BY <1>0, StatusCases
  <2>2. PICK c \in Children(t) : c = d \/ c \in Above[d]
    BY <2>1, ChildTowards
  <2>3. phase[c] \in LivePhases
    BY <2>1, <2>2, LiveAbove
  <2> QED
    BY <2>2, <2>3 DEF Closes, HasActiveChild
<1>6. ASSUME NEW u \in up PROVE
        /\ u \in Above[t] /\ u \in Task /\ u # t /\ u \notin below
        /\ abstract[u] = "open"
  <2>1. u \in Task /\ u # t /\ u \in Above[t] /\ t \notin Above[u] /\ ph[u] = "executing"
    BY UpExecutes
  <2> QED
    BY <1>0, <2>1, StatusCases DEF Closes, LivePhases
<1>7. t \notin below
  BY ForestAssumption
<1> HIDE DEF up, below
<1>8. abstract'[t] = end
  BY <1>2, <1>3, <1>6 DEF Mid, TerminalPhases
<1>9. ASSUME NEW d \in below, outcome # "completed" PROVE abstract'[d] = "stopped"
  <2>1. d \in Task /\ d \in LiveBelow(ph, t)
    BY <1>1 DEF LiveBelow
  <2> QED
    BY <1>2, <1>3, <1>6, <1>7, <1>9, <2>1 DEF Mid
<1>10. \A d \in up : abstract'[d] \in {"done", "stopped"}
  BY <1>2, <1>3, <1>6
<1>11. ASSUME NEW d \in Task, d \notin up, d # t, outcome # "completed" => d \notin below
       PROVE  abstract'[d] = abstract[d]
  BY <1>1, <1>2, <1>3, <1>11 DEF Mid, Closes
<1>12. ASSUME NEW d \in up, NEW c \in Task, Parent[c] = d
       PROVE  /\ abstract'[c] # "open"
              /\ abstract'[d] = "done" => abstract'[c] # "stopped"
  <2>1. c \in Children(d) /\ d \in Task
    BY <1>6, <1>12 DEF Children
  <2>2. /\ phase'[c] \notin LivePhases
        /\ phase'[d] = "completed" => phase'[c] \notin {"failed", "cancelled"}
    BY <2>1, UpIsClean DEF Closes, up
  <2> QED
    BY <1>3, <2>1, <2>2
<1>13. abstract' \in [Task -> {"none", "open", "done", "stopped"}]
  BY <1>3 DEF abstract
<1>14. up \in SUBSET Above[t] /\ end \in {"done", "stopped"}
  BY <1>6
<1>15. Forest!End(t, end, up)
  <2>1. CASE outcome = "completed"
    BY <1>4, <1>5, <1>6, <1>8, <1>10, <1>11, <1>12, <1>13, <2>1
       DEF Forest!End, Forest!Closed, Forest!Statuses, abstract, below
  <2>2. CASE outcome # "completed"
    BY <1>4, <1>6, <1>8, <1>9, <1>10, <1>11, <1>12, <1>13, <2>2
       DEF Forest!End, Forest!Closed, Forest!Statuses, abstract, below
  <2> QED
    BY <2>1, <2>2
<1> QED
  BY <1>14, <1>15 DEF Forest!Next, Forest!Closed

\* Whatever the mixture of submissions, decisions, calls that return late,
\* retries and restarts, the dispatcher does to its tasks what TaskForest
\* allows, as long as no decision expires: a step opens one task under an open
\* parent, or closes one and what follows from it.
THEOREM RefinesForest ==
  ASSUME "recovery" \notin Faults
  PROVE  Spec => ImplementsForest
<1>1. Init => Forest!Init
  <2> SUFFICES ASSUME Init PROVE [t \in Task |-> StatusOf(t)] = [t \in Task |-> "none"]
    BY DEF Forest!Init
  <2>1. ASSUME NEW t \in Task PROVE StatusOf(t) = "none"
    BY DEF Init, StatusOf, LivePhases
  <2> QED
    BY <2>1
<1>2. ForestInv /\ TypeOK' /\ [Next]_vars => [Forest!Next]_abstract
  <2> SUFFICES ASSUME ForestInv, TypeOK', [Next]_vars PROVE [Forest!Next]_abstract
    OBVIOUS
  <2>1. Forward /\ phase' \in [Task -> Phases]
    BY StepForward DEF ForestInv, TypeOK
  <2>2. CASE phase' = phase
    BY <2>2 DEF abstract, StatusOf
  <2>3. ASSUME NEW t \in Task, Opens(t) PROVE Forest!Next
    BY <2>1, <2>3, OpensRefines DEF Forest!Next
  <2>4. ASSUME NEW t \in Task, NEW ph \in [Task -> Phases], NEW outcome \in TerminalPhases,
               Closes(t, ph, outcome)
        PROVE  Forest!Next
    BY <2>1, <2>4, ClosesRefines
  <2> QED
    BY <2>1, <2>2, <2>3, <2>4 DEF Forward
<1>3. ForestInv => TypeOK
  BY DEF ForestInv
<1> QED
  BY <1>1, <1>2, <1>3, ForestInvariant, PTL DEF Spec, ImplementsForest, Forest!Spec, abstract

-----------------------------------------------------------------------------
(* The end of a last child.                                                  *)

\* When a cascade leaves an executing p without live children, then it stopped
\* p, or everything on the way to p could close but p itself, where all hangs
\* on its closeout.
LEMMA LastChildEnds ==
  ASSUME ForestInv, NEW t \in Task, NEW ph \in [Task -> Phases],
         NEW outcome \in TerminalPhases, Closes(t, ph, outcome),
         NEW p \in Task, p # t, phase[p] = "executing", HasActiveChild(p),
         \A c \in Children(p) : phase'[c] \notin LivePhases
  PROVE  \/ /\ phase'[p] = "cancelled"
            /\ \E c \in Children(p) : phase'[c] = "cancelled"
         \/ /\ p \in Above[t]
            /\ \A v \in PathUp(t, p) :
                 /\ Mid(ph, t, outcome)[v] = "executing"
                 /\ \A c \in Children(v) :
                      Mid(ph, t, outcome)[c] \in LivePhases => c \in Above[t]
                 /\ v = p \/ MayClose(Mid(ph, t, outcome), t, v)
            /\ \E c \in Children(p) :
                 \/ c = t
                 \/ /\ c \in Up(ph, t, outcome)
                    /\ \A v \in PathUp(t, p) : v = p \/ v \in PathUp(t, c)
<1> DEFINE mid == Mid(ph, t, outcome)
           up  == Up(ph, t, outcome)
<1>1. PICK c \in Children(p) : phase[c] \in LivePhases
  BY DEF HasActiveChild
<1>2. /\ c \in Task /\ Parent[c] = p /\ p # None
      /\ Above[c] = {p} \cup Above[p] /\ p \notin Above[p]
  BY ForestAssumption DEF Children
<1>3. phase' = [u \in Task |-> IF u \notin up THEN mid[u]
                ELSE IF Soured(mid, t, u) THEN "failed" ELSE "completed"]
  BY SettledByParts DEF Closes
<1>4. ph[p] = "executing" /\ (c # t => ph[c] = phase[c])
  BY <1>2 DEF Closes
<1>5. CASE outcome # "completed" /\ t \in Above[c]
  <2>1. t \in Above[p] /\ phase[p] \in LivePhases
    BY <1>2, <1>5 DEF LivePhases
  <2>2. p \in LiveBelow(ph, t) /\ c \in LiveBelow(ph, t) /\ c # t
    BY <1>1, <1>2, <1>5, <2>1, LiveBelowAll, ForestAssumption DEF Closes
  <2>3. p \notin up /\ c \notin up
    BY <1>5, <2>1, UpExecutes
  <2> QED
    BY <1>2, <1>3, <1>5, <2>2, <2>3 DEF Mid
<1>6. CASE ~(outcome # "completed" /\ t \in Above[c])
  <2>1. c # t => mid[c] = phase[c]
    BY <1>2, <1>4, <1>6 DEF Mid, LiveBelow
  <2>2. c = t \/ c \in up
    <3> HIDE DEF mid, up
    <3> QED BY <1>1, <1>2, <1>3, <2>1
  <2>3. c = t \/ c \in Above[t]
    BY <2>2, UpExecutes
  <2>4. /\ p \in Above[t]
        /\ \A v \in PathUp(t, p) : v = p \/ (c # t /\ v \in PathUp(t, c))
    BY <2>3, PathToParent
  <2>5. mid[p] = "executing"
    BY <1>4, <2>4, ForestAssumption DEF Mid, LiveBelow
  <2>6. ASSUME NEW d \in Children(p), mid[d] \in LivePhases PROVE d \in Above[t]
    <3>1. d \in Task
      BY DEF Children
    <3>2. d \in up
      <4> HIDE DEF mid, up
      <4> QED BY <1>3, <2>6, <3>1
    <3> QED
      BY <3>2, UpExecutes
  <2>7. c # t => \A v \in PathUp(t, c) :
                   /\ mid[v] = "executing"
                   /\ \A d \in Children(v) : mid[d] \in LivePhases => d \in Above[t]
                   /\ MayClose(mid, t, v)
    BY <2>2, UpExecutes
  <2> HIDE DEF mid, up
  <2>8. \A v \in PathUp(t, p) :
          /\ mid[v] = "executing"
          /\ \A d \in Children(v) : mid[d] \in LivePhases => d \in Above[t]
          /\ v = p \/ MayClose(mid, t, v)
    BY <2>4, <2>5, <2>6, <2>7
  <2> QED
    BY <2>2, <2>4, <2>8 DEF mid, up
<1> QED
  BY <1>5, <1>6

LEMMA ParentFollows ==
  ASSUME ForestInv, Forward, NEW p \in Task,
         phase[p] = "executing", HasActiveChild(p), ~HasActiveChild(p)'
  PROVE  /\ p \notin Explicit => phase'[p] \in TerminalPhases
         /\ phase'[p] = "completed" =>
              \A c \in Children(p) : phase'[c] \notin {"failed", "cancelled"}
<1>0. phase \in [Task -> Phases] /\ \A c \in Children(p) : c \in Task
  BY DEF ForestInv, TypeOK, Children
<1>1. \A c \in Children(p) : phase'[c] \notin LivePhases
  BY DEF HasActiveChild, Children
<1>2. CASE phase' = phase
  BY <1>1, <1>2 DEF HasActiveChild
<1>3. ASSUME NEW t \in Task, Opens(t) PROVE FALSE
  BY <1>0, <1>1, <1>3 DEF Opens, HasActiveChild
<1>4. ASSUME NEW t \in Task, NEW ph \in [Task -> Phases], NEW outcome \in TerminalPhases,
             Closes(t, ph, outcome)
      PROVE  /\ p \notin Explicit => phase'[p] \in TerminalPhases
             /\ phase'[p] = "completed" =>
                  \A c \in Children(p) : phase'[c] \notin {"failed", "cancelled"}
  <2> DEFINE mid == Mid(ph, t, outcome)
             up  == Up(ph, t, outcome)
  <2>1. phase' = Settled(ph, t, outcome)
    BY <1>4 DEF Closes
  <2>2. phase' = [u \in Task |-> IF u \notin up THEN mid[u]
                  ELSE IF Soured(mid, t, u) THEN "failed" ELSE "completed"]
    BY <2>1, SettledByParts
  <2>3. CASE p = t
    <3>1. outcome # "completed" /\ t \notin up
      BY <1>4, <2>3, UpExecutes DEF Closes
    <3> QED
      BY <2>2, <2>3, <3>1 DEF Mid
  <2>4. CASE p \in up
    <3>1. phase'[p] \in {"failed", "completed"}
      <4> HIDE DEF mid, up
      <4> QED BY <2>2, <2>4
    <3> QED
      BY <2>1, <2>4, <3>1, UpIsClean DEF TerminalPhases
  <2>5. CASE p # t /\ p \notin up
    <3>1. CASE phase'[p] = "cancelled"
      BY <3>1 DEF TerminalPhases
    <3>2. CASE /\ p \in Above[t]
               /\ \A v \in PathUp(t, p) :
                    /\ mid[v] = "executing"
                    /\ \A c \in Children(v) : mid[c] \in LivePhases => c \in Above[t]
                    /\ v = p \/ MayClose(mid, t, v)
      <4>1. p \in Explicit
        BY <2>5, <3>2 DEF Up, ClosedAbove, MayClose
      <4>2. phase'[p] = "executing"
        <5>1. p \in PathUp(t, p)
          BY <3>2 DEF PathUp
        <5> HIDE DEF mid, up
        <5> QED BY <2>2, <2>5, <3>2, <5>1
      <4> QED
        BY <4>1, <4>2
    <3> QED
      BY <1>1, <1>4, <2>5, <3>1, <3>2, LastChildEnds
  <2> QED
    BY <2>3, <2>4, <2>5
<1> QED
  BY <1>2, <1>3, <1>4 DEF Forward

\* The end of its last child closes an executing parent in the same step,
\* unless the parent waits for an explicit closeout, and a parent that completes
\* in that step has no child that failed or was cancelled.
THEOREM LastChildCloses ==
  ASSUME "recovery" \notin Faults
  PROVE  Spec => ParentFollowsLastChild
<1>1. ForestInv /\ [Next]_vars =>
        [\A p \in Task :
           phase[p] = "executing" /\ HasActiveChild(p) /\ ~HasActiveChild(p)' =>
             /\ p \notin Explicit => phase'[p] \in TerminalPhases
             /\ phase'[p] = "completed" =>
                  \A c \in Children(p) : phase'[c] \notin {"failed", "cancelled"}]_vars
  BY ParentFollows, StepForward DEF ForestInv
<1> QED
  BY <1>1, ForestInvariant, PTL DEF Spec, ParentFollowsLastChild

LEMMA CloseoutReplays ==
  ASSUME ForestInv, Forward, NEW p \in Task,
         phase[p] = "executing", deferred[p], HasActiveChild(p),
         \A c \in Children(p) : phase'[c] \in {"absent", "completed"}
  PROVE  phase'[p] = "completed"
<1>0. phase \in [Task -> Phases] /\ \A c \in Children(p) : c \in Task
  BY DEF ForestInv, TypeOK, Children
<1>1. \A c \in Children(p) : phase'[c] \notin LivePhases
  BY DEF LivePhases
<1>2. CASE phase' = phase
  BY <1>1, <1>2 DEF HasActiveChild
<1>3. ASSUME NEW t \in Task, Opens(t) PROVE FALSE
  BY <1>0, <1>1, <1>3 DEF Opens, HasActiveChild
<1>4. ASSUME NEW t \in Task, NEW ph \in [Task -> Phases], NEW outcome \in TerminalPhases,
             Closes(t, ph, outcome)
      PROVE  phase'[p] = "completed"
  <2> DEFINE mid == Mid(ph, t, outcome)
             up  == Up(ph, t, outcome)
  <2>1. phase' = [u \in Task |-> IF u \notin up THEN mid[u]
                  ELSE IF Soured(mid, t, u) THEN "failed" ELSE "completed"]
    BY <1>4, SettledByParts DEF Closes
  <2>2. p # t
    <3> SUFFICES ASSUME p = t PROVE FALSE
      OBVIOUS
    <3>1. outcome # "completed"
      BY <1>4 DEF Closes
    <3>2. PICK c \in Children(p) : phase[c] \in LivePhases
      BY DEF HasActiveChild
    <3>3. c \in Task /\ c # t /\ t \in Above[c]
      BY <3>2, ForestAssumption DEF Children
    <3>4. c \in LiveBelow(ph, t)
      BY <1>4, <3>2, <3>3, LiveBelowAll DEF Closes
    <3>5. c \notin up
      BY <3>3, UpExecutes
    <3>6. phase'[c] = "cancelled"
      BY <2>1, <3>1, <3>3, <3>4, <3>5 DEF Mid
    <3> QED
      BY <3>2, <3>6
  <2>3. PICK c \in Children(p) :
          /\ p \in Above[t]
          /\ \A v \in PathUp(t, p) :
               /\ mid[v] = "executing"
               /\ \A d \in Children(v) : mid[d] \in LivePhases => d \in Above[t]
               /\ v = p \/ MayClose(mid, t, v)
          /\ \/ c = t
             \/ c \in up /\ \A v \in PathUp(t, p) : v = p \/ v \in PathUp(t, c)
    BY <1>1, <1>4, <2>2, LastChildEnds
  <2>4. \A d \in Children(p) : mid[d] \notin {"failed", "cancelled"}
    <3> SUFFICES ASSUME NEW d \in Children(p), mid[d] \in {"failed", "cancelled"}
                 PROVE  FALSE
      OBVIOUS
    <3>1. d \notin up
      <4>1. d \in up => d \in PathUp(t, d) /\ mid[d] = "executing"
        BY UpExecutes
      <4> QED BY <4>1
    <3> HIDE DEF mid, up
    <3> QED
      BY <1>0, <2>1, <3>1
  <2>5. ~Soured(mid, t, p)
    <3>1. CASE c = t
      <4>1. \A v \in PathUp(t, p) : v = p
        BY <3>1, PathToParent
      <4>2. mid[t] \notin {"failed", "cancelled"}
        BY <2>4, <3>1
      <4> QED
        BY <2>4, <4>1, <4>2 DEF Soured
    <3>2. CASE c \in up /\ \A v \in PathUp(t, p) : v = p \/ v \in PathUp(t, c)
      <4>1. ~Soured(mid, t, c)
        <5> HIDE DEF mid, up
        <5> QED BY <1>0, <2>1, <3>2
      <4> QED
        BY <2>4, <3>2, <4>1 DEF Soured
    <3> QED
      BY <2>3, <3>1, <3>2
  <2>6. p \in up
    BY <2>3, <2>5 DEF Up, ClosedAbove, MayClose
  <2> HIDE DEF mid, up
  <2> QED
    BY <2>1, <2>5, <2>6
<1> QED
  BY <1>2, <1>3, <1>4 DEF Forward

\* A closeout that was deferred is carried out in the step in which the last
\* child ends, when every child completed.
THEOREM DeferredCloseoutReplays ==
  ASSUME "recovery" \notin Faults
  PROVE  Spec => CleanCloseoutReplayed
<1>1. ForestInv /\ [Next]_vars =>
        [\A p \in Task :
           /\ phase[p] = "executing" /\ deferred[p] /\ HasActiveChild(p)
           /\ \A c \in Children(p) : phase'[c] \in {"absent", "completed"}
           => phase'[p] = "completed"]_vars
  BY CloseoutReplays, StepForward DEF ForestInv
<1> QED
  BY <1>1, ForestInvariant, PTL DEF Spec, CleanCloseoutReplayed

-----------------------------------------------------------------------------
(* The recursion of the cascade.                                             *)

\* Two tree states that agree on every task are the same.
LEMMA SameTree ==
  ASSUME NEW a \in TreeState, NEW b \in TreeState,
         \A u \in Task : /\ a.phase[u] = b.phase[u]
                         /\ a.decision[u] = b.decision[u]
                         /\ a.deferred[u] = b.deferred[u]
  PROVE  a = b
<1>1. a.phase = b.phase /\ a.decision = b.decision /\ a.deferred = b.deferred
  BY DEF TreeState
<1>2. /\ a = [phase |-> a.phase, decision |-> a.decision, deferred |-> a.deferred]
      /\ b = [phase |-> b.phase, decision |-> b.decision, deferred |-> b.deferred]
  BY DEF TreeState
<1> QED
  BY <1>1, <1>2

\* r is s with the end of t recorded.
Recorded(r, s, t, outcome) ==
  /\ r \in TreeState
  /\ \A u \in Task :
       /\ r.phase[u] = IF u = t THEN outcome ELSE s.phase[u]
       /\ r.decision[u] = IF u = t /\ outcome # "completed" /\ s.decision[u] \in PendingStatuses
                          THEN "rejected" ELSE s.decision[u]
       /\ r.deferred[u] = IF u = t THEN FALSE ELSE s.deferred[u]

LEMMA RecordType ==
  ASSUME NEW s \in TreeState, NEW t \in Task, NEW outcome \in TerminalPhases
  PROVE  Recorded(Record(s, t, outcome), s, t, outcome)
  BY DEF Recorded, Record, TreeState, Phases, TerminalPhases, DecisionStatuses

\* Everything in D is cancelled.
Swept(s, D) ==
  [phase    |-> [u \in Task |-> IF u \in D THEN "cancelled" ELSE s.phase[u]],
   decision |-> [u \in Task |-> IF u \in D /\ s.decision[u] \in PendingStatuses
                               THEN "rejected" ELSE s.decision[u]],
   deferred |-> [u \in Task |-> IF u \in D THEN FALSE ELSE s.deferred[u]]]

LEMMA SweptType ==
  ASSUME NEW s \in TreeState, NEW D
  PROVE  Swept(s, D) \in TreeState
  BY DEF Swept, TreeState, Phases, TerminalPhases, DecisionStatuses

\* ClosedAbove of a tree state, by its own deferrals.
LiftedTasks(s, t) ==
  {u \in Above[t] :
     \A v \in PathUp(t, u) :
       /\ s.phase[v] = "executing"
       /\ \A c \in Children(v) : s.phase[c] \in LivePhases => c \in Above[t]
       /\ v \notin Explicit \/ (s.deferred[v] /\ ~Soured(s.phase, t, v))}

\* The ancestors of t that its end closes are closed.
Lifted(s, t) ==
  LET up == LiftedTasks(s, t)
  IN  [phase    |-> [u \in Task |-> IF u \notin up THEN s.phase[u]
                                   ELSE IF Soured(s.phase, t, u) THEN "failed" ELSE "completed"],
       decision |-> [u \in Task |-> IF u \in up /\ Soured(s.phase, t, u)
                                        /\ s.decision[u] \in PendingStatuses
                                   THEN "rejected" ELSE s.decision[u]],
       deferred |-> [u \in Task |-> IF u \in up THEN FALSE ELSE s.deferred[u]]]

LEMMA LiftedType ==
  ASSUME NEW s \in TreeState, NEW t \in Task
  PROVE  /\ Lifted(s, t) \in TreeState
         /\ LiftedTasks(s, t) = {} => Lifted(s, t) = s
<1>1. Lifted(s, t) \in TreeState
  BY DEF Lifted, TreeState, Phases, TerminalPhases, DecisionStatuses
<1>2. ASSUME LiftedTasks(s, t) = {} PROVE Lifted(s, t) = s
  <2>1. \A u \in Task : /\ Lifted(s, t).phase[u] = s.phase[u]
                        /\ Lifted(s, t).decision[u] = s.decision[u]
                        /\ Lifted(s, t).deferred[u] = s.deferred[u]
    BY <1>2 DEF Lifted
  <2> QED
    BY <1>1, <2>1, SameTree
<1> QED
  BY <1>1, <1>2

\* What a cascade makes of a tree state in which the end of t is recorded.
Fallen(s, t) ==
  IF s.phase[t] = "completed" THEN s ELSE Swept(s, LiveBelow(s.phase, t))

Final(s, t) == Lifted(Fallen(s, t), t)

-----------------------------------------------------------------------------
(* The fold over the children.                                               *)

\* Of sets of tasks, one has none of the others inside it.
LEMMA SmallestSet ==
  ASSUME NEW X \in SUBSET (SUBSET Task), X # {}
  PROVE  \E m \in X : \A n \in X : n \subseteq m => n = m
<1>1. IsWellFoundedOn(StrictSubsetOrdering(Task), SUBSET Task)
  BY FiniteAssumption, FS_StrictSubsetOrderingWellFounded, FS_FiniteSubsetsOfFinite
<1>2. PICK m \in X : \A n \in X : ~ (<<n, m>> \in StrictSubsetOrdering(Task))
  BY <1>1, WFMin
<1>3. ASSUME NEW n \in X, n \subseteq m PROVE n = m
  BY <1>2, <1>3 DEF StrictSubsetOrdering
<1> QED
  BY <1>3

\* g says what cancelling each subset of S, one after the other, makes of s.
Unfolds(g, after, s, S) ==
  /\ g \in [SUBSET S -> TreeState]
  /\ g[{}] = s
  /\ \A K \in SUBSET S : \A c \in K : g[K] = CancelTask(after, g[K \ {c}], c)

LEMMA FoldCancels ==
  ASSUME NEW after, NEW s, NEW S \in SUBSET Task, NEW g, Unfolds(g, after, s, S)
  PROVE  CancelEach(after, s, S) = g[S]
<1>0. /\ g \in [SUBSET S -> TreeState]
      /\ g[{}] = s
      /\ \A K \in SUBSET S : \A c \in K : g[K] = CancelTask(after, g[K \ {c}], c)
  BY DEF Unfolds
<1> DEFINE Pick(K) == CHOOSE c \in K : TRUE
           Step(h, K) == IF K = {} THEN s ELSE CancelTask(after, h[K \ {Pick(K)}], Pick(K))
           iter == CHOOSE h : h = [K \in SUBSET S |-> Step(h, K)]
<1>1. CancelEach(after, s, S) = iter[S]
  BY DEF CancelEach, FoldSet, MapThenFoldSet
<1>2. \A K \in SUBSET S : K # {} => Pick(K) \in K
  OBVIOUS
<1> HIDE DEF Pick
<1>3. \A K \in SUBSET S : g[K] = Step(g, K)
  BY <1>0, <1>2
<1>4. g = [K \in SUBSET S |-> Step(g, K)]
  <2> HIDE DEF Step
  <2> QED BY <1>0, <1>3
<1>5. iter = [K \in SUBSET S |-> Step(iter, K)]
  <2> HIDE DEF Step
  <2> QED BY <1>4
<1>6. \A K \in SUBSET S : iter[K] = Step(iter, K)
  <2> HIDE DEF Step, iter
  <2> QED BY <1>5
<1> HIDE DEF iter
<1>7. SUFFICES ASSUME {K \in SUBSET S : iter[K] # g[K]} # {} PROVE FALSE
  BY <1>1
<1> DEFINE X == {K \in SUBSET S : iter[K] # g[K]}
<1>8. X \in SUBSET (SUBSET Task) /\ X # {}
  BY <1>7
<1>9. PICK K \in X : \A L \in X : L \subseteq K => L = K
  <2> HIDE DEF X
  <2> QED BY <1>8, SmallestSet
<1>10. ASSUME K # {} PROVE iter[K \ {Pick(K)}] = g[K \ {Pick(K)}]
  <2>1. Pick(K) \in K /\ K \in SUBSET S
    BY <1>2, <1>10
  <2>2. K \ {Pick(K)} \in SUBSET S /\ K \ {Pick(K)} # K /\ K \ {Pick(K)} \subseteq K
    BY <2>1
  <2> QED
    BY <1>9, <2>2
<1>11. iter[K] = g[K]
  BY <1>3, <1>6, <1>10
<1> QED
  BY <1>11

-----------------------------------------------------------------------------
(* Down the tree.                                                            *)

Unended(s) == {u \in Task : ~Ended(s, u)}

\* `after` is right about all tree states with fewer unended tasks than s.
RightBelow(after, s) ==
  \A x \in Closing :
    Unended(x[1]) \subseteq Unended(s) /\ Unended(x[1]) # Unended(s)
      => after[x] = Final(x[1], x[2])

\* What cancelling c cancels.
Felled(ph, c) == IF ph[c] \in LivePhases THEN {c} \cup LiveBelow(ph, c) ELSE {}

LEMMA SweptTwice ==
  ASSUME NEW s \in TreeState, NEW D, NEW E
  PROVE  /\ Swept(Swept(s, D), E) = Swept(s, D \cup E)
         /\ Swept(s, {}) = s
<1>1. \A u \in Task :
        /\ Swept(Swept(s, D), E).phase[u] = Swept(s, D \cup E).phase[u]
        /\ Swept(Swept(s, D), E).decision[u] = Swept(s, D \cup E).decision[u]
        /\ Swept(Swept(s, D), E).deferred[u] = Swept(s, D \cup E).deferred[u]
  BY DEF Swept, PendingStatuses
<1>2. \A u \in Task :
        /\ Swept(s, {}).phase[u] = s.phase[u]
        /\ Swept(s, {}).decision[u] = s.decision[u]
        /\ Swept(s, {}).deferred[u] = s.deferred[u]
  BY DEF Swept
<1>3. /\ Swept(s, D) \in TreeState /\ Swept(Swept(s, D), E) \in TreeState
      /\ Swept(s, D \cup E) \in TreeState /\ Swept(s, {}) \in TreeState
  BY SweptType
<1> QED
  BY <1>1, <1>2, <1>3, SameTree

\* What is live below c depends on the phases below c only.
LEMMA LiveBelowLocal ==
  ASSUME NEW ph, NEW qh, NEW c \in Task,
         \A d \in Task : c \in Above[d] => qh[d] = ph[d]
  PROVE  LiveBelow(qh, c) = LiveBelow(ph, c)
<1>1. \A d \in Task : Above[d] \subseteq Task
  BY ForestAssumption
<1> QED
  BY <1>1 DEF LiveBelow

LEMMA PhaseOf ==
  ASSUME NEW s \in TreeState, NEW u \in Task
  PROVE  /\ s.phase[u] \in {"absent"} \cup LivePhases \cup TerminalPhases
         /\ s.phase[u] # "absent" /\ ~Ended(s, u) <=> s.phase[u] \in LivePhases
         /\ Ended(s, u) => s.phase[u] \notin LivePhases /\ s.phase[u] # "absent"
<1>1. s.phase[u] \in Phases
  BY DEF TreeState
<1> QED
  BY <1>1 DEF Ended, Phases, LivePhases, TerminalPhases

\* Nothing above a task closes while its parent does not execute.
LEMMA NothingLifted ==
  ASSUME NEW s, NEW t \in Task, Parent[t] = None \/ s.phase[Parent[t]] # "executing"
  PROVE  LiftedTasks(s, t) = {}
<1> SUFFICES ASSUME NEW u \in LiftedTasks(s, t) PROVE FALSE
  OBVIOUS
<1>1. u \in Above[t] /\ \A v \in PathUp(t, u) : s.phase[v] = "executing"
  BY DEF LiftedTasks
<1>2. Parent[t] # None /\ Above[t] = {Parent[t]} \cup Above[Parent[t]]
  BY <1>1, ForestAssumption
<1>3. Parent[t] \in PathUp(t, u)
  BY <1>1, <1>2 DEF PathUp
<1> QED
  BY <1>1, <1>2, <1>3

LEMMA CancelSweeps ==
  ASSUME NEW s \in TreeState, NEW c \in Task, s.phase[c] # "absent",
         Parent[c] # None, Ended(s, Parent[c]),
         NEW after, RightBelow(after, s)
  PROVE  CancelTask(after, s, c) = Swept(s, Felled(s.phase, c))
<1>1. CASE Ended(s, c)
  BY <1>1, PhaseOf, SweptTwice DEF CancelTask, Felled
<1>2. CASE ~Ended(s, c)
  <2> DEFINE s1 == Record(s, c, "cancelled")
             D  == LiveBelow(s.phase, c)
             s2 == Swept(s1, D)
  <2>1. /\ s1 \in TreeState
        /\ \A u \in Task :
             /\ s1.phase[u] = IF u = c THEN "cancelled" ELSE s.phase[u]
             /\ s1.decision[u] = IF u = c /\ s.decision[u] \in PendingStatuses
                                 THEN "rejected" ELSE s.decision[u]
             /\ s1.deferred[u] = IF u = c THEN FALSE ELSE s.deferred[u]
    <3>1. Recorded(s1, s, c, "cancelled")
      BY RecordType DEF TerminalPhases
    <3> HIDE DEF s1
    <3> QED
      BY <3>1 DEF Recorded
  <2> HIDE DEF s1
  <2>2. <<s1, c>> \in Closing
    BY <2>1 DEF Closing, Ended, TerminalPhases
  <2>3. Unended(s1) \subseteq Unended(s) /\ Unended(s1) # Unended(s)
    BY <1>2, <2>1 DEF Unended, Ended, TerminalPhases
  <2>4. after[s1, c] = Final(s1, c)
    BY <2>2, <2>3 DEF RightBelow
  <2>5. LiveBelow(s1.phase, c) = D
    <3>1. \A d \in Task : c \in Above[d] => s1.phase[d] = s.phase[d]
      BY <2>1, ForestAssumption
    <3> QED
      BY <3>1, LiveBelowLocal
  <2>6. Final(s1, c) = Lifted(s2, c)
    BY <2>1, <2>5 DEF Final, Fallen
  <2>7. Parent[c] \in Task /\ Parent[c] # c /\ Parent[c] \notin D
    BY PhaseOf, ForestAssumption DEF LiveBelow
  <2>8. s2.phase[Parent[c]] # "executing"
    BY <2>1, <2>7, PhaseOf DEF Swept, LivePhases
  <2>9. s2 \in TreeState /\ Lifted(s2, c) = s2
    BY <2>1, <2>8, SweptType, LiftedType, NothingLifted
  <2>10. s2 = Swept(s, {c} \cup D)
    <3>1. Swept(s, {c} \cup D) \in TreeState
      BY SweptType
    <3>2. \A u \in Task :
            /\ s2.phase[u] = Swept(s, {c} \cup D).phase[u]
            /\ s2.decision[u] = Swept(s, {c} \cup D).decision[u]
            /\ s2.deferred[u] = Swept(s, {c} \cup D).deferred[u]
      BY <2>1 DEF Swept, PendingStatuses
    <3> QED
      BY <2>9, <3>1, <3>2, SameTree
  <2>11. Felled(s.phase, c) = {c} \cup D
    BY <1>2, PhaseOf DEF Felled
  <2> QED
    BY <1>2, <2>4, <2>6, <2>9, <2>10, <2>11 DEF CancelTask, s1
<1> QED
  BY <1>1, <1>2

\* The subtrees of two children are apart.
LEMMA SiblingsApart ==
  ASSUME NEW t \in Task, NEW c \in Children(t), NEW k \in Children(t), c # k,
         NEW d \in Task, d = c \/ c \in Above[d]
  PROVE  ~(d = k \/ k \in Above[d])
<1>1. /\ c \in Task /\ k \in Task /\ t \notin Above[t]
      /\ Above[c] = {t} \cup Above[t] /\ Above[k] = {t} \cup Above[t]
  BY ForestAssumption DEF Children
<1>2. c \notin Above[k] /\ k \notin Above[c]
  BY <1>1, ForestAssumption
<1>3. ~(c \in Above[d] /\ k \in Above[d])
  BY <1>2, Comparable
<1> QED
  BY <1>2, <1>3

\* What is live below t falls with its children.
LEMMA FelledChildren ==
  ASSUME NEW s \in TreeState, NEW t \in Task
  PROVE  {d \in Task : \E c \in ChildTasks(s, t) : d \in Felled(s.phase, c)}
           = LiveBelow(s.phase, t)
<1>0. \A c \in Children(t) : /\ c \in Task /\ Above[c] = {t} \cup Above[t]
                             /\ t \notin Above[t] /\ t # None
  BY ForestAssumption DEF Children
<1>1. ASSUME NEW c \in ChildTasks(s, t), NEW d \in Felled(s.phase, c)
      PROVE  d \in LiveBelow(s.phase, t)
  <2>1. c \in Children(t) /\ s.phase[c] \in LivePhases /\ (d = c \/ d \in LiveBelow(s.phase, c))
    BY <1>1 DEF Felled, ChildTasks
  <2>2. /\ c \in Task /\ d \in Task /\ t \in Above[d] /\ s.phase[d] \in LivePhases
        /\ d = c \/ c \in Above[d]
    BY <1>0, <2>1, ForestAssumption DEF LiveBelow
  <2>3. ASSUME NEW m \in Above[d], t \in Above[m] PROVE s.phase[m] \in LivePhases
    <3>1. m \in Task /\ m \notin Above[c]
      BY <1>0, <2>1, <2>2, <2>3, ForestAssumption
    <3>2. d # c
      BY <2>3, <3>1
    <3>3. m = c \/ c \in Above[m]
      BY <2>2, <2>3, <3>1, <3>2, Comparable
    <3> QED
      BY <2>1, <2>3, <3>2, <3>3 DEF LiveBelow
  <2> QED
    BY <2>2, <2>3 DEF LiveBelow
<1>2. ASSUME NEW d \in LiveBelow(s.phase, t)
      PROVE  \E c \in ChildTasks(s, t) : d \in Felled(s.phase, c)
  <2>1. /\ d \in Task /\ t \in Above[d] /\ s.phase[d] \in LivePhases
        /\ \A m \in Above[d] : t \in Above[m] => s.phase[m] \in LivePhases
    BY <1>2 DEF LiveBelow
  <2>2. PICK c \in Children(t) : c = d \/ c \in Above[d]
    BY <2>1, ChildTowards
  <2>3. c \in Task /\ t \in Above[c]
    BY <1>0
  <2>4. s.phase[c] \in LivePhases
    BY <2>1, <2>2, <2>3
  <2>5. c \in ChildTasks(s, t)
    BY <2>4 DEF ChildTasks, LivePhases
  <2>6. \A m \in Above[d] : c \in Above[m] => t \in Above[m]
    BY <2>1, <2>3, ForestAssumption
  <2>7. d = c \/ d \in LiveBelow(s.phase, c)
    BY <2>1, <2>2, <2>6 DEF LiveBelow
  <2> QED
    BY <2>4, <2>5, <2>7 DEF Felled
<1>3. LiveBelow(s.phase, t) \subseteq Task
  BY DEF LiveBelow
<1>4. \A c \in ChildTasks(s, t) : Felled(s.phase, c) \subseteq Task
  BY <1>0 DEF ChildTasks, Felled, LiveBelow
<1> QED
  BY <1>1, <1>2, <1>3

LEMMA FoldSweeps ==
  ASSUME NEW s \in TreeState, NEW t \in Task, Ended(s, t),
         NEW after, RightBelow(after, s)
  PROVE  CancelEach(after, s, ChildTasks(s, t)) = Swept(s, LiveBelow(s.phase, t))
<1> DEFINE S == ChildTasks(s, t)
           Fell(K) == {d \in Task : \E c \in K : d \in Felled(s.phase, c)}
           g == [K \in SUBSET S |-> Swept(s, Fell(K))]
<1>1. S \in SUBSET Task /\ S \subseteq Children(t)
  BY DEF ChildTasks, Children
<1>2. g[{}] = s
  <2>1. Fell({}) = {}
    OBVIOUS
  <2> QED
    BY <2>1, SweptTwice
<1>3. ASSUME NEW K \in SUBSET S, NEW c \in K
      PROVE  g[K] = CancelTask(after, g[K \ {c}], c)
  <2> DEFINE D == Fell(K \ {c})
             a == Swept(s, D)
  <2>1. a \in TreeState /\ \A u \in Task : a.phase[u] = IF u \in D THEN "cancelled" ELSE s.phase[u]
    BY SweptType DEF Swept
  <2>2. /\ c \in Children(t) /\ c \in Task /\ Parent[c] = t /\ t # None
        /\ s.phase[c] # "absent"
    BY <1>1, <1>3, ForestAssumption DEF Children, ChildTasks
  <2>3. ASSUME NEW d \in D PROVE s.phase[d] \in LivePhases /\ d # c /\ c \notin Above[d]
    <3>1. PICK k \in K \ {c} : d \in Felled(s.phase, k)
      OBVIOUS
    <3>2. /\ k \in Children(t) /\ k # c /\ d \in Task
          /\ d = k \/ k \in Above[d]
          /\ s.phase[d] \in LivePhases
      BY <1>1, <1>3, <3>1 DEF Felled, LiveBelow
    <3> QED
      BY <2>2, <3>2, SiblingsApart
  <2> HIDE DEF D
  <2>4. \A d \in Task : d = c \/ c \in Above[d] => a.phase[d] = s.phase[d]
    BY <2>1, <2>3
  <2>5. Felled(a.phase, c) = Felled(s.phase, c)
    <3>1. LiveBelow(a.phase, c) = LiveBelow(s.phase, c)
      BY <2>2, <2>4, LiveBelowLocal
    <3> QED
      BY <2>2, <2>4, <3>1 DEF Felled
  <2>6. Ended(a, t)
    BY <2>1, <2>3, PhaseOf DEF Ended
  <2>7. Unended(a) \subseteq Unended(s)
    BY <2>1 DEF Unended, Ended, TerminalPhases
  <2>8. RightBelow(after, a)
    BY <2>7 DEF RightBelow
  <2>9. a.phase[c] # "absent"
    BY <2>2, <2>4
  <2> HIDE DEF a
  <2>10. CancelTask(after, a, c) = Swept(a, Felled(s.phase, c))
    BY <2>1, <2>2, <2>5, <2>6, <2>8, <2>9, CancelSweeps
  <2>11. Swept(a, Felled(s.phase, c)) = Swept(s, D \cup Felled(s.phase, c))
    BY SweptTwice DEF a
  <2>12. D \cup Felled(s.phase, c) = Fell(K)
    BY <1>3, <2>2 DEF D, Felled, LiveBelow
  <2>13. g[K] = Swept(s, Fell(K)) /\ g[K \ {c}] = a
    BY DEF a, D
  <2> QED
    BY <2>10, <2>11, <2>12, <2>13
<1>4. \A K \in SUBSET S : \A c \in K : g[K] = CancelTask(after, g[K \ {c}], c)
  BY <1>3
<1>5. g \in [SUBSET S -> TreeState]
  BY SweptType
<1>6. g[S] = Swept(s, LiveBelow(s.phase, t))
  BY FelledChildren
<1> HIDE DEF g, S
<1>7. CancelEach(after, s, S) = g[S]
  <2>1. Unfolds(g, after, s, S)
    BY <1>2, <1>5, <1>4 DEF Unfolds
  <2> QED
    BY <1>1, <2>1, FoldCancels
<1> QED
  BY <1>6, <1>7 DEF S

-----------------------------------------------------------------------------
(* Up the tree.                                                              *)

\* The way up from t is its parent and the way up from there.
LEMMA PathByParent ==
  ASSUME NEW t \in Task, NEW p \in Task, Parent[t] = p
  PROVE  /\ p # None /\ Above[t] = {p} \cup Above[p] /\ p \notin Above[p] /\ t # p
         /\ t \notin Above[p] /\ t \in Children(p)
         /\ PathUp(t, p) = {p}
         /\ \A u \in Above[p] : PathUp(t, u) = {p} \cup PathUp(p, u)
<1>1. /\ p # None /\ Above[t] = {p} \cup Above[p] /\ p \notin Above[p] /\ t # p
      /\ t \notin Above[p] /\ t \in Children(p)
  BY ForestAssumption DEF Children
<1>2. \A v \in Above[p] : v \in Task /\ p \notin Above[v]
  BY <1>1, ForestAssumption
<1>3. PathUp(t, p) = {p}
  BY <1>1, <1>2 DEF PathUp
<1>4. \A u \in Above[p] : PathUp(t, u) = {p} \cup PathUp(p, u)
  BY <1>1, <1>2 DEF PathUp
<1> QED
  BY <1>1, <1>3, <1>4

Bad(s, u) == s.phase[u] \in {"failed", "cancelled"}

\* Once t has ended, something went wrong on the way to its parent when a child
\* of the parent ended badly, and on the way further up if that, or anything
\* further up, did.
LEMMA SouredByParent ==
  ASSUME NEW s, NEW t \in Task, NEW p \in Task, Parent[t] = p
  PROVE  /\ Soured(s.phase, t, p) <=> \E c \in Children(p) : Bad(s, c)
         /\ \A u \in Above[p] :
              Soured(s.phase, t, u) <=>
                \/ \E c \in Children(p) : Bad(s, c)
                \/ \E v \in PathUp(p, u) : \E c \in Children(v) : Bad(s, c)
  BY PathByParent DEF Soured, Bad

\* Of the ancestors of t its parent closes, or none.
LEMMA LiftedByParent ==
  ASSUME NEW s, NEW t \in Task, NEW u \in LiftedTasks(s, t)
  PROVE  /\ Parent[t] \in Task
         /\ s.phase[Parent[t]] = "executing"
         /\ \A c \in Children(Parent[t]) : s.phase[c] \notin LivePhases
         /\ \/ Parent[t] \notin Explicit
            \/ s.deferred[Parent[t]] /\ ~Soured(s.phase, t, Parent[t])
<1> DEFINE p == Parent[t]
<1>1. u \in Above[t] /\ p \in Task /\ Above[t] = {p} \cup Above[p]
  BY ForestAssumption DEF LiftedTasks
<1>2. p \in PathUp(t, u)
  BY <1>1 DEF PathUp
<1>3. /\ s.phase[p] = "executing"
      /\ \A c \in Children(p) : s.phase[c] \in LivePhases => c \in Above[t]
      /\ p \notin Explicit \/ (s.deferred[p] /\ ~Soured(s.phase, t, p))
  BY <1>2 DEF LiftedTasks
<1>4. \A c \in Children(p) : c \notin Above[t]
  BY <1>1, ForestAssumption DEF Children
<1> QED
  BY <1>1, <1>3, <1>4

\* When the parent of t closes, what closes above t is the parent and what its
\* own end closes.
LEMMA LiftedOnce ==
  ASSUME NEW s \in TreeState, NEW t \in Task, Ended(s, t), NEW p \in Task, Parent[t] = p,
         s.phase[p] = "executing",
         \A c \in Children(p) : s.phase[c] \notin LivePhases,
         p \notin Explicit \/ (s.deferred[p] /\ ~Soured(s.phase, t, p)),
         NEW outcome,
         outcome = IF Soured(s.phase, t, p) THEN "failed" ELSE "completed"
  PROVE  Lifted(Record(s, p, outcome), p) = Lifted(s, t)
<1> DEFINE s1 == Record(s, p, outcome)
<1>1. outcome \in TerminalPhases
  BY DEF TerminalPhases
<1>2. /\ s1 \in TreeState
      /\ \A u \in Task :
           /\ s1.phase[u] = IF u = p THEN outcome ELSE s.phase[u]
           /\ s1.decision[u] =
                IF u = p /\ outcome # "completed" /\ s.decision[u] \in PendingStatuses
                THEN "rejected" ELSE s.decision[u]
           /\ s1.deferred[u] = IF u = p THEN FALSE ELSE s.deferred[u]
  <2>1. Recorded(s1, s, p, outcome)
    BY <1>1, RecordType
  <2> HIDE DEF s1
  <2> QED
    BY <2>1 DEF Recorded
<1> HIDE DEF s1
<1>3. /\ Above[t] = {p} \cup Above[p] /\ p \notin Above[p] /\ t \in Children(p)
      /\ PathUp(t, p) = {p}
      /\ \A u \in Above[p] : PathUp(t, u) = {p} \cup PathUp(p, u)
      /\ Above[p] \subseteq Task
      /\ \A u \in Above[p] : PathUp(p, u) \subseteq Above[p]
      /\ \A v \in Task : Children(v) \subseteq Task
  BY PathByParent, ForestAssumption DEF PathUp, Children
<1>4. Soured(s.phase, t, p) <=> \E c \in Children(p) : Bad(s, c)
  BY SouredByParent
<1>5. Bad(s1, p) <=> Soured(s.phase, t, p)
  BY <1>2 DEF Bad
<1>6. \A c \in Task : c # p => (Bad(s1, c) <=> Bad(s, c))
  BY <1>2 DEF Bad
<1>7. ASSUME NEW u \in Above[p]
      PROVE  Soured(s1.phase, p, u) <=> Soured(s.phase, t, u)
  <2>1. Soured(s1.phase, p, u) <=>
          Bad(s1, p) \/ \E v \in PathUp(p, u) : \E c \in Children(v) : Bad(s1, c)
    BY DEF Soured, Bad
  <2>2. Soured(s.phase, t, u) <=>
          \/ Soured(s.phase, t, p)
          \/ \E v \in PathUp(p, u) : \E c \in Children(v) : Bad(s, c)
    BY <1>4, SouredByParent
  <2>3. ~Bad(s, p)
    BY DEF Bad
  <2>4. \A v \in PathUp(p, u) : \A c \in Children(v) : c \in Task
    BY <1>3, <1>7
  <2> QED
    BY <1>5, <1>6, <2>1, <2>2, <2>3, <2>4
<1>8. p \in LiftedTasks(s, t)
  BY <1>3 DEF LiftedTasks
<1>9. ASSUME NEW u \in Above[p]
      PROVE  u \in LiftedTasks(s1, p) <=> u \in LiftedTasks(s, t)
  <2>1. ASSUME NEW v \in PathUp(p, u)
        PROVE  /\ s1.phase[v] = s.phase[v] /\ s1.deferred[v] = s.deferred[v]
               /\ Soured(s1.phase, p, v) <=> Soured(s.phase, t, v)
               /\ (\A c \in Children(v) : s1.phase[c] \in LivePhases => c \in Above[p])
                  <=> (\A c \in Children(v) : s.phase[c] \in LivePhases => c \in Above[t])
    <3>1. v \in Above[p] /\ v \in Task /\ v # p
      BY <1>3, <1>9, <2>1
    <3>2. \A c \in Children(v) : c \in Task
      BY <1>3, <3>1
    <3>3. outcome \notin LivePhases
      BY DEF LivePhases
    <3>4. \A c \in Children(v) : c # p => s1.phase[c] = s.phase[c]
      BY <1>2, <3>2
    <3>5. s1.phase[p] \notin LivePhases
      BY <1>2, <3>3
    <3> QED
      BY <1>2, <1>3, <1>7, <3>1, <3>4, <3>5
  <2>2. /\ s.phase[p] = "executing"
        /\ \A c \in Children(p) : s.phase[c] \in LivePhases => c \in Above[t]
        /\ p \notin Explicit \/ (s.deferred[p] /\ ~Soured(s.phase, t, p))
    OBVIOUS
  <2>3. u \in Above[t] /\ PathUp(t, u) = {p} \cup PathUp(p, u)
    BY <1>3, <1>9
  <2> QED
    BY <1>9, <2>1, <2>2, <2>3 DEF LiftedTasks
<1>10. LiftedTasks(s, t) = {p} \cup LiftedTasks(s1, p)
  BY <1>3, <1>8, <1>9 DEF LiftedTasks
<1>11. p \notin LiftedTasks(s1, p)
  BY <1>3 DEF LiftedTasks
<1>12. LiftedTasks(s1, p) \subseteq Above[p]
  BY DEF LiftedTasks
<1>13. Lifted(s1, p) \in TreeState /\ Lifted(s, t) \in TreeState
  BY <1>2, LiftedType
<1>14. ASSUME NEW u \in Task
       PROVE  /\ Lifted(s1, p).phase[u] = Lifted(s, t).phase[u]
              /\ Lifted(s1, p).decision[u] = Lifted(s, t).decision[u]
              /\ Lifted(s1, p).deferred[u] = Lifted(s, t).deferred[u]
  <2>1. /\ Lifted(s1, p).phase[u] =
             IF u \notin LiftedTasks(s1, p) THEN s1.phase[u]
             ELSE IF Soured(s1.phase, p, u) THEN "failed" ELSE "completed"
        /\ Lifted(s1, p).decision[u] =
             IF u \in LiftedTasks(s1, p) /\ Soured(s1.phase, p, u)
                /\ s1.decision[u] \in PendingStatuses
             THEN "rejected" ELSE s1.decision[u]
        /\ Lifted(s1, p).deferred[u] = IF u \in LiftedTasks(s1, p) THEN FALSE ELSE s1.deferred[u]
    BY DEF Lifted
  <2>2. /\ Lifted(s, t).phase[u] =
             IF u \notin LiftedTasks(s, t) THEN s.phase[u]
             ELSE IF Soured(s.phase, t, u) THEN "failed" ELSE "completed"
        /\ Lifted(s, t).decision[u] =
             IF u \in LiftedTasks(s, t) /\ Soured(s.phase, t, u)
                /\ s.decision[u] \in PendingStatuses
             THEN "rejected" ELSE s.decision[u]
        /\ Lifted(s, t).deferred[u] = IF u \in LiftedTasks(s, t) THEN FALSE ELSE s.deferred[u]
    BY DEF Lifted
  <2>3. CASE u = p
    <3>1. u \in LiftedTasks(s, t) /\ u \notin LiftedTasks(s1, p)
      BY <1>8, <1>11, <2>3
    <3>2. /\ s1.phase[u] = outcome /\ s1.deferred[u] = FALSE
          /\ s1.decision[u] = IF outcome # "completed" /\ s.decision[u] \in PendingStatuses
                              THEN "rejected" ELSE s.decision[u]
      BY <1>2, <2>3
    <3>3. /\ outcome = IF Soured(s.phase, t, u) THEN "failed" ELSE "completed"
          /\ outcome # "completed" <=> Soured(s.phase, t, u)
      BY <2>3
    <3> QED
      BY <2>1, <2>2, <3>1, <3>2, <3>3
  <2>4. CASE u # p /\ u \in LiftedTasks(s1, p)
    BY <1>2, <1>7, <1>10, <1>12, <2>1, <2>2, <2>4
  <2>5. CASE u # p /\ u \notin LiftedTasks(s1, p)
    BY <1>2, <1>10, <2>1, <2>2, <2>5
  <2> QED
    BY <2>3, <2>4, <2>5
<1> QED
  BY <1>13, <1>14, SameTree DEF s1

LEMMA Reconciles ==
  ASSUME NEW s \in TreeState, NEW t \in Task, Ended(s, t),
         NEW after, RightBelow(after, s)
  PROVE  ReconcileParent(after, s, t) = Lifted(s, t)
<1> DEFINE p == Parent[t]
<1>1. CASE p = None \/ s.phase[p] # "executing"
  BY <1>1, NothingLifted, LiftedType DEF ReconcileParent
<1>2. CASE p # None /\ s.phase[p] = "executing"
  <2>1. p \in Task /\ Parent[t] = p /\ t \in Children(p) /\ Children(p) \subseteq Task
    BY <1>2, ForestAssumption DEF Children
  <2>2. \A c \in Children(p) : c \in ChildTasks(s, p) /\ ~Ended(s, c) <=> s.phase[c] \in LivePhases
    BY <2>1, PhaseOf DEF ChildTasks
  <2>3. \A c \in Children(p) : Bad(s, c) => c \in ChildTasks(s, p)
    BY DEF Bad, ChildTasks
  <2>4. (\E c \in ChildTasks(s, p) : s.phase[c] \in {"failed", "cancelled"})
           <=> Soured(s.phase, t, p)
    BY <2>1, <2>3, SouredByParent DEF Bad, ChildTasks
  <2>5. CASE \E c \in ChildTasks(s, p) : ~Ended(s, c)
    <3>1. LiftedTasks(s, t) = {}
      BY <2>2, <2>5, LiftedByParent DEF ChildTasks
    <3> QED
      BY <2>5, <3>1, LiftedType DEF ReconcileParent
  <2>6. CASE (p \in Explicit /\ (~s.deferred[p] \/ Soured(s.phase, t, p)))
             /\ ~\E c \in ChildTasks(s, p) : ~Ended(s, c)
    <3>1. LiftedTasks(s, t) = {}
      BY <2>6, LiftedByParent
    <3> QED
      BY <1>2, <2>4, <2>6, <3>1, LiftedType DEF ReconcileParent
  <2>7. CASE /\ ~(p \in Explicit /\ (~s.deferred[p] \/ Soured(s.phase, t, p)))
             /\ ~\E c \in ChildTasks(s, p) : ~Ended(s, c)
    <3> DEFINE outcome == IF Soured(s.phase, t, p) THEN "failed" ELSE "completed"
               s1 == Record(s, p, outcome)
    <3>1. \A c \in Children(p) : s.phase[c] \notin LivePhases
      BY <2>2, <2>7
    <3>2. ~Ended(s, p)
      BY <1>2 DEF Ended, TerminalPhases
    <3>3. ReconcileParent(after, s, t) = after[s1, p]
      <4>1. CASE Soured(s.phase, t, p)
        BY <1>2, <2>4, <2>7, <3>2, <4>1 DEF ReconcileParent, FailTask
      <4>2. CASE ~Soured(s.phase, t, p)
        BY <1>2, <2>4, <2>7, <3>1, <3>2, <4>2 DEF ReconcileParent, CompleteTask
      <4> QED
        BY <4>1, <4>2
    <3>4. outcome \in TerminalPhases
      BY DEF TerminalPhases
    <3> HIDE DEF outcome
    <3>5. s1 \in TreeState /\ \A u \in Task : s1.phase[u] = IF u = p THEN outcome ELSE s.phase[u]
      <4>1. Recorded(s1, s, p, outcome)
        BY <2>1, <3>4, RecordType
      <4> HIDE DEF s1
      <4> QED
        BY <4>1 DEF Recorded
    <3> HIDE DEF s1
    <3>6. <<s1, p>> \in Closing
      BY <2>1, <3>4, <3>5 DEF Closing, Ended
    <3>7. Unended(s1) \subseteq Unended(s) /\ Unended(s1) # Unended(s)
      BY <2>1, <3>2, <3>4, <3>5 DEF Unended, Ended
    <3>8. after[s1, p] = Lifted(Fallen(s1, p), p)
      BY <3>6, <3>7 DEF RightBelow, Final
    <3>9. LiveBelow(s1.phase, p) = {}
      <4> SUFFICES ASSUME NEW d \in LiveBelow(s1.phase, p) PROVE FALSE
        OBVIOUS
      <4>1. /\ d \in Task /\ p \in Above[d] /\ s1.phase[d] \in LivePhases
            /\ \A m \in Above[d] : p \in Above[m] => s1.phase[m] \in LivePhases
        BY DEF LiveBelow
      <4>2. PICK c \in Children(p) : c = d \/ c \in Above[d]
        BY <2>1, <4>1, ChildTowards
      <4>3. c \in Task /\ c # p /\ p \in Above[c]
        BY <2>1, ForestAssumption DEF Children
      <4>4. s1.phase[c] \in LivePhases
        BY <4>1, <4>2, <4>3
      <4> QED
        BY <3>1, <3>5, <4>3, <4>4
    <3>10. Fallen(s1, p) = s1
      BY <3>5, <3>9, SweptTwice DEF Fallen
    <3>11. Lifted(s1, p) = Lifted(s, t)
      BY <1>2, <2>1, <2>7, <3>1, LiftedOnce DEF s1, outcome
    <3> QED
      BY <3>3, <3>8, <3>10, <3>11
  <2> QED
    BY <2>5, <2>6, <2>7
<1> QED
  BY <1>1, <1>2

-----------------------------------------------------------------------------
(* The recursion has one solution.                                           *)

Body(after, x) ==
  ReconcileParent(after, CancelLiveChildSubtree(after, x[1], x[2]), x[2])

LEMMA BodyIsFinal ==
  ASSUME NEW x \in Closing, NEW after, RightBelow(after, x[1])
  PROVE  Body(after, x) = Final(x[1], x[2])
<1> DEFINE s == x[1]
           t == x[2]
           D == LiveBelow(s.phase, t)
<1>1. s \in TreeState /\ t \in Task /\ Ended(s, t)
  BY DEF Closing
<1> HIDE DEF s, t
<1>2. CASE s.phase[t] = "completed"
  <2>1. ReconcileParent(after, s, t) = Lifted(s, t)
    BY <1>1, Reconciles DEF s
  <2> QED
    BY <1>2, <2>1 DEF Body, CancelLiveChildSubtree, Final, Fallen, s, t
<1>3. CASE s.phase[t] # "completed"
  <2> DEFINE a == Swept(s, D)
  <2>1. CancelEach(after, s, ChildTasks(s, t)) = a
    BY <1>1, FoldSweeps DEF s
  <2>2. a \in TreeState /\ \A u \in Task : a.phase[u] = IF u \in D THEN "cancelled" ELSE s.phase[u]
    BY <1>1, SweptType DEF Swept
  <2> HIDE DEF a
  <2>3. t \notin D
    BY <1>1, PhaseOf DEF LiveBelow
  <2>4. Ended(a, t) /\ Unended(a) \subseteq Unended(s)
    BY <1>1, <2>2, <2>3 DEF Unended, Ended, TerminalPhases
  <2>5. RightBelow(after, a)
    BY <2>4 DEF RightBelow, s
  <2>6. ReconcileParent(after, a, t) = Lifted(a, t)
    BY <1>1, <2>2, <2>4, <2>5, Reconciles
  <2> QED
    BY <1>3, <2>1, <2>6 DEF Body, CancelLiveChildSubtree, Final, Fallen, a, s, t
<1> QED
  BY <1>2, <1>3

\* The recursion of the code ends in the closed form, from every tree state.
LEMMA RecursionIsFinal ==
  \A x \in Closing : AfterTerminal[x] = Final(x[1], x[2])
<1> DEFINE f == [x \in Closing |-> Final(x[1], x[2])]
<1>1. \A x \in Closing : Body(f, x) = Final(x[1], x[2])
  <2> SUFFICES ASSUME NEW x \in Closing PROVE Body(f, x) = Final(x[1], x[2])
    OBVIOUS
  <2>1. RightBelow(f, x[1])
    BY DEF RightBelow
  <2> HIDE DEF f
  <2> QED
    BY <2>1, BodyIsFinal
<1>2. f = [x \in Closing |-> Body(f, x)]
  <2>1. f = [x \in Closing |-> f[x]] /\ \A x \in Closing : f[x] = Body(f, x)
    BY <1>1
  <2> HIDE DEF f
  <2> QED BY <2>1
<1>3. AfterTerminal = CHOOSE h : h = [x \in Closing |-> Body(h, x)]
  BY DEF AfterTerminal, Body
<1>4. AfterTerminal = [x \in Closing |-> Body(AfterTerminal, x)]
  <2> HIDE DEF f
  <2> QED BY <1>2, <1>3
<1>5. \A x \in Closing : AfterTerminal[x] = Body(AfterTerminal, x)
  BY <1>4
<1> DEFINE X == {Unended(x[1]) : x \in {y \in Closing : AfterTerminal[y] # Final(y[1], y[2])}}
<1> SUFFICES ASSUME X # {} PROVE FALSE
  OBVIOUS
<1>6. X \in SUBSET (SUBSET Task)
  BY DEF Unended
<1>7. PICK m \in X : \A n \in X : n \subseteq m => n = m
  <2> HIDE DEF X
  <2> QED BY <1>6, SmallestSet
<1>8. PICK x \in Closing : m = Unended(x[1]) /\ AfterTerminal[x] # Final(x[1], x[2])
  OBVIOUS
<1>9. RightBelow(AfterTerminal, x[1])
  <2> SUFFICES ASSUME NEW y \in Closing, Unended(y[1]) \subseteq Unended(x[1]),
                      Unended(y[1]) # Unended(x[1]),
                      AfterTerminal[y] # Final(y[1], y[2])
               PROVE  FALSE
    BY DEF RightBelow
  <2>1. Unended(y[1]) \in X
    OBVIOUS
  <2> QED
    BY <1>7, <1>8, <2>1
<1> QED
  BY <1>5, <1>8, <1>9, BodyIsFinal

-----------------------------------------------------------------------------
(* The closed form of the dispatcher.                                        *)

\* From a state in which t is live the recursion and Settled agree.
LEMMA RecursionSettles ==
  ASSUME TypeOK, NEW t \in Task, phase[t] \in LivePhases, NEW outcome \in TerminalPhases
  PROVE  LET after == Settled(phase, t, outcome)
         IN  AfterTerminal[<<Record(Now, t, outcome), t>>] =
               [phase |-> after,
                decision |-> SettledDecisions(phase, decision, after),
                deferred |-> SettledDeferrals(phase, after)]
<1> DEFINE s    == Record(Now, t, outcome)
           mid  == Mid(phase, t, outcome)
           up   == Up(phase, t, outcome)
           m    == Fallen(s, t)
           after == Settled(phase, t, outcome)
           goal == [phase |-> after,
                    decision |-> SettledDecisions(phase, decision, after),
                    deferred |-> SettledDeferrals(phase, after)]
<1>0. /\ phase \in [Task -> Phases] /\ decision \in [Task -> DecisionStatuses]
      /\ deferred \in [Task -> BOOLEAN]
  BY DEF TypeOK
<1>1. /\ Now \in TreeState
      /\ Now.phase = phase /\ Now.decision = decision /\ Now.deferred = deferred
  BY <1>0 DEF Now, TreeState
<1> HIDE DEF Now
<1>2. /\ s \in TreeState
      /\ \A u \in Task :
           /\ s.phase[u] = IF u = t THEN outcome ELSE phase[u]
           /\ s.decision[u] =
                IF u = t /\ outcome # "completed" /\ decision[u] \in PendingStatuses
                THEN "rejected" ELSE decision[u]
           /\ s.deferred[u] = IF u = t THEN FALSE ELSE deferred[u]
  <2>1. Recorded(s, Now, t, outcome)
    BY <1>1, RecordType
  <2> HIDE DEF s
  <2> QED
    BY <1>1, <2>1 DEF Recorded
<1> HIDE DEF s
<1>3. <<s, t>> \in Closing
  BY <1>2 DEF Closing, Ended
<1>4. AfterTerminal[<<s, t>>] = Lifted(m, t)
  BY <1>3, RecursionIsFinal DEF Final
<1>5. LiveBelow(s.phase, t) = LiveBelow(phase, t) /\ t \notin LiveBelow(phase, t)
  <2>1. \A d \in Task : t \in Above[d] => s.phase[d] = phase[d]
    BY <1>2, ForestAssumption
  <2> QED
    BY <2>1, LiveBelowLocal, ForestAssumption DEF LiveBelow
<1> DEFINE D == IF outcome = "completed" THEN {} ELSE LiveBelow(phase, t)
<1>6. m = Swept(s, D)
  BY <1>2, <1>5, SweptTwice DEF Fallen
<1> HIDE DEF m
<1>7. m \in TreeState /\ \A u \in Task :
        /\ m.phase[u] = IF u \in D THEN "cancelled" ELSE s.phase[u]
        /\ m.decision[u] = IF u \in D /\ s.decision[u] \in PendingStatuses
                           THEN "rejected" ELSE s.decision[u]
        /\ m.deferred[u] = IF u \in D THEN FALSE ELSE s.deferred[u]
  BY <1>2, <1>6, SweptType DEF Swept
<1>8. m.phase = mid
  <2>1. \A u \in Task : m.phase[u] = mid[u]
    BY <1>2, <1>5, <1>7 DEF Mid
  <2> QED
    BY <1>7, <2>1 DEF Mid, TreeState
<1>9. LiftedTasks(m, t) = up
  <2>1. \A v \in Above[t] : v \in Task /\ v # t /\ v \notin D
    BY ForestAssumption DEF LiveBelow
  <2>2. \A v \in Above[t] : m.deferred[v] <=> deferred[v]
    BY <1>2, <1>7, <2>1
  <2>3. \A u \in Above[t] : PathUp(t, u) \subseteq Above[t]
    BY DEF PathUp
  <2> QED
    BY <1>8, <2>2, <2>3 DEF LiftedTasks, Up, ClosedAbove, MayClose
<1>10. after = [u \in Task |-> IF u \notin up THEN mid[u]
                               ELSE IF Soured(mid, t, u) THEN "failed" ELSE "completed"]
  BY <1>0, SettledByParts
<1>11. \A u \in up : u # t /\ u \notin D /\ phase[u] = "executing"
  BY <1>0, UpExecutes DEF LiveBelow
<1>12. D \subseteq Task /\ \A u \in D : phase[u] \in LivePhases
  BY DEF LiveBelow
<1> HIDE DEF mid, up, after, D
<1>13. ASSUME NEW u \in Task
       PROVE  /\ Lifted(m, t).phase[u] = after[u]
              /\ Lifted(m, t).decision[u] = SettledDecisions(phase, decision, after)[u]
              /\ Lifted(m, t).deferred[u] = SettledDeferrals(phase, after)[u]
  <2>1. /\ Lifted(m, t).phase[u] =
             IF u \notin up THEN m.phase[u]
             ELSE IF Soured(m.phase, t, u) THEN "failed" ELSE "completed"
        /\ Lifted(m, t).decision[u] =
             IF u \in up /\ Soured(m.phase, t, u) /\ m.decision[u] \in PendingStatuses
             THEN "rejected" ELSE m.decision[u]
        /\ Lifted(m, t).deferred[u] = IF u \in up THEN FALSE ELSE m.deferred[u]
    BY <1>9 DEF Lifted
  <2>2. Lifted(m, t).phase[u] = after[u]
    BY <1>8, <1>10, <2>1
  <2>3. /\ SettledDecisions(phase, decision, after)[u] =
             IF after[u] # phase[u] /\ after[u] # "completed" /\ decision[u] \in PendingStatuses
             THEN "rejected" ELSE decision[u]
        /\ SettledDeferrals(phase, after)[u] = (deferred[u] /\ after[u] = phase[u])
    BY DEF SettledDecisions, SettledDeferrals
  <2>4. deferred[u] \in BOOLEAN /\ "rejected" \notin PendingStatuses
    BY <1>0 DEF PendingStatuses
  <2>5. CASE u = t
    <3>1. after[u] = outcome /\ outcome # phase[u]
      BY <1>2, <1>5, <1>7, <1>8, <1>10, <1>11, <2>5 DEF D, LivePhases, TerminalPhases
    <3> QED
      BY <1>2, <1>5, <1>7, <1>11, <2>1, <2>2, <2>3, <2>4, <2>5, <3>1 DEF D
  <2>6. CASE u \in up
    BY <1>2, <1>7, <1>8, <1>10, <1>11, <2>1, <2>2, <2>3, <2>4, <2>6
  <2>7. CASE u \in D /\ u # t /\ u \notin up
    <3>1. after[u] = "cancelled" /\ phase[u] # "cancelled"
      BY <1>7, <1>8, <1>10, <1>12, <2>7 DEF LivePhases
    <3> QED
      BY <1>2, <1>7, <2>1, <2>2, <2>3, <2>4, <2>7, <3>1
  <2>8. CASE u \notin D /\ u # t /\ u \notin up
    <3>1. after[u] = phase[u]
      BY <1>2, <1>7, <1>8, <1>10, <2>8
    <3> QED
      BY <1>2, <1>7, <2>1, <2>2, <2>3, <2>4, <2>8, <3>1
  <2> QED
    BY <2>5, <2>6, <2>7, <2>8
<1>14. goal \in TreeState
  <2>1. after \in [Task -> Phases]
    BY <1>0, SettledType DEF after
  <2>2. SettledDecisions(phase, decision, after) \in [Task -> DecisionStatuses]
    BY <1>0 DEF SettledDecisions, DecisionStatuses
  <2>3. SettledDeferrals(phase, after) \in [Task -> BOOLEAN]
    BY <1>0 DEF SettledDeferrals
  <2> QED
    BY <2>1, <2>2, <2>3 DEF TreeState
<1>15. Lifted(m, t) \in TreeState
  BY <1>7, LiftedType
<1>16. Lifted(m, t) = goal
  BY <1>13, <1>14, <1>15, SameTree
<1> QED
  BY <1>4, <1>16 DEF s, after

\* The recursion of the code, over children and parents, gives in every
\* reachable state the tree that the closed form of the cascade gives, whatever
\* the forest and whichever child is cancelled first.
THEOREM CascadeSettles == Spec => []SettledAgrees
<1>1. TypeOK => SettledAgrees
  <2> SUFFICES ASSUME TypeOK, NEW t \in Task, phase[t] \in LivePhases
               PROVE  /\ \A s \in {FailTask(AfterTerminal, Now, t),
                                    CancelTask(AfterTerminal, Now, t)} :
                           LET after == Settled(phase, t, s.phase[t])
                           IN  s = [phase |-> after,
                                    decision |-> SettledDecisions(phase, decision, after),
                                    deferred |-> SettledDeferrals(phase, after)]
                      /\ HasActiveChild(t) \/ phase[t] # "executing"
                           \/ LET after == Settled(phase, t, "completed")
                               IN  CompleteTask(AfterTerminal, Now, t) =
                                     [phase |-> after,
                                      decision |-> SettledDecisions(phase, decision, after),
                                      deferred |-> SettledDeferrals(phase, after)]
    BY DEF SettledAgrees
  <2>1. ~Ended(Now, t) /\ Now.phase = phase
    BY DEF Ended, Now, LivePhases, TerminalPhases
  <2>2. ASSUME NEW outcome \in {"failed", "cancelled"}, NEW s,
               s = AfterTerminal[<<Record(Now, t, outcome), t>>]
        PROVE  LET after == Settled(phase, t, s.phase[t])
               IN  s = [phase |-> after,
                        decision |-> SettledDecisions(phase, decision, after),
                        deferred |-> SettledDeferrals(phase, after)]
    <3> DEFINE after == Settled(phase, t, outcome)
    <3>1. outcome \in TerminalPhases /\ phase \in [Task -> Phases]
      BY DEF TerminalPhases, TypeOK
    <3>2. s = [phase |-> after,
               decision |-> SettledDecisions(phase, decision, after),
               deferred |-> SettledDeferrals(phase, after)]
      BY <2>2, <3>1, RecursionSettles
    <3>3. after[t] = outcome
      BY <3>1, SettledCases, ForestAssumption DEF LivePhases, TerminalPhases
    <3> HIDE DEF after
    <3>4. s.phase[t] = outcome
      BY <3>2, <3>3
    <3> QED
      BY <3>2, <3>4 DEF after
  <2>3. /\ FailTask(AfterTerminal, Now, t) = AfterTerminal[<<Record(Now, t, "failed"), t>>]
        /\ CancelTask(AfterTerminal, Now, t) = AfterTerminal[<<Record(Now, t, "cancelled"), t>>]
    BY <2>1 DEF FailTask, CancelTask
  <2>4. ASSUME ~HasActiveChild(t), phase[t] = "executing"
        PROVE  CompleteTask(AfterTerminal, Now, t) =
                 AfterTerminal[<<Record(Now, t, "completed"), t>>]
    BY <2>1, <2>4 DEF CompleteTask, HasActiveChild
  <2>5. "completed" \in TerminalPhases
    BY DEF TerminalPhases
  <2> QED
    BY <2>2, <2>3, <2>4, <2>5, RecursionSettles
<1> QED
  BY <1>1, TypeCorrect, PTL
=============================================================================
