-------------------------- MODULE HumanAssistProofs --------------------------
(***************************************************************************)
(* The safety properties of HumanAssist for any number of records and      *)
(* asks.  A step writes to the thread through an admission, which closes   *)
(* unfinished records or issues one, and through Put, which changes the    *)
(* status of one record: after the lemmas on these two every invariant is  *)
(* argued record by record, and none rests on the order of updates.        *)
(***************************************************************************)
EXTENDS HumanAssist, TLAPS

Threads == [status : [Task -> Status], ask : [Task -> Ask],
            newer : SUBSET (Task \X Task)]

(* Put changes the status of its record and no other, and no ask.          *)
LEMMA PutShape ==
    ASSUME NEW s \in Threads, NEW t \in Task, NEW x \in Status
    PROVE  /\ Put(s, t, x) \in Threads
           /\ Put(s, t, x).status = [s.status EXCEPT ![t] = x]
           /\ Put(s, t, x).ask = s.ask
<1>1. Drop(s.newer, {t}) \subseteq Task \X Task
  BY DEF Drop, Threads
<1>2. {t} \X (Unfinished(s) \ {t}) \subseteq Task \X Task
  BY DEF Unfinished
<1> DEFINE n == Drop(s.newer, {t}) \cup
                  IF x \in Finished THEN {} ELSE {t} \X (Unfinished(s) \ {t})
<1>3. n \in SUBSET (Task \X Task)
  BY <1>1, <1>2
<1>4. Put(s, t, x) = [s EXCEPT !.status = [@ EXCEPT ![t] = x], !.newer = n]
  BY DEF Put, Threads
<1>5. [s.status EXCEPT ![t] = x] \in [Task -> Status]
  BY DEF Threads
<1> HIDE DEF n
<1> QED BY <1>3, <1>4, <1>5 DEF Threads

(* Closing records changes the status of these and no ask.                 *)
LEMMA CloseShape ==
    ASSUME NEW s \in Threads, NEW S \in SUBSET Task
    PROVE  /\ CloseAll(s, S) \in Threads
           /\ CloseAll(s, S).status =
                  [t \in Task |-> IF t \in S THEN "closed" ELSE s.status[t]]
           /\ CloseAll(s, S).ask = s.ask
<1>1. Drop(s.newer, S) \in SUBSET (Task \X Task)
  BY DEF Drop, Threads
<1>2. "closed" \in Status
  BY DEF Status, Finished
<1> QED BY <1>1, <1>2 DEF CloseAll, Threads

(* An admission leaves every record as it was, closes the unfinished ones, *)
(* or issues one for an ask that no unfinished record has.                 *)
LeftAlone(r, s) == s.status = r.status /\ s.ask = r.ask

AllClosed(r, s) ==
    /\ s.status = [t \in Task |-> IF t \in Unfinished(r) THEN "closed" ELSE r.status[t]]
    /\ s.ask = r.ask

Issued(r, s, a, t) ==
    /\ Matching(r, a) = {}
    /\ r.status[t] = "none"
    /\ s.status = [r.status EXCEPT ![t] = "issued"]
    /\ s.ask = [r.ask EXCEPT ![t] = a]

LEMMA AdmissionShape ==
    ASSUME NEW r \in Threads, NEW a \in Ask, NEW s \in Admission(r, a)
    PROVE  /\ s \in Threads
           /\ LeftAlone(r, s) \/ AllClosed(r, s) \/ \E t \in Task : Issued(r, s, a, t)
<1>1. CASE s = r
  BY <1>1 DEF LeftAlone
<1>2. CASE s = CloseAll(r, Closable(r))
  <2>1. Unfinished(r) \in SUBSET Task
    BY DEF Unfinished
  <2> QED BY <1>2, <2>1, CloseShape DEF Closable, AllClosed
<1>3. ASSUME NEW t \in Newest(r, Matching(r, a)), s = Put(r, t, r.status[t])
      PROVE  s \in Threads /\ LeftAlone(r, s)
  <2>1. t \in Task /\ r.status[t] \in Status
    BY DEF Newest, Matching, Unfinished, Threads
  <2>2. [r.status EXCEPT ![t] = r.status[t]] = r.status
    BY <2>1 DEF Threads
  <2> QED BY <1>3, <2>1, <2>2, PutShape DEF LeftAlone
<1>4. ASSUME NEW t \in Task, r.status[t] = "none", Matching(r, a) = {},
             s = Put([r EXCEPT !.ask = [@ EXCEPT ![t] = a]], t, "issued")
      PROVE  s \in Threads /\ Issued(r, s, a, t)
  <2> DEFINE q == [r EXCEPT !.ask = [@ EXCEPT ![t] = a]]
  <2>1. q \in Threads /\ q.status = r.status /\ q.ask = [r.ask EXCEPT ![t] = a]
    BY DEF Threads
  <2>2. "issued" \in Status
    BY DEF Status, Open
  <2> HIDE DEF q
  <2>3. s = Put(q, t, "issued")
    BY <1>4 DEF q
  <2> QED BY <1>4, <2>1, <2>2, <2>3, PutShape DEF Issued
<1>5. \/ s = r \/ s = CloseAll(r, Closable(r))
      \/ \E t \in Newest(r, Matching(r, a)) : s = Put(r, t, r.status[t])
      \/ /\ Matching(r, a) = {}
         /\ \E t \in Task : r.status[t] = "none"
                /\ s = Put([r EXCEPT !.ask = [@ EXCEPT ![t] = a]], t, "issued")
  <2>1. CASE host = "handoff"
    <3>1. s \in Ensured(r, a) \/ s = r
      BY <2>1 DEF Admission
    <3> QED BY <3>1 DEF Ensured
  <2>2. CASE host = "ready"
    BY <2>2 DEF Admission
  <2>3. CASE host \notin {"handoff", "ready"}
    BY <2>3 DEF Admission
  <2> QED BY <2>1, <2>2, <2>3
<1> QED BY <1>1, <1>2, <1>3, <1>4, <1>5

-----------------------------------------------------------------------------
(* What an admission and a write mean for single records.                  *)

(* A record keeps its status, is closed while unfinished, or is issued.    *)
Turned(r, s, t) ==
    \/ s.status[t] = r.status[t]
    \/ s.status[t] = "closed" /\ t \in Unfinished(r)
    \/ s.status[t] = "issued" /\ r.status[t] = "none"

LEMMA AdmissionTurns ==
    ASSUME NEW r \in Threads, NEW a \in Ask, NEW s \in Admission(r, a)
    PROVE  s \in Threads /\ \A t \in Task : Turned(r, s, t)
<1>1. s \in Threads
  BY AdmissionShape
<1>2. ASSUME NEW t \in Task
      PROVE  Turned(r, s, t)
  <2>1. CASE LeftAlone(r, s)
    BY <2>1 DEF LeftAlone, Turned
  <2>2. CASE AllClosed(r, s)
    BY <2>2 DEF AllClosed, Turned
  <2>3. ASSUME NEW u \in Task, Issued(r, s, a, u)
        PROVE  Turned(r, s, t)
    BY <2>3 DEF Issued, Turned, Threads
  <2> QED BY <2>1, <2>2, <2>3, AdmissionShape
<1> QED BY <1>1, <1>2

(* Unfinished records have different asks, but for resumes given up.       *)
Differ(s) ==
    \A t, u \in Unfinished(s) :
        Clash(s.ask[t], s.ask[u]) =>
            t = u \/ "handoff_blocked" \in {s.status[t], s.status[u]}

LEMMA AdmissionDiffers ==
    ASSUME NEW r \in Threads, NEW a \in Ask, NEW s \in Admission(r, a), Differ(r)
    PROVE  Differ(s)
<1>1. CASE LeftAlone(r, s)
  BY <1>1 DEF LeftAlone, Differ, Unfinished
<1>2. CASE AllClosed(r, s)
  <2>1. Unfinished(s) = {}
    BY <1>2 DEF AllClosed, Unfinished, Finished
  <2> QED BY <2>1 DEF Differ
<1>3. ASSUME NEW v \in Task, Issued(r, s, a, v)
      PROVE  Differ(s)
  <2> SUFFICES ASSUME NEW t \in Unfinished(s), NEW u \in Unfinished(s),
                      Clash(s.ask[t], s.ask[u]), t # u
               PROVE  "handoff_blocked" \in {s.status[t], s.status[u]}
    BY DEF Differ
  <2>1. \A w \in Unfinished(r) : ~Clash(r.ask[w], a) /\ ~Clash(a, r.ask[w])
    BY <1>3 DEF Issued, Matching, Clash
  <2>2. \A w \in Unfinished(s) \ {v} :
            w \in Unfinished(r) /\ s.ask[w] = r.ask[w] /\ s.status[w] = r.status[w]
    BY <1>3 DEF Issued, Unfinished, Threads
  <2>3. s.ask[v] = a
    BY <1>3 DEF Issued, Threads
  <2>4. t # v /\ u # v
    BY <2>1, <2>2, <2>3
  <2> QED BY <2>2, <2>4 DEF Differ
<1> QED BY <1>1, <1>2, <1>3, AdmissionShape

LEMMA PutDiffers ==
    ASSUME NEW s \in Threads, NEW t \in Task, NEW x \in Status, Differ(s),
           x # "none",
           t \in Unfinished(s) \/ x \in Finished \cup {"handoff_blocked"},
           s.status[t] = "handoff_blocked" => x \in Finished \cup {"handoff_blocked"}
    PROVE  Differ(Put(s, t, x))
<1> DEFINE p == Put(s, t, x)
<1>1. p.status = [s.status EXCEPT ![t] = x] /\ p.ask = s.ask
  BY PutShape
<1> HIDE DEF p
<1>2. SUFFICES ASSUME NEW v \in Unfinished(p), NEW u \in Unfinished(p),
                      Clash(p.ask[v], p.ask[u]), v # u
               PROVE  "handoff_blocked" \in {p.status[v], p.status[u]}
  BY DEF Differ, p
<1>3. CASE x \in Finished
  <2>1. v # t /\ u # t
    BY <1>1, <1>3 DEF Unfinished, Threads
  <2> QED BY <1>1, <1>2, <2>1 DEF Unfinished, Differ, Threads
<1>4. CASE x = "handoff_blocked"
  <2>1. CASE v = t \/ u = t
    BY <1>1, <1>4, <2>1 DEF Threads
  <2>2. CASE v # t /\ u # t
    BY <1>1, <1>2, <2>2 DEF Unfinished, Differ, Threads
  <2> QED BY <2>1, <2>2
<1>5. CASE x \notin Finished \cup {"handoff_blocked"}
  <2>1. t \in Unfinished(s) /\ s.status[t] # "handoff_blocked"
    BY <1>5
  <2>2. v \in Unfinished(s) /\ u \in Unfinished(s)
    BY <1>1, <2>1 DEF Unfinished, Threads
  <2> QED BY <1>1, <1>2, <1>5, <2>1, <2>2 DEF Unfinished, Differ, Threads
<1> QED BY <1>3, <1>4, <1>5

-----------------------------------------------------------------------------
(* What the sets of statuses hold.                                         *)
LEMMA Statuses ==
    /\ Open \subseteq Status /\ Finished \subseteq Status
    /\ "verifying" \in Status /\ "accepted" \in Status
    /\ "handoff_blocked" \in Status /\ "none" \in Status
    /\ "issued" \in Open /\ "submitted" \in Open /\ "rejected" \in Open
    /\ "need_more_evidence" \in Open
    /\ "closed" \in Finished /\ "resume_queued" \in Finished
BY DEF Status, Open, Finished

LEMMA MissTyped ==
    ASSUME NEW s \in Threads, NEW t \in Task, TypeOK, Miss(t, s)
    PROVE  /\ thread' \in Threads
           /\ resume' \in [Task -> {"none", "queued", "running", "waiting",
                                    "rerunning"}]
<1>1. CASE resume[t] \in {"queued", "running"}
  BY <1>1 DEF Miss, TypeOK
<1>2. CASE resume[t] \notin {"queued", "running"}
  <2>1. thread' = Put(s, t, "handoff_blocked") /\ resume' = [resume EXCEPT ![t] = "none"]
    BY <1>2 DEF Miss
  <2>2. thread' \in Threads
    BY <2>1, Statuses, PutShape
  <2> QED BY <2>1, <2>2 DEF TypeOK
<1> QED BY <1>1, <1>2

LEMMA TypeStep ==
    ASSUME TypeOK, [Next]_vars
    PROVE  TypeOK'
<1>1. thread \in Threads
  BY DEF TypeOK, Threads
<1> USE <1>1, Statuses
<1>2. CASE HostChanges
  BY <1>2 DEF HostChanges, TypeOK
<1>3. ASSUME NEW a \in Ask, Work(a)
      PROVE  TypeOK'
  <2>1. thread' \in Threads
    BY <1>3, AdmissionTurns DEF Work
  <2> QED BY <1>3, <2>1 DEF Work, TypeOK, Threads
<1>4. ASSUME NEW t \in Task,
             Decline(t) \/ RecordFails(t) \/ Accept(t) \/ ResumeEnds(t)
                 \/ CrashInVerification(t)
      PROVE  TypeOK'
  <2>1. PICK x \in Status : thread' = Put(thread, t, x)
    BY <1>4 DEF Decline, RecordFails, Accept, ResumeEnds, CrashInVerification
  <2>2. thread' \in Threads
    BY <2>1, PutShape
  <2> QED BY <1>4, <2>2 DEF Decline, RecordFails, Accept, ResumeEnds,
             CrashInVerification, EndProcess, TypeOK, Threads
<1>5. ASSUME NEW t \in Task, Refused(t)
      PROVE  TypeOK'
  <2>1. PICK s \in Admission(thread, ByResume) : Miss(t, s)
    BY <1>5 DEF Refused
  <2>2. s \in Threads
    BY AskAssumption, AdmissionTurns
  <2>3. /\ thread' \in Threads
        /\ resume' \in [Task -> {"none", "queued", "running", "waiting", "rerunning"}]
    BY <2>1, <2>2, MissTyped
  <2> QED BY <1>5, <2>3 DEF Refused, TypeOK, Threads
<1>6. ASSUME NEW t \in Task, Resumes(t)
      PROVE  TypeOK'
  <2>1. thread' \in Threads
    BY <1>6, AskAssumption, AdmissionTurns DEF Resumes
  <2> QED BY <1>6, <2>1 DEF Resumes, TypeOK, Threads
<1>7. ASSUME NEW t \in Task, ResumeFails(t)
      PROVE  TypeOK'
  <2>1. /\ thread' \in Threads
        /\ resume' \in [Task -> {"none", "queued", "running", "waiting", "rerunning"}]
    BY <1>7, MissTyped DEF ResumeFails
  <2> QED BY <1>7, <2>1 DEF ResumeFails, TypeOK, Threads
<1>8. CASE Crash
  BY <1>8 DEF Crash, EndProcess, TypeOK
<1>9. CASE UNCHANGED vars
  BY <1>9 DEF vars, TypeOK
<1> QED BY <1>2, <1>3, <1>4, <1>5, <1>6, <1>7, <1>8, <1>9 DEF Next

LEMMA TypeInit == Init => TypeOK
BY AskAssumption, Statuses DEF Init, TypeOK

(* Every variable keeps its type through answers, admissions, resumes and  *)
(* crashes in any order.                                                   *)
THEOREM TypeCorrect == Spec => []TypeOK
BY TypeInit, TypeStep, PTL DEF Spec
-----------------------------------------------------------------------------
(* One record: it is queued exactly while worked, rewarded and recorded    *)
(* exactly once its answer was accepted, and stuck between two statuses    *)
(* only by a crash.  A record not yet answered is part of it because it    *)
(* must come to its first answer without a reward.                         *)
Sound(t) ==
    /\ resume[t] # "none" => thread.status[t] = "resume_queued"
    /\ thread.status[t] = "resume_queued" => resume[t] # "none" \/ t \in lost
    /\ t \in rewarded => t \in recorded \cup torn
    /\ thread.status[t] \in {"resume_queued", "handoff_blocked"} =>
           t \in rewarded \cap recorded
    /\ thread.status[t] \in Open \cup {"none"} => t \notin rewarded
    /\ thread.status[t] \in {"verifying", "accepted"} => t \in torn

RecordInv == \A t \in Task : Sound(t)

LEMMA RecordStep ==
    ASSUME TypeOK, RecordInv, [Next]_vars
    PROVE  RecordInv'
<1>1. thread \in Threads
  BY DEF TypeOK, Threads
<1> SUFFICES ASSUME NEW u \in Task
             PROVE  Sound(u)'
  BY DEF RecordInv
<1>2. Sound(u)
  BY DEF RecordInv
<1> USE <1>1, <1>2
<1>3. CASE HostChanges
  BY <1>3 DEF HostChanges, Sound
<1>4. ASSUME NEW a \in Ask, Work(a)
      PROVE  Sound(u)'
  <2>1. Turned(thread, thread', u)
    BY <1>4, AdmissionTurns DEF Work
  <2> QED BY <1>4, <2>1 DEF Work, Turned, Sound, Unfinished, Open, Finished
<1>5. ASSUME NEW t \in Task, Answerable(t), NEW x \in Status,
             thread' = Put(thread, t, x)
      PROVE  /\ thread.status[t] \in Open /\ resume[t] = "none"
             /\ t \notin rewarded
             /\ thread'.status = [thread.status EXCEPT ![t] = x]
  <2>1. Sound(t)
    BY DEF RecordInv
  <2> QED BY <1>5, <2>1, PutShape DEF Answerable, Sound, Open
<1>6. ASSUME NEW t \in Task, Decline(t) \/ RecordFails(t)
      PROVE  Sound(u)'
  <2>1. PICK x \in Open : thread' = Put(thread, t, x)
    BY <1>6, Statuses DEF Decline, RecordFails
  <2>2. /\ thread.status[t] \in Open /\ resume[t] = "none" /\ t \notin rewarded
        /\ thread'.status = [thread.status EXCEPT ![t] = x]
    BY <1>5, <1>6, <2>1, Statuses DEF Decline, RecordFails
  <2> QED BY <1>6, <2>2 DEF Decline, RecordFails, Sound, Open, TypeOK
<1>7. ASSUME NEW t \in Task, Accept(t)
      PROVE  Sound(u)'
  <2>1. thread'.status = [thread.status EXCEPT ![t] = "resume_queued"]
    BY <1>5, <1>7, Statuses DEF Accept
  <2> QED BY <1>7, <2>1 DEF Accept, Sound, Open, TypeOK
<1>8. ASSUME NEW s \in Threads, NEW t \in Task, \A v \in Task : Turned(thread, s, v),
             resume[t] # "none", Miss(t, s),
             UNCHANGED <<rewarded, recorded, lost, torn>>
      PROVE  Sound(u)'
  <2>1. Turned(thread, s, u) /\ Turned(thread, s, t) /\ Sound(t)
    BY <1>8 DEF RecordInv
  <2>2. s.status[t] = "resume_queued"
    BY <1>8, <2>1 DEF Turned, Sound, Unfinished, Finished
  <2>3. CASE resume[t] \in {"queued", "running"}
    BY <1>8, <2>1, <2>2, <2>3 DEF Miss, Turned, Sound, Unfinished, Open, Finished, TypeOK
  <2>4. CASE resume[t] \notin {"queued", "running"}
    <3>1. thread'.status = [s.status EXCEPT ![t] = "handoff_blocked"]
      BY <1>8, <2>4, PutShape, Statuses DEF Miss
    <3>2. resume' = [resume EXCEPT ![t] = "none"]
      BY <1>8, <2>4 DEF Miss
    <3>3. CASE u = t
      BY <1>8, <2>1, <2>2, <3>1, <3>2, <3>3 DEF Sound, Open, TypeOK, Threads
    <3>4. CASE u # t
      <4>1. thread'.status[u] = s.status[u] /\ resume'[u] = resume[u]
        BY <3>1, <3>2, <3>4 DEF TypeOK, Threads
      <4> QED BY <1>8, <2>1, <4>1 DEF Turned, Sound, Unfinished, Open, Finished
    <3> QED BY <3>3, <3>4
  <2> QED BY <2>3, <2>4
<1>9. ASSUME NEW t \in Task, Refused(t)
      PROVE  Sound(u)'
  <2>1. PICK s \in Admission(thread, ByResume) : Miss(t, s)
    BY <1>9 DEF Refused
  <2>2. s \in Threads /\ \A v \in Task : Turned(thread, s, v)
    BY AskAssumption, AdmissionTurns
  <2> QED BY <1>8, <1>9, <2>1, <2>2 DEF Refused
<1>10. ASSUME NEW t \in Task, Resumes(t)
       PROVE  Sound(u)'
  <2>1. Turned(thread, thread', u)
    BY <1>10, AskAssumption, AdmissionTurns DEF Resumes
  <2> QED BY <1>10, <2>1 DEF Resumes, Turned, Sound, Unfinished, Open, Finished, TypeOK
<1>11. ASSUME NEW t \in Task, ResumeFails(t)
       PROVE  Sound(u)'
  <2>1. \A v \in Task : Turned(thread, thread, v)
    BY DEF Turned
  <2> QED BY <1>8, <1>11, <2>1 DEF ResumeFails
<1>12. ASSUME NEW t \in Task, ResumeEnds(t)
       PROVE  Sound(u)'
  <2>1. thread'.status = [thread.status EXCEPT ![t] = "closed"]
    BY <1>12, PutShape, Statuses DEF ResumeEnds
  <2> QED BY <1>12, <2>1 DEF ResumeEnds, Sound, Open, TypeOK
<1>13. ASSUME NEW t \in Task, CrashInVerification(t)
       PROVE  Sound(u)'
  <2>1. PICK x \in Status : thread' = Put(thread, t, x)
    BY <1>13, Statuses DEF CrashInVerification
  <2>2. /\ thread.status[t] \in Open /\ resume[t] = "none" /\ t \notin rewarded
        /\ thread'.status = [thread.status EXCEPT ![t] = x]
    BY <1>5, <1>13, <2>1 DEF CrashInVerification
  <2>3. ASSUME NEW y \in Status, thread' = Put(thread, t, y)
        PROVE  thread'.status = [thread.status EXCEPT ![t] = y]
    BY <2>3, PutShape
  <2>4. CASE (\E y \in {"submitted", "verifying"} : thread' = Put(thread, t, y))
              /\ EndProcess({}) /\ UNCHANGED <<rewarded, recorded>>
    <3>1. PICK y \in {"submitted", "verifying"} : thread' = Put(thread, t, y)
      BY <2>4
    <3>2. thread'.status = [thread.status EXCEPT ![t] = y]
      BY <2>3, <3>1, Statuses
    <3> QED BY <1>13, <2>2, <2>4, <3>2
            DEF CrashInVerification, EndProcess, Sound, Open, TypeOK
  <2>5. CASE thread' = Put(thread, t, "accepted") /\ EndProcess({})
              /\ rewarded' = rewarded \cup {t}
              /\ recorded' \in {recorded, recorded \cup {t}}
    <3>1. thread'.status = [thread.status EXCEPT ![t] = "accepted"]
      BY <2>3, <2>5, Statuses
    <3> QED BY <1>13, <2>2, <2>5, <3>1
            DEF CrashInVerification, EndProcess, Sound, Open, TypeOK
  <2>6. CASE thread' = Put(thread, t, "resume_queued") /\ EndProcess({t})
              /\ rewarded' = rewarded \cup {t} /\ recorded' = recorded \cup {t}
    <3>1. thread'.status = [thread.status EXCEPT ![t] = "resume_queued"]
      BY <2>3, <2>6, Statuses
    <3> QED BY <1>13, <2>2, <2>6, <3>1
            DEF CrashInVerification, EndProcess, Sound, Open, TypeOK
  <2> QED BY <1>13, <2>4, <2>5, <2>6 DEF CrashInVerification
<1>14. CASE Crash
  BY <1>14 DEF Crash, EndProcess, Sound
<1>15. CASE UNCHANGED vars
  BY <1>15 DEF vars, Sound
<1> QED BY <1>3, <1>4, <1>6, <1>7, <1>9, <1>10, <1>11, <1>12, <1>13, <1>14,
           <1>15 DEF Next

LEMMA RecordInit == Init => RecordInv
BY DEF Init, RecordInv, Sound, Open

LEMMA RecordsSound == Spec => []RecordInv
BY RecordInit, RecordStep, TypeInit, TypeStep, PTL DEF Spec

(* resume_queued always means that a background task is at work on the     *)
(* record, a crash apart.                                                  *)
THEOREM QueuedWorked == Spec => []QueuedIsWorked
<1>1. RecordInv => QueuedIsWorked
  BY DEF RecordInv, Sound, QueuedIsWorked
<1> QED BY <1>1, RecordsSound, PTL

(* Rewards are recorded, resumes are rewarded, and no record is answered   *)
(* twice.                                                                  *)
THEOREM RewardsEarned == Spec => []RewardEarned
<1>1. RecordInv => RewardEarned
  BY DEF RecordInv, Sound, RewardEarned
<1> QED BY <1>1, RecordsSound, PTL

(* The current record of the thread takes an answer, or was given up, or a *)
(* crash cut it short.                                                     *)
THEOREM CurrentAnswers == Spec => []CurrentTakesAnswer
<1>1. TypeOK /\ RecordInv => CurrentTakesAnswer
  <2> SUFFICES ASSUME TypeOK, RecordInv, NEW t \in Current
               PROVE  Answerable(t) \/ thread.status[t] = "handoff_blocked" \/ t \in torn
    BY DEF CurrentTakesAnswer
  <2>1. t \in Task /\ thread.status[t] \in Status \ (Finished \cup {"none"})
    BY DEF Current, Newest, Unfinished, TypeOK
  <2>2. Sound(t)
    BY <2>1 DEF RecordInv
  <2> QED BY <2>1, <2>2 DEF Sound, Status, Answerable
<1> QED BY <1>1, RecordsSound, TypeCorrect, PTL
-----------------------------------------------------------------------------
(* Asks.  An admission keeps unfinished records different; a write keeps   *)
(* them so because the record was unfinished before, or no longer counts.  *)
LEMMA DifferStep ==
    ASSUME TypeOK, RecordInv, Differ(thread), [Next]_vars
    PROVE  Differ(thread)'
<1>1. thread \in Threads
  BY DEF TypeOK, Threads
<1> USE <1>1, Statuses
<1>2. CASE UNCHANGED thread
  BY <1>2 DEF Differ, Unfinished
<1>3. ASSUME NEW a \in Ask, Work(a)
      PROVE  Differ(thread')
  BY <1>3, AdmissionDiffers DEF Work
<1>4. ASSUME NEW t \in Task, NEW x \in Status, Answerable(t), x # "none",
             thread' = Put(thread, t, x)
      PROVE  Differ(thread')
  <2>1. t \in Unfinished(thread) /\ thread.status[t] # "handoff_blocked"
    BY <1>4 DEF Answerable, Current, Newest, Open
  <2> QED BY <1>4, <2>1, PutDiffers
<1>5. ASSUME NEW t \in Task,
             Decline(t) \/ RecordFails(t) \/ Accept(t) \/ CrashInVerification(t)
      PROVE  Differ(thread')
  <2>1. Answerable(t) /\ \E x \in Status \ {"none"} : thread' = Put(thread, t, x)
    BY <1>5 DEF Decline, RecordFails, Accept, CrashInVerification, Open, Finished
  <2>2. PICK x \in Status \ {"none"} : thread' = Put(thread, t, x)
    BY <2>1
  <2> QED BY <1>4, <2>1, <2>2
<1>6. ASSUME NEW s \in Threads, NEW t \in Task, Differ(s), Miss(t, s)
      PROVE  Differ(thread')
  <2>1. CASE thread' = s
    BY <1>6, <2>1
  <2>2. CASE thread' = Put(s, t, "handoff_blocked")
    <3>1. "handoff_blocked" # "none"
      OBVIOUS
    <3> QED BY <1>6, <2>2, <3>1, PutDiffers
  <2> QED BY <1>6, <2>1, <2>2 DEF Miss
<1>7. ASSUME NEW t \in Task, Refused(t)
      PROVE  Differ(thread')
  <2>1. PICK s \in Admission(thread, ByResume) : Miss(t, s)
    BY <1>7 DEF Refused
  <2>2. s \in Threads /\ Differ(s)
    BY AskAssumption, AdmissionTurns, AdmissionDiffers
  <2> QED BY <1>6, <2>1, <2>2
<1>8. ASSUME NEW t \in Task, Resumes(t)
      PROVE  Differ(thread')
  BY <1>8, AskAssumption, AdmissionDiffers DEF Resumes
<1>9. ASSUME NEW t \in Task, ResumeFails(t)
      PROVE  Differ(thread')
  BY <1>6, <1>9 DEF ResumeFails
<1>10. ASSUME NEW t \in Task, ResumeEnds(t)
       PROVE  Differ(thread')
  <2>1. "closed" # "none" /\ "closed" \in Status
    BY DEF Status, Finished
  <2> QED BY <1>10, <2>1, PutDiffers DEF ResumeEnds
<1>11. Differ(thread') => Differ(thread)'
  BY DEF Differ, Unfinished
<1>12. CASE HostChanges \/ Crash \/ UNCHANGED vars
  BY <1>2, <1>12 DEF HostChanges, Crash, vars
<1> QED BY <1>3, <1>5, <1>7, <1>8, <1>9, <1>10, <1>11, <1>12 DEF Next

(* Nobody is asked the same twice, but where a resume was given up.        *)
THEOREM AsksDiffer == Spec => []LiveAsksDiffer
<1>1. Init => Differ(thread)
  BY DEF Init, Differ, Unfinished
<1>2. TypeOK /\ RecordInv /\ Differ(thread) /\ [Next]_vars => Differ(thread)'
  BY DifferStep
<1>3. Differ(thread) => LiveAsksDiffer
  BY DEF Differ, LiveAsksDiffer
<1> QED BY <1>1, <1>2, <1>3, TypeCorrect, RecordsSound, PTL DEF Spec
=============================================================================
