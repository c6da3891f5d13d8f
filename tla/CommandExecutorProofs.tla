------------------------- MODULE CommandExecutorProofs -------------------------
(***************************************************************************)
(* What holds of CommandExecutor for every number of executions and every  *)
(* length of the history, whatever ids are shared.                         *)
(***************************************************************************)
EXTENDS CommandExecutor, SequenceTheorems, TLAPS

--------------------------------------------------------------------------------
(* Types *)

Entry == [id : Jobs, status : Ended, job : Jobs]

\* The newest job has the slot, and every job that was made has an id.
Newest == current = made /\ \A j \in 1 .. made : id[j] # 0

\* A thread works on a record from its beginning on.
Engaged ==
  \A t \in Jobs :
    /\ pc[t] \in {"spawn", "register", "discard", "release", "wait", "fail", "report"} => job[t] # 0
    /\ pc[t] # "none" <=> t <= made

TInv == TypeOK /\ Newest /\ Engaged

\* What a history that forgets its oldest record keeps.
LEMMA Remembered ==
  ASSUME NEW S, NEW h \in Seq(S), NEW r \in S, Len(h) <= MaxHistory
  PROVE  /\ Remember(h, r) \in Seq(S) /\ Len(Remember(h, r)) <= MaxHistory
         /\ \A k \in DOMAIN Remember(h, r) :
              Remember(h, r)[k] = r \/ \E l \in DOMAIN h : Remember(h, r)[k] = h[l]
<1>. DEFINE all == Append(h, r)
            first == IF Len(all) > MaxHistory THEN Len(all) - MaxHistory + 1 ELSE 1
<1>1. /\ all \in Seq(S) /\ Len(all) = Len(h) + 1 /\ Len(h) \in Nat
      /\ \A k \in 1 .. Len(h) : all[k] = h[k]
      /\ all[Len(h) + 1] = r /\ DOMAIN h = 1 .. Len(h)
  OBVIOUS
<1>2. first \in 1 .. Len(all) /\ Len(all) - first + 1 <= MaxHistory
  BY <1>1, ExecutorAssumption
<1>. HIDE DEF all, first
<1>3. /\ SubSeq(all, first, Len(all)) \in Seq(S)
      /\ Len(SubSeq(all, first, Len(all))) = Len(all) - first + 1
      /\ \A k \in 1 .. Len(all) - first + 1 : SubSeq(all, first, Len(all))[k] = all[first + k - 1]
  BY <1>1, <1>2
<1>4. Remember(h, r) = SubSeq(all, first, Len(all))
  BY DEF Remember, all, first
<1>5. ASSUME NEW k \in 1 .. Len(all) - first + 1
      PROVE  all[first + k - 1] = r \/ \E l \in DOMAIN h : all[first + k - 1] = h[l]
  <2>1. first + k - 1 \in 1 .. Len(h) \/ first + k - 1 = Len(h) + 1
    BY <1>1, <1>2
  <2>. QED
    BY <1>1, <2>1
<1>6. DOMAIN SubSeq(all, first, Len(all)) = 1 .. Len(all) - first + 1
  BY <1>3
<1>. QED
  BY <1>2, <1>3, <1>4, <1>5, <1>6

\* Where the numbers of jobs and threads are.
LEMMA Numbers ==
  ASSUME TInv
  PROVE  /\ MaxJobs \in Nat /\ made \in Nat /\ made <= MaxJobs
         /\ \A j \in Jobs : j \in Nat /\ j > 0 /\ j <= MaxJobs /\ (j <= made => j \in 1 .. made)
         /\ \A j \in 1 .. made : j \in Jobs /\ id[j] \in Jobs /\ id[j] \in 1 .. made
         /\ \A t \in Jobs : pc[t] # "none" => t \in 1 .. made
         /\ \A t \in Jobs : job[t] # 0 => job[t] \in Jobs
         /\ current # 0 => current \in Jobs
<1>1. MaxJobs \in Nat /\ made \in Nat /\ made <= MaxJobs /\ current = made
  BY ExecutorAssumption DEF TInv, TypeOK, Newest
<1>2. \A j \in Jobs : j \in Nat /\ j > 0 /\ j <= MaxJobs /\ (j <= made => j \in 1 .. made)
  BY <1>1 DEF Jobs
<1>3. ASSUME NEW j \in 1 .. made PROVE j \in Jobs /\ id[j] \in Jobs /\ id[j] \in 1 .. made
  <2>1. j \in Jobs
    BY <1>1 DEF Jobs
  <2>2. id[j] \in 0 .. made /\ id[j] # 0
    BY <2>1 DEF TInv, TypeOK, Newest
  <2>. QED
    BY <1>1, <2>1, <2>2 DEF Jobs
<1>4. \A t \in Jobs : pc[t] # "none" => t \in 1 .. made
  BY <1>2 DEF TInv, Engaged
<1>5. ASSUME NEW t \in Jobs, job[t] # 0 PROVE job[t] \in Jobs
  <2>1. job[t] \in 0 .. made
    BY DEF TInv, TypeOK
  <2>. QED
    BY <1>1, <1>5, <2>1 DEF Jobs
<1>6. current # 0 => current \in Jobs
  BY <1>1 DEF Jobs
<1>. QED
  BY <1>1, <1>2, <1>3, <1>4, <1>5, <1>6

LEMMA TypeInit == Init => TInv
BY ExecutorAssumption DEF Init, TInv, TypeOK, Newest, Engaged, Jobs, Status, Ended

LEMMA TypeExecute ==
  ASSUME TInv, NEW i \in Jobs, Execute(i) PROVE TInv'
<1>1. /\ made \in Nat /\ MaxJobs \in Nat /\ made < MaxJobs /\ made' = made + 1 /\ made' \in Jobs
      /\ current' = made' /\ current = made /\ made' \in 0 .. MaxJobs
  BY Numbers DEF TInv, Newest, Execute, Jobs
<1>2. i \in 1 .. made'
  <2>1. CASE i = made + 1
    BY <1>1, <2>1
  <2>2. CASE \E j \in 1 .. made : i = id[j]
    BY <1>1, <2>2, Numbers
  <2>. QED
    BY <2>1, <2>2 DEF Execute, NewIds
<1>3. history' \in Seq(Entry) /\ Len(history') <= MaxHistory
  <2>1. history \in Seq(Entry) /\ Len(history) <= MaxHistory
    BY DEF TInv, TypeOK, Entry
  <2>2. CASE current # 0 /\ status[current] \in Ended
    <3>1. current \in Jobs /\ id[current] \in Jobs
      BY <1>1, <2>2, Numbers
    <3>2. Archive \in Entry
      BY <2>2, <3>1 DEF Archive, Entry
    <3>. QED
      BY <2>1, <2>2, <3>2, Remembered DEF Execute
  <2>3. CASE ~(current # 0 /\ status[current] \in Ended)
    BY <2>1, <2>3 DEF Execute
  <2>. QED
    BY <2>2, <2>3
<1>4. id' \in [Jobs -> 0 .. made'] /\ \A j \in 1 .. made' : id'[j] # 0
  <2>1. \A j \in Jobs : id'[j] = IF j = made' THEN i ELSE id[j]
    BY DEF TInv, TypeOK, Execute
  <2>2. \A j \in 1 .. made' : j \in Jobs /\ (j = made' \/ j \in 1 .. made)
    BY <1>1 DEF Jobs
  <2>3. id' = [id EXCEPT ![made'] = i] /\ id \in [Jobs -> 0 .. made] /\ i # 0
        /\ i \in 0 .. made' /\ \A n \in 0 .. made : n \in 0 .. made'
    BY <1>1, <1>2 DEF TInv, TypeOK, Execute
  <2>4. \A j \in 1 .. made : id[j] # 0
    BY DEF TInv, Newest
  <2>. QED
    BY <2>1, <2>2, <2>3, <2>4
<1>5. status' \in [Jobs -> Status]
  BY <1>1 DEF TInv, TypeOK, Status, Execute
<1>6. /\ process' \in [Jobs -> 0 .. made'] /\ job' \in [Jobs -> 0 .. made']
      /\ verdict' \in [Jobs -> Status]
      /\ child' \in [Jobs -> {"none", "gated", "running", "exited"}]
      /\ killing' \subseteq Jobs /\ unverified' \subseteq Jobs
  BY <1>1 DEF TInv, TypeOK, Execute
<1>7. /\ pc' \in [Jobs -> {"none", "starting", "spawn", "register", "discard", "release",
                           "wait", "fail", "report", "done"}]
      /\ Engaged'
  <2>1. pc' = [pc EXCEPT ![made'] = "starting"] /\ job' = job
    BY DEF Execute, Goto
  <2>2. \A t \in Jobs : t \in Nat /\ (t <= made' <=> t = made' \/ t <= made)
    BY <1>1, Numbers
  <2>. QED
    BY <1>1, <2>1, <2>2 DEF TInv, TypeOK, Engaged
<1>8. current' \in 0 .. made'
  BY <1>1
<1>. QED
  BY <1>1, <1>3, <1>4, <1>5, <1>6, <1>7, <1>8 DEF TInv, TypeOK, Newest, Entry

LEMMA TypeCancel ==
  ASSUME TInv, NEW i \in Jobs, Cancel(i) PROVE TInv'
<1>1. current \in Jobs /\ process[current] \in 0 .. made /\ made \in Nat /\ made <= MaxJobs
  BY Numbers DEF TInv, TypeOK, Cancel, IsCurrent
<1>2. process[current] # 0 => process[current] \in Jobs
  BY <1>1, Numbers DEF Jobs
<1>. QED
  BY <1>1, <1>2 DEF TInv, TypeOK, Newest, Engaged, Cancel, Status, Ended

LEMMA TypeThread ==
  ASSUME TInv, NEW t \in Jobs, Thread(t) PROVE TInv'
<1>. USE DEF TInv, TypeOK, Newest, Engaged, Goto, record, Status, Ended
<1>1. /\ made \in Nat /\ MaxJobs \in Nat /\ 0 \in 0 .. made
      /\ (pc[t] # "none" => t \in 0 .. made /\ t \in Nat /\ t <= made)
      /\ (current # 0 => current \in Jobs) /\ (job[t] # 0 => job[t] \in Jobs)
  BY Numbers
<1>2. ASSUME Begin(t) PROVE TInv'
  <2>1. PICK s \in {"spawn", "done"}, j \in 0 .. made :
          /\ job' = [job EXCEPT ![t] = j]
          /\ pc' = [pc EXCEPT ![t] = s]
          /\ s = "spawn" => j # 0
    <3>1. CASE IsCurrent(id[t])
      <4>1. current # 0 /\ current \in 0 .. made
        BY <3>1 DEF IsCurrent
      <4>. QED
        BY <1>2, <3>1, <4>1 DEF Begin
    <3>2. CASE ~IsCurrent(id[t])
      <4>1. job[t] \in 0 .. made /\ job' = [job EXCEPT ![t] = job[t]]
        BY <1>2, <3>2 DEF Begin
      <4>. QED
        BY <1>2, <3>2, <4>1 DEF Begin
    <3>. QED
      BY <3>1, <3>2
  <2>2. /\ pc[t] = "starting"
        /\ UNCHANGED <<id, made, current, history, status, process, verdict, child, killing,
                       unverified>>
    BY <1>2 DEF Begin
  <2>. QED
    BY <1>1, <2>1, <2>2
<1>3. ASSUME StartFails(t) PROVE TInv'
  BY <1>1, <1>3 DEF StartFails, IsCurrent
<1>4. ASSUME Spawn(t) PROVE TInv'
  BY <1>1, <1>4 DEF Spawn
<1>5. ASSUME SpawnFails(t) PROVE TInv'
  <2>1. PICK c \in {"none", "exited"} : child' = [child EXCEPT ![t] = c]
    BY <1>5 DEF SpawnFails
  <2>. QED
    BY <1>1, <1>5, <2>1 DEF SpawnFails
<1>6. ASSUME Register(t) PROVE TInv'
  BY <1>1, <1>6 DEF Register
<1>7. ASSUME Discard(t) PROVE TInv'
  BY <1>1, <1>7 DEF Discard
<1>8. ASSUME Release(t) PROVE TInv'
  BY <1>1, <1>8 DEF Release
<1>9. ASSUME Waited(t) PROVE TInv'
  <2>1. CASE Goto(t, "fail") /\ UNCHANGED verdict
    BY <1>1, <1>9, <2>1 DEF Waited
  <2>2. ASSUME NEW v \in {"succeeded", "failed"}, Judge(t, v) PROVE TInv'
    BY <1>1, <1>9, <2>2 DEF Waited, Judge
  <2>. QED
    BY <1>9, <2>1, <2>2 DEF Waited
<1>10. ASSUME Limit(t) PROVE TInv'
  <2>1. PICK v \in {"timed_out", "failed"} : Judge(t, v)
    BY <1>10 DEF Limit
  <2>2. child' \in [Jobs -> {"none", "gated", "running", "exited"}] /\ unverified' \subseteq Jobs
    BY <1>10 DEF Limit, Terminate
  <2>. QED
    BY <1>1, <1>10, <2>1, <2>2 DEF Limit, Judge
<1>11. ASSUME Fail(t) PROVE TInv'
  BY <1>1, <1>11 DEF Fail, Judge, Terminate
<1>12. ASSUME Report(t) PROVE TInv'
  BY <1>1, <1>12 DEF Report
<1>. QED
  BY <1>2, <1>3, <1>4, <1>5, <1>6, <1>7, <1>8, <1>9, <1>10, <1>11, <1>12 DEF Thread

LEMMA TypeChild ==
  ASSUME TInv, NEW t \in Jobs, ChildExits(t) \/ CancelTerminates(t) PROVE TInv'
BY DEF TInv, TypeOK, Newest, Engaged, ChildExits, CancelTerminates, Terminate, record

\* The records and threads keep their types, whatever ids are shared.
THEOREM TypeCorrect == Spec => [](TypeOK /\ Newest)
<1>1. TInv /\ [Next]_vars => TInv'
  <2>1. CASE UNCHANGED vars
    BY <2>1 DEF vars, record, TInv, TypeOK, Newest, Engaged
  <2>. QED
    BY <2>1, TypeExecute, TypeCancel, TypeThread, TypeChild DEF Next
<1>2. TInv => TypeOK /\ Newest
  BY DEF TInv
<1>. QED
  BY TypeInit, <1>1, <1>2, PTL DEF Spec

--------------------------------------------------------------------------------
(* A thread and its record *)

Busy    == {"spawn", "register", "discard", "release", "wait", "fail", "report"}
Settled == Ended \ {"cancelled"}

\* A thread works on the record that was made for it, which is registered with its
\* child before the command starts.
Own(t) ==
  /\ job[t] \in {0, t} /\ (pc[t] \in Busy <=> job[t] = t /\ pc[t] # "done")
  /\ pc[t] \in {"none", "starting", "spawn"} => child[t] = "none"
  /\ pc[t] \in {"none", "starting", "spawn", "register"} => process[t] = 0
  /\ process[t] \in {0, t}
  /\ pc[t] = "release" \/ child[t] = "running" => process[t] = t
  /\ child[t] = "running" => job[t] = t

\* Nobody but its thread settles a job, and that is the last thing it does.
Late(t) ==
  /\ pc[t] = "report" => verdict[t] \in Settled
  /\ pc[t] # "none" => status[t] \in {"running"} \cup Ended
  /\ status[t] \in Settled => pc[t] = "done"

\* From its registration on, who cancels a job also has its child to terminate.
Hunted(t) ==
  Alive(t) /\ process[t] = t /\ status[t] = "cancelled" => t \in killing \cup unverified

\* The record a thread works on has the thread's id: while nobody shares it, the
\* record is the thread's own.
JInv ==
  \A t \in Jobs :
    /\ IF t <= made THEN job[t] # 0 => id[job[t]] = id[t]
                    ELSE id[t] = 0 /\ job[t] = 0
    /\ Unshared(t) => Own(t) /\ Late(t) /\ Hunted(t)

\* An archived job is over, and what was noted of it is so while nobody shares its id.
Archived ==
  \A k \in DOMAIN history :
    \E j \in 1 .. made : /\ history[k].job = j /\ j < made
                         /\ Unshared(j) => history[k].status = status[j]

IInv == TInv /\ JInv /\ Archived

\* What a step does to threads and records with another id than i: nothing.
Apart(i) ==
  \A u \in Jobs :
    id[u] # i =>
      /\ pc'[u] = pc[u] /\ job'[u] = job[u] /\ child'[u] = child[u]
      /\ verdict'[u] = verdict[u] /\ process'[u] = process[u] /\ status'[u] = status[u]
      /\ u \in killing => u \in killing' \cup unverified'
      /\ u \in unverified => u \in unverified'

LEMMA JobInit == Init => JInv /\ Archived
BY DEF Init, JInv, Archived, Own, Late, Hunted, Busy, Settled, Ended, Alive, Jobs

\* A step under one id that keeps what concerns its only thread keeps the invariant.
LEMMA ApartKeeps ==
  ASSUME TInv, JInv, NEW t \in Jobs, t <= made, Apart(id[t]), UNCHANGED <<id, made>>,
         \A u \in Jobs : IF u <= made THEN job'[u] # 0 => id[job'[u]] = id[u]
                                       ELSE job'[u] = 0,
         Unshared(t) => (Own(t) /\ Late(t) /\ Hunted(t))'
  PROVE  JInv'
<1>0. t \in 1 .. made
  BY Numbers
<1>1. ASSUME NEW u \in Jobs, Unshared(u) PROVE (Own(u) /\ Late(u) /\ Hunted(u))'
  <2>1. CASE id[u] = id[t]
    BY <1>0, <1>1, <2>1 DEF Unshared
  <2>2. CASE id[u] # id[t]
    BY <1>1, <2>2 DEF JInv, Apart, Own, Late, Hunted, Alive
  <2>. QED
    BY <2>1, <2>2
<1>2. ASSUME NEW u \in Jobs PROVE Unshared(u)' = Unshared(u)
  BY DEF Unshared
<1>. QED
  BY <1>1, <1>2 DEF JInv

LEMMA JobExecute ==
  ASSUME TInv, JInv, NEW i \in Jobs, Execute(i) PROVE JInv'
<1>1. PICK t \in Jobs : t = made + 1
  BY Numbers DEF Execute, Jobs
<1>2. /\ pc[t] = "none" /\ pc' = [pc EXCEPT ![t] = "starting"]
      /\ status' = [status EXCEPT ![t] = "running"] /\ id' = [id EXCEPT ![t] = i]
      /\ UNCHANGED <<process, job, verdict, child, killing, unverified>>
      /\ made \in Nat /\ made' = made + 1
  BY <1>1, Numbers DEF TInv, Engaged, Execute, Goto
<1>3. ASSUME NEW u \in Jobs
      PROVE  IF u <= made' THEN job'[u] # 0 => id'[job'[u]] = id'[u]
                           ELSE id'[u] = 0 /\ job'[u] = 0
  <2>1. job[u] # t /\ (u <= made' <=> u = t \/ u <= made)
    <3>1. job[u] \in 0 .. made /\ u \in Nat
      BY Numbers DEF TInv, TypeOK
    <3>. QED
      BY <1>1, <1>2, <3>1
  <2>2. job[u] # 0 => job[u] \in Jobs
    BY Numbers
  <2>. QED
    BY <1>1, <1>2, <2>1, <2>2 DEF TInv, TypeOK, JInv
<1>4. Unshared(t) /\ Own(t) /\ job[t] # t
  <2>1. id[t] = 0 /\ job[t] = 0 /\ t # 0
    BY <1>1, <1>2 DEF JInv, Jobs
  <2>2. Unshared(t)
    BY <2>1 DEF Unshared, TInv, Newest
  <2>. QED
    BY <2>1, <2>2 DEF JInv
<1>5. (Own(t) /\ Late(t) /\ Hunted(t))'
  BY <1>2, <1>4 DEF TInv, TypeOK, Own, Late, Hunted, Busy, Settled, Ended
<1>6. ASSUME NEW u \in Jobs, u # t, Unshared(u)' PROVE (Own(u) /\ Late(u) /\ Hunted(u))'
  <2>1. Unshared(u)
    <3>1. \A k \in 1 .. made : k \in 1 .. made' /\ k \in Jobs /\ k # t
      BY <1>1, <1>2, Numbers
    <3>. QED
      BY <1>2, <1>6, <3>1 DEF Unshared, TInv, TypeOK
  <2>2. /\ pc'[u] = pc[u] /\ status'[u] = status[u]
        /\ Own(u) /\ Late(u) /\ Hunted(u)
    BY <1>2, <1>6, <2>1 DEF TInv, TypeOK, JInv
  <2>. QED
    BY <1>2, <2>2 DEF Own, Late, Hunted, Alive
<1>. QED
  BY <1>3, <1>5, <1>6 DEF JInv

LEMMA JobCancel ==
  ASSUME TInv, JInv, NEW i \in Jobs, Cancel(i) PROVE JInv'
<1>1. PICK t \in Jobs : t = current
  BY Numbers DEF Cancel, IsCurrent
<1>2. /\ status[t] = "running" /\ status' = [status EXCEPT ![t] = "cancelled"]
      /\ UNCHANGED <<made, id, process, pc, job, verdict, child, unverified>>
      /\ killing \subseteq killing' /\ (process[t] # 0 => process[t] \in killing')
      /\ t <= made
  BY <1>1, Numbers DEF Cancel, TInv, Newest
<1>3. Apart(id[t])
  BY <1>2 DEF TInv, TypeOK, Apart
<1>4. ASSUME Unshared(t) PROVE (Own(t) /\ Late(t) /\ Hunted(t))'
  <2>1. Own(t) /\ Late(t) /\ Hunted(t) /\ t # 0
    BY <1>4 DEF JInv, Jobs
  <2>. QED
    BY <1>2, <2>1 DEF TInv, TypeOK, Own, Late, Hunted, Busy, Settled, Ended, Alive
<1>. QED
  BY <1>2, <1>3, <1>4, ApartKeeps DEF JInv

\* The record that a thread works on, or that it finds in the slot under its id, has that
\* id; if it is not shared, it is the thread's own.
LEMMA Found ==
  ASSUME TInv, JInv, NEW t \in Jobs, pc[t] # "none", NEW j,
         (j = job[t] /\ j # 0) \/ (j = current /\ IsCurrent(id[t]))
  PROVE  j \in Jobs /\ id[j] = id[t] /\ (Unshared(t) => j = t) /\ t <= made
<1>1. t \in 1 .. made /\ t <= made /\ (current # 0 => current \in 1 .. made)
  BY Numbers DEF IsCurrent, TInv, Newest
<1>2. j \in 1 .. made /\ j \in Jobs /\ id[j] = id[t]
  <2>1. job[t] # 0 => job[t] \in 1 .. made /\ id[job[t]] = id[t]
    BY <1>1, Numbers DEF TInv, TypeOK, JInv
  <2>. QED
    BY <1>1, <2>1, Numbers DEF IsCurrent
<1>. QED
  BY <1>1, <1>2 DEF Unshared

\* What it does to its own record.
LEMMA OwnThread ==
  ASSUME TInv, JInv, NEW t \in Jobs, Unshared(t), Thread(t)
  PROVE  (Own(t) /\ Late(t) /\ Hunted(t))'
<1>. DEFINE Good == (Own(t) /\ Late(t) /\ Hunted(t))'
<1>. USE DEF TInv, TypeOK, Own, Late, Hunted, Goto, record, Busy, Settled, Ended, Alive
<1>0. t # 0 /\ Own(t) /\ Late(t) /\ Hunted(t)
  BY DEF Jobs, JInv
<1>1. ASSUME Begin(t) PROVE Good
  <2>1. IsCurrent(id[t]) => current = t
    BY <1>1, Found DEF Begin, IsCurrent
  <2>. QED
    BY <1>0, <1>1, <2>1 DEF Begin
<1>2. ASSUME StartFails(t) PROVE Good
  <2>1. IsCurrent(id[t]) => current = t
    BY <1>2, Found DEF StartFails, IsCurrent
  <2>. QED
    BY <1>0, <1>2, <2>1 DEF StartFails
<1>3. ASSUME Spawn(t) PROVE Good
  BY <1>0, <1>3 DEF Spawn
<1>4. ASSUME SpawnFails(t) PROVE Good
  <2>1. PICK c \in {"none", "exited"} : child' = [child EXCEPT ![t] = c]
    BY <1>4 DEF SpawnFails
  <2>. QED
    BY <1>0, <1>4, <2>1 DEF SpawnFails
<1>5. ASSUME Register(t) PROVE Good
  BY <1>0, <1>5 DEF Register
<1>6. ASSUME Discard(t) PROVE Good
  BY <1>0, <1>6 DEF Discard
<1>7. ASSUME Release(t) PROVE Good
  BY <1>0, <1>7 DEF Release
<1>8. ASSUME Waited(t) PROVE Good
  <2>1. CASE Goto(t, "fail") /\ UNCHANGED verdict
    BY <1>0, <1>8, <2>1 DEF Waited
  <2>2. ASSUME NEW v \in {"succeeded", "failed"}, Judge(t, v) PROVE Good
    BY <1>0, <1>8, <2>2 DEF Waited, Judge
  <2>. QED
    BY <1>8, <2>1, <2>2 DEF Waited
<1>9. ASSUME Terminate(t), UNCHANGED killing
      PROVE  /\ t \in killing \cup unverified => t \in killing' \cup unverified'
             /\ child'[t] \in {child[t], "exited"} /\ (Alive(t)' => t \in unverified')
  BY <1>9 DEF Terminate
<1>10. ASSUME Limit(t) PROVE Good
  <2>1. PICK v \in {"timed_out", "failed"} : Judge(t, v)
    BY <1>10 DEF Limit
  <2>. QED
    BY <1>0, <1>9, <1>10, <2>1 DEF Limit, Judge
<1>11. ASSUME Fail(t) PROVE Good
  BY <1>0, <1>9, <1>11 DEF Fail, Judge
<1>12. ASSUME Report(t) PROVE Good
  BY <1>0, <1>12 DEF Report
<1>. QED
  BY <1>1, <1>2, <1>3, <1>4, <1>5, <1>6, <1>7, <1>8, <1>10, <1>11, <1>12 DEF Thread

\* What it does to the others.
LEMMA OtherThreads ==
  ASSUME TInv, JInv, NEW t \in Jobs, Thread(t) PROVE Apart(id[t])
<1>0. /\ pc[t] # "none"
      /\ pc[t] \in Busy => job[t] \in Jobs /\ id[job[t]] = id[t]
      /\ IsCurrent(id[t]) => current \in Jobs /\ id[current] = id[t]
  <2>1. pc[t] # "none"
    BY DEF Thread, Begin, StartFails, Spawn, SpawnFails, Register, Discard, Release, Waited,
           Limit, Fail, Report
  <2>2. pc[t] \in Busy => job[t] # 0
    BY DEF TInv, Engaged, Busy
  <2>. QED
    BY <2>1, <2>2, Found DEF IsCurrent
<1>. USE DEF TInv, TypeOK, Apart, Goto, Busy, record
<1>1. CASE Begin(t) \/ StartFails(t)
  BY <1>0, <1>1 DEF Begin, StartFails
<1>2. CASE Spawn(t) \/ SpawnFails(t) \/ Register(t) \/ Discard(t) \/ Release(t) \/ Report(t)
  BY <1>0, <1>2 DEF Spawn, SpawnFails, Register, Discard, Release, Report
<1>3. CASE Waited(t)
  BY <1>3 DEF Waited, Judge
<1>4. CASE Limit(t) \/ Fail(t)
  <2>1. \A u \in Jobs : pc'[u] # pc[u] \/ verdict'[u] # verdict[u] => u = t
    BY <1>4 DEF Limit, Fail, Judge
  <2>2. \A u \in Jobs : child'[u] # child[u] => u = t
    BY <1>4 DEF Limit, Fail, Terminate
  <2>. QED
    BY <1>4, <2>1, <2>2 DEF Limit, Fail, Terminate
<1>. QED
  BY <1>1, <1>2, <1>3, <1>4 DEF Thread

LEMMA JobThread ==
  ASSUME TInv, JInv, NEW t \in Jobs, Thread(t) PROVE JInv'
<1>1. UNCHANGED <<id, made>> /\ pc[t] # "none"
  BY DEF Thread, Begin, StartFails, Spawn, SpawnFails, Register, Discard, Release, Waited, Limit,
         Fail, Report, record
<1>2. t <= made
  BY <1>1 DEF TInv, Engaged
<1>3. job' = job \/ \E j \in Jobs : id[j] = id[t] /\ job' = [job EXCEPT ![t] = j]
  <2>1. CASE Begin(t)
    BY <1>1, <2>1, Found DEF Begin, IsCurrent
  <2>2. CASE ~Begin(t)
    BY <2>2 DEF Thread, StartFails, Spawn, SpawnFails, Register, Discard, Release, Waited, Limit,
                Fail, Report
  <2>. QED
    BY <2>1, <2>2
<1>4. ASSUME NEW u \in Jobs
      PROVE  IF u <= made THEN job'[u] # 0 => id[job'[u]] = id[u] ELSE job'[u] = 0
  BY <1>2, <1>3 DEF TInv, TypeOK, JInv
<1>. QED
  BY <1>1, <1>2, <1>4, OwnThread, OtherThreads, ApartKeeps

LEMMA JobChild ==
  ASSUME TInv, JInv, NEW t \in Jobs, ChildExits(t) \/ CancelTerminates(t) PROVE JInv'
<1>1. UNCHANGED <<id, made, status, process, pc, job, verdict>>
  BY DEF ChildExits, CancelTerminates, record
<1>2. /\ \A u \in Jobs : child'[u] # child[u] => u = t /\ Alive(u) /\ child'[u] = "exited"
      /\ \A u \in Jobs \ {t} : u \in killing => u \in killing'
      /\ unverified \subseteq unverified'
      /\ t \in killing /\ child'[t] \in {"gated", "running"} => t \in killing' \cup unverified'
  BY DEF ChildExits, CancelTerminates, Terminate, TInv, TypeOK, Alive
<1>3. ASSUME NEW u \in Jobs, Unshared(u)' PROVE (Own(u) /\ Late(u) /\ Hunted(u))'
  <2>1. Own(u) /\ Late(u) /\ Hunted(u)
    BY <1>1, <1>3 DEF JInv, Unshared
  <2>. QED
    BY <1>1, <1>2, <2>1 DEF Own, Late, Hunted, Alive
<1>. QED
  BY <1>1, <1>3 DEF JInv

--------------------------------------------------------------------------------
(* The history *)

\* A settled or cancelled job that no longer has the slot keeps its status.
LEMMA OverStays ==
  ASSUME TInv, JInv, Next, NEW j \in 1 .. made, Unshared(j), j # made, status[j] \in Ended
  PROVE  status'[j] = status[j]
<1>0. j \in Jobs /\ j # made + 1 /\ j # current /\ made' \in {made, made + 1} /\ made \in Nat
  BY Numbers DEF TInv, Newest, Next, Execute, Cancel, Thread, Begin, StartFails, Spawn, SpawnFails,
                 Register, Discard, Release, Waited, Limit, Fail, Report, ChildExits,
                 CancelTerminates
<1>1. ASSUME NEW i \in Jobs, Execute(i) \/ Cancel(i) PROVE status'[j] = status[j]
  BY <1>0, <1>1 DEF Execute, Cancel, TInv, TypeOK
<1>2. ASSUME NEW t \in Jobs, StartFails(t) PROVE status'[j] = status[j]
  <2>1. current = made /\ made \in Jobs
    BY <1>0, Numbers DEF TInv, Newest
  <2>. QED
    BY <1>0, <1>2, <2>1 DEF StartFails, TInv, TypeOK
<1>3. ASSUME NEW t \in Jobs, Report(t) PROVE status'[j] = status[j]
  <2>1. pc[t] = "report" /\ job[t] # 0
    BY <1>3 DEF Report, TInv, Engaged
  <2>2. job[t] = j => id[j] = id[t] /\ t \in 1 .. made
    <3>1. job[t] = j => id[j] = id[t]
      BY <2>1, Found
    <3>2. t \in 1 .. made
      BY <2>1, Numbers
    <3>. QED
      BY <3>1, <3>2
  <2>3. CASE job[t] = j
    <3>1. t = j
      BY <2>2, <2>3 DEF Unshared
    <3>2. status[j] \notin Settled
      BY <1>0, <2>1, <3>1 DEF JInv, Late
    <3>. QED
      BY <1>0, <1>3, <2>3, <3>2 DEF Report, TInv, TypeOK, Settled
  <2>4. CASE job[t] # j
    BY <1>0, <1>3, <2>4 DEF Report, TInv, TypeOK
  <2>. QED
    BY <2>3, <2>4
<1>4. ASSUME NEW t \in Jobs, Thread(t), ~StartFails(t), ~Report(t) PROVE status' = status
  BY <1>4 DEF Thread, Begin, Spawn, SpawnFails, Register, Discard, Release, Waited, Limit, Fail,
              record
<1>5. ASSUME NEW t \in Jobs, ChildExits(t) \/ CancelTerminates(t) PROVE status' = status
  BY <1>5 DEF ChildExits, CancelTerminates, record
<1>. QED
  BY <1>1, <1>2, <1>3, <1>4, <1>5 DEF Next

\* Only execute() writes the history.
LEMMA HistoryStays ==
  ASSUME Next PROVE (UNCHANGED <<history, made>>) \/ \E i \in Jobs : Execute(i)
BY DEF Next, Cancel, Thread, Begin, StartFails, Spawn, SpawnFails, Register, Discard, Release,
       Waited, Limit, Fail, Report, ChildExits, CancelTerminates

LEMMA HistoryKeeps ==
  ASSUME IInv, Next PROVE Archived'
<1>0. ASSUME NEW j \in 1 .. made, Unshared(j)' PROVE Unshared(j)
  <2>1. made \in Nat /\ \A k \in 1 .. made : k \in Jobs /\ k # made + 1
    BY Numbers DEF IInv
  <2>2. \A k \in 1 .. made : k \in 1 .. made' /\ id'[k] = id[k]
    <3>1. CASE \E i \in Jobs : Execute(i)
      BY <2>1, <3>1 DEF Execute, IInv, TInv, TypeOK
    <3>2. CASE UNCHANGED <<id, made>>
      BY <3>2
    <3>. QED
      BY <3>1, <3>2
      DEF Next, Cancel, Thread, Begin, StartFails, Spawn, SpawnFails, Register, Discard, Release,
          Waited, Limit, Fail, Report, ChildExits, CancelTerminates, record
  <2>. QED
    BY <1>0, <2>2 DEF Unshared
<1>1. ASSUME NEW k \in DOMAIN history
      PROVE  \E j \in 1 .. made : /\ history[k].job = j /\ j < made
                                  /\ Unshared(j)' => history[k].status = status'[j]
  <2>1. PICK j \in 1 .. made : /\ history[k].job = j /\ j < made
                               /\ Unshared(j) => history[k].status = status[j]
    BY DEF IInv, Archived
  <2>2. j # made /\ history[k].status \in Ended
    <3>1. history \in Seq(Entry) /\ made \in Nat
      BY Numbers DEF IInv, TInv, TypeOK, Entry
    <3>2. history[k] \in Entry
      BY <3>1
    <3>. QED
      BY <2>1, <3>1, <3>2 DEF Entry
  <2>3. Unshared(j)' => history[k].status = status'[j]
    BY <1>0, <2>1, <2>2, OverStays DEF IInv
  <2>. QED
    BY <2>1, <2>3
<1>2. CASE UNCHANGED <<history, made>>
  BY <1>1, <1>2 DEF Archived
<1>3. ASSUME NEW i \in Jobs, Execute(i) PROVE Archived'
  <2>1. made' = made + 1 /\ made \in Nat /\ current = made
    BY <1>3, Numbers DEF Execute, IInv, TInv, Newest
  <2>2. CASE UNCHANGED history
    <3>1. \A j \in 1 .. made : j < made' /\ j \in 1 .. made'
      BY <2>1
    <3>. QED
      BY <1>1, <2>2, <3>1 DEF Archived
  <2>3. CASE current # 0 /\ status[current] \in Ended
    <3>1. history' = Remember(history, Archive) /\ Archive.job = made
          /\ Archive.status = status[made] /\ status'[made] = status[made]
      BY <1>3, <2>1, <2>3, Numbers DEF Execute, Archive, IInv, TInv, TypeOK
    <3>2. current \in Jobs /\ id[current] \in Jobs
      BY <2>1, <2>3, Numbers DEF IInv
    <3>3. Archive \in Entry /\ history \in Seq(Entry) /\ Len(history) <= MaxHistory
      BY <2>3, <3>2 DEF Archive, Entry, IInv, TInv, TypeOK
    <3>4. ASSUME NEW k \in DOMAIN history'
          PROVE  history'[k] = Archive \/ \E l \in DOMAIN history : history'[k] = history[l]
      BY <3>1, <3>3, Remembered
    <3>5. ASSUME NEW k \in DOMAIN history'
          PROVE  \E j \in 1 .. made' : /\ history'[k].job = j /\ j < made'
                                       /\ Unshared(j)' => history'[k].status = status'[j]
      <4>1. CASE history'[k] = Archive
        BY <2>1, <2>3, <3>1, <4>1, Numbers DEF IInv
      <4>2. CASE \E l \in DOMAIN history : history'[k] = history[l]
        <5>1. \A j \in 1 .. made : j < made' /\ j \in 1 .. made'
          BY <2>1
        <5>. QED
          BY <1>1, <4>2, <5>1
      <4>. QED
        BY <3>4, <4>1, <4>2
    <3>. QED
      BY <3>5 DEF Archived
  <2>. QED
    BY <1>3, <2>2, <2>3 DEF Execute
<1>. QED
  BY <1>2, <1>3, HistoryStays

--------------------------------------------------------------------------------
(* What holds *)

LEMMA StepKeeps ==
  ASSUME IInv, [Next]_vars PROVE IInv'
<1>1. CASE UNCHANGED vars
  <2>1. \A j : Unshared(j)' <=> Unshared(j)
    BY <1>1 DEF vars, record, Unshared
  <2>2. TInv' /\ JInv'
    BY <1>1, <2>1 DEF vars, record, IInv, TInv, TypeOK, Newest, Engaged, JInv, Own, Late, Hunted,
                      Alive
  <2>3. Archived'
    BY <1>1, <2>1 DEF vars, record, IInv, Archived
  <2>. QED
    BY <2>2, <2>3 DEF IInv
<1>2. CASE Next
  BY <1>2, HistoryKeeps, TypeExecute, TypeCancel, TypeThread, TypeChild,
     JobExecute, JobCancel, JobThread, JobChild DEF IInv, Next
<1>. QED
  BY <1>1, <1>2

LEMMA Invariance == Spec => []IInv
<1>1. Init => IInv
  BY TypeInit, JobInit DEF IInv
<1>. QED
  BY <1>1, StepKeeps, PTL DEF Spec

\* What the history says of a job stays true of its record (lines 827-830), however the
\* threads of later jobs run beside its own, unless its command was executed again within
\* the second.
THEOREM HistoriesTrue == Spec => []HistoryTrue
<1>1. IInv => HistoryTrue
  BY DEF IInv, Archived, HistoryTrue, Unshared
<1>. QED
  BY <1>1, Invariance, PTL

\* A command that was cancelled is terminated or that was tried, whenever the cancel() came:
\* before its child was known, while it was gated, or while it runs; unless the command was
\* executed again within the second.
THEOREM CancelledAreStopped == Spec => []CancelledIsStopped
<1>1. ASSUME IInv, NEW t \in Jobs, job[t] # 0, Unshared(job[t]) PROVE Pursued(t)
  <2>1. t \in 1 .. made /\ id[job[t]] = id[t]
    BY <1>1, Numbers DEF IInv, JInv
  <2>2. job[t] = t
    BY <1>1, <2>1 DEF Unshared
  <2>. QED
    BY <1>1, <2>2 DEF IInv, JInv, Own, Hunted, Alive, Pursued
<1>2. IInv => CancelledIsStopped
  BY <1>1 DEF CancelledIsStopped
<1>. QED
  BY <1>2, Invariance, PTL

================================================================================
