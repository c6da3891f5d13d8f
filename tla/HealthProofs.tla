----------------------------- MODULE HealthProofs -----------------------------
(***************************************************************************)
(* What holds of HealthState for every number of attempts, pulls and       *)
(* faults: no attempt is recorded twice on the state branch, green is      *)
(* earned, red ends only with a repair, and merges rest on evidence.       *)
(*                                                                         *)
(* The first needs little: IInv.  The others rest on one invariant more:   *)
(* History, what the attempts, the merges and the branch have to do with   *)
(* each other whatever the broker is about, and Knows, what the broker     *)
(* holds at each point of its cycle and may still act on.                  *)
(***************************************************************************)
EXTENDS HealthState, TLAPS

Awaiting == {"awaitMain", "awaitDeep", "awaitRepair"}

\* What the broker knows of the branch: it is at most one push behind, and what it is
\* about to record was not recorded when it read.
IInv ==
  /\ branch \in Seq({branch[k] : k \in DOMAIN branch}) /\ Len(branch) >= 1
  /\ view \in 0 .. Len(branch)
  /\ pc \in Awaiting => Len(branch) = view + 1
  /\ pc = "appendMain" => seen.run \notin Recorded(view)
  /\ pc = "record" => queue \cap Recorded(view) = {}
  /\ RecordedOnce

LEMMA AppendedTo ==
  ASSUME NEW S, NEW s \in Seq(S), NEW e \in S
  PROVE  /\ Append(s, e) \in Seq(S) /\ Len(s) \in Nat /\ Len(Append(s, e)) = Len(s) + 1
         /\ \A k \in 1 .. Len(s) : Append(s, e)[k] = s[k]
         /\ Append(s, e)[Len(s) + 1] = e
OBVIOUS

LEMMA Appended ==
  ASSUME branch \in Seq({branch[k] : k \in DOMAIN branch}), NEW e
  PROVE  /\ Append(branch, e)
              \in Seq({Append(branch, e)[k] : k \in DOMAIN Append(branch, e)})
         /\ Len(branch) \in Nat /\ Len(Append(branch, e)) = Len(branch) + 1
         /\ \A k \in 1 .. Len(branch) : Append(branch, e)[k] = branch[k]
         /\ Append(branch, e)[Len(branch) + 1] = e
<1>. DEFINE S == {branch[k] : k \in DOMAIN branch} \cup {e}
            b == Append(branch, e)
<1>1. branch \in Seq(S) /\ e \in S
  OBVIOUS
<1>2. /\ b \in Seq(S) /\ Len(b) = Len(branch) + 1 /\ Len(branch) \in Nat
      /\ b[Len(branch) + 1] = e /\ \A k \in 1 .. Len(branch) : b[k] = branch[k]
  <2>. HIDE DEF S
  <2>. QED
    BY <1>1, AppendedTo
<1>3. b \in Seq({b[k] : k \in DOMAIN b})
  <2>. HIDE DEF b, S
  <2>. QED
    BY <1>2
<1>. QED
  BY <1>2, <1>3

\* An entry that is pushed is new.
LEMMA PushKeeps ==
  ASSUME IInv, NEW e, NEW next \in Awaiting,
         e.run = 0 \/ e.run \notin Recorded(view), Push(e, next)
  PROVE  IInv'
<1>0. branch \in Seq({branch[k] : k \in DOMAIN branch}) /\ Len(branch) \in Nat /\ Len(branch) >= 1
  BY Appended DEF IInv
<1>1. CASE view = Len(branch)
  <2>1. /\ branch' = Append(branch, e) /\ pc' = next /\ view' = view
    BY <1>1 DEF Push, local
  <2>2. /\ branch' \in Seq({branch'[k] : k \in DOMAIN branch'})
        /\ Len(branch') = Len(branch) + 1 /\ branch'[Len(branch) + 1] = e
        /\ \A k \in 1 .. Len(branch) : branch'[k] = branch[k]
    BY <1>0, <2>1, Appended
  <2>3. RecordedOnce'
    <3>1. ASSUME NEW k \in 1 .. Len(branch) + 1, NEW j \in 1 .. k - 1,
                 branch'[j].run = branch'[k].run, branch'[k].run # 0
          PROVE  FALSE
      <4>1. j \in 1 .. Len(branch) /\ branch'[j] = branch[j]
        BY <1>0, <2>2
      <4>2. CASE k = Len(branch) + 1
        <5>1. branch[j].run = e.run /\ e.run # 0
          BY <2>2, <3>1, <4>1, <4>2
        <5>. QED
          BY <1>1, <4>1, <5>1 DEF Recorded
      <4>3. CASE k \in 1 .. Len(branch)
        BY <2>2, <3>1, <4>1, <4>3 DEF IInv, RecordedOnce, Repeats, Tip
      <4>. QED
        BY <1>0, <4>2, <4>3
    <3>. QED
      BY <2>2, <3>1 DEF RecordedOnce, Repeats, Tip
  <2>4. /\ view' \in 0 .. Len(branch') /\ Len(branch') >= 1 /\ Len(branch') = view' + 1
    BY <1>0, <1>1, <2>1, <2>2
  <2>. QED
    BY <2>1, <2>2, <2>3, <2>4 DEF IInv, Awaiting
<1>2. CASE view # Len(branch)
  BY <1>0, <1>2 DEF Push, Raise, EndCycle, github, IInv, Awaiting, RecordedOnce, Repeats, Tip
<1>. QED
  BY <1>1, <1>2

\* A cycle that ends leaves the branch as it is.
LEMMA EndKeeps ==
  ASSUME IInv, EndCycle, UNCHANGED branch PROVE IInv'
<1>1. Len(branch) \in Nat
  BY Appended DEF IInv
<1>. QED
  BY <1>1 DEF IInv, EndCycle, Awaiting, RecordedOnce, Repeats, Tip

\* So does a step that looks at the branch anew.
LEMMA LookKeeps ==
  ASSUME IInv, UNCHANGED branch, view' \in 0 .. Len(branch), pc' \notin Awaiting,
         pc' = "appendMain" => seen'.run \notin Recorded(view)',
         pc' = "record" => queue' \cap Recorded(view)' = {}
  PROVE  IInv'
BY DEF IInv, RecordedOnce, Repeats, Tip

\* And what happens on GitHub.
LEMMA OutsideKeeps ==
  ASSUME IInv, UNCHANGED <<branch, pc, local>> PROVE IInv'
BY DEF IInv, RecordedOnce, Repeats, Recorded, Tip, local

LEMMA StepKeeps ==
  ASSUME IInv, Next PROVE IInv'
<1>0. /\ Len(branch) \in Nat /\ Len(branch) >= 1 /\ view \in 0 .. Len(branch)
      /\ Readable \subseteq 0 .. Len(branch)
  BY Appended DEF IInv, Readable
<1>1. CASE SelectRuns
  BY <1>0, <1>1, LookKeeps DEF SelectRuns, Awaiting
<1>2. CASE ConfirmRuns
  <2>1. CASE main = seen.sha
    BY <1>0, <1>2, <2>1, LookKeeps DEF ConfirmRuns, Awaiting
  <2>. QED
    BY <1>2, <2>1, EndKeeps DEF ConfirmRuns, Raise
<1>3. CASE Compare
  <2>1. PICK v \in Readable :
          \/ Raise
          \/ pc' = "deep" /\ view' = v /\ UNCHANGED branch
          \/ /\ seen.run \notin Recorded(v) /\ pc' = "appendMain"
             /\ view' = v /\ UNCHANGED <<branch, seen>>
    BY <1>3, Zenon DEF Compare
  <2>2. CASE Raise
    BY <2>2, EndKeeps DEF Raise
  <2>3. CASE ~Raise
    BY <1>0, <2>1, <2>3, LookKeeps DEF Awaiting, Recorded
  <2>. QED
    BY <2>2, <2>3
<1>4. CASE AppendMain
  <2>. DEFINE e == Ingested("protected-main", seen.run, seen.sha, seen.result)
  <2>1. e.run = seen.run
    BY DEF Ingested, Entry
  <2>2. seen.run \notin Recorded(view)
    BY <1>4 DEF AppendMain, IInv
  <2>3. Push(e, "awaitMain")
    BY <1>4 DEF AppendMain
  <2>. QED
    BY <2>1, <2>2, <2>3, PushKeeps DEF Awaiting
<1>5. ASSUME NEW next \in {"deep", "pulls"}, pc \in Awaiting, Converged(next) PROVE IInv'
  <2>1. view' = Len(branch)
    BY <1>5 DEF Converged, IInv
  <2>. QED
    BY <1>0, <1>5, <2>1, LookKeeps DEF Converged, Awaiting
<1>6. CASE ListDeep
  <2>1. PICK v \in Readable :
          \/ Raise
          \/ /\ queue' = Unrecorded(v) /\ view' = v /\ pc' \in {"repair", "record"}
             /\ UNCHANGED branch
    BY <1>6 DEF ListDeep
  <2>2. CASE Raise
    BY <2>2, EndKeeps DEF Raise
  <2>3. CASE ~Raise
    BY <1>0, <2>1, <2>3, LookKeeps DEF Awaiting, Recorded, Unrecorded
  <2>. QED
    BY <2>2, <2>3
<1>7. CASE RecordDeep
  <2>1. PICK i \in queue :
          IF runs[i].sha = seen.sha
          THEN Push(Ingested(runs[i].cadence, i, runs[i].sha,
                             IF runs[i].status = "success" THEN "success" ELSE "failure"),
                    "awaitDeep")
          ELSE Raise
    BY <1>7 DEF RecordDeep
  <2>2. CASE runs[i].sha = seen.sha
    <3>. DEFINE e == Ingested(runs[i].cadence, i, runs[i].sha,
                              IF runs[i].status = "success" THEN "success" ELSE "failure")
    <3>1. e.run = i
      BY DEF Ingested, Entry
    <3>2. i \notin Recorded(view)
      BY <1>7, <2>1 DEF RecordDeep, IInv
    <3>3. Push(e, "awaitDeep")
      BY <2>1, <2>2
    <3>. QED
      BY <3>1, <3>2, <3>3, PushKeeps DEF Awaiting
  <2>3. CASE runs[i].sha # seen.sha
    BY <2>1, <2>3, EndKeeps DEF Raise
  <2>. QED
    BY <2>2, <2>3
<1>8. CASE AwaitDeep
  <2>1. view' = Len(branch) /\ UNCHANGED branch /\ queue' = queue \ Recorded(Len(branch))
        /\ pc' \in {"repair", "record"}
    BY <1>8 DEF AwaitDeep, IInv, Awaiting
  <2>. QED
    BY <1>0, <2>1, LookKeeps DEF Awaiting, Recorded
<1>9. CASE ReadRepair
  <2>1. PICK v \in Readable :
          Raise \/ (view' = v /\ pc' \in {"resolve", "pulls"} /\ UNCHANGED branch)
    BY <1>9 DEF ReadRepair
  <2>2. CASE Raise
    BY <2>2, EndKeeps DEF Raise
  <2>3. CASE ~Raise
    BY <1>0, <2>1, <2>3, LookKeeps DEF Awaiting
  <2>. QED
    BY <2>2, <2>3
<1>10. CASE Resolve
  <2>. DEFINE e == Entry("repair-resolution", 0, seen.sha, "success", "green", 0, seen.sha)
  <2>1. e.run = 0 /\ Push(e, "awaitRepair")
    BY <1>10 DEF Resolve, Entry
  <2>. QED
    BY <2>1, PushKeeps DEF Awaiting
<1>11. ASSUME NEW p \in Pulls, Seal(p) PROVE IInv'
  <2>1. PICK v \in Readable : view' = v
    BY <1>11 DEF Seal
  <2>. QED
    BY <1>0, <1>11, <2>1, LookKeeps DEF Seal, Awaiting
<1>12. ASSUME NEW p \in Pulls, Merge(p) PROVE IInv'
  BY <1>12, EndKeeps DEF Merge, Raise
<1>13. CASE PullsDone \/ AwaitTimesOut \/ Crash
  BY <1>13, EndKeeps DEF PullsDone, Raise, AwaitTimesOut, Crash
<1>14. CASE Converge \/ Drift
  BY <1>14, OutsideKeeps DEF Converge, Drift, Elsewhere, Outside
<1>15. ASSUME NEW c, NEW i, Dispatch(c) \/ Rerun(i) \/ EndRun(i) PROVE IInv'
  BY <1>15, OutsideKeeps DEF Dispatch, Rerun, EndRun, Elsewhere, Outside
<1>16. ASSUME NEW p, NEW k, Ask(p) \/ Expire(p, k) PROVE IInv'
  BY <1>16, OutsideKeeps DEF Ask, Expire, Elsewhere, Outside
<1>17. CASE AwaitMain \/ AwaitRepair
  BY <1>5, <1>17 DEF AwaitMain, AwaitRepair, Awaiting
<1>. QED
  BY <1>1, <1>2, <1>3, <1>4, <1>6, <1>7, <1>8, <1>9, <1>10, <1>11, <1>12, <1>13, <1>14, <1>15,
     <1>16, <1>17 DEF Next, Broker

\* Whatever crash, stale read or refused push comes between two looks, no attempt is
\* recorded twice, for every number of attempts, pulls and faults (reconcile_main and
\* reconcile_deep of tools/main_health_broker.py, lines 5838 and 6005).
THEOREM RecordsAreUnique == Spec => []RecordedOnce
<1>1. Init => IInv
  BY DEF Init, IInv, Awaiting, RecordedOnce, Repeats, Tip
<1>2. IInv /\ [Next]_vars => IInv'
  BY StepKeeps, OutsideKeeps DEF vars
<1>3. IInv => RecordedOnce
  BY DEF IInv
<1>. QED
  BY <1>1, <1>2, <1>3, PTL DEF Spec

--------------------------------------------------------------------------------
(* What green and merges rest on *)

Attempts == [cadence : Cadences, sha : Commits, status : {"active", "success", "failure"},
             last : BOOLEAN]
Entries  == [cadence : Cadences \cup {"repair-resolution"}, run : Nat, sha : Commits,
             result : {"success", "failure"}, status : {"green", "red"}, incident : Nat,
             good : Commits]
Requests == [incident : Nat, generation : Nat, base : Commits, inForce : BOOLEAN]
Merges   == [incident : Nat, inForce : BOOLEAN]

Sightings == [sha : Commits \cup {None}, run : Nat,
              result : Pulls \cup {None, "success", "failure"}]

IsMain(i) == runs[i].cadence = "protected-main"
IsDeep(i) == runs[i].cadence \in Deep

Typed ==
  /\ main \in Commits /\ runs \in Seq(Attempts) /\ branch \in Seq(Entries) /\ Tip >= 1
  /\ asks \in [Pulls -> Seq(Requests)] /\ merged \in [Pulls -> Merges \cup {None}]
  /\ \A k \in 1 .. Tip : branch[k].run <= Len(runs)
  /\ \A p \in Pulls : \A k \in 1 .. Len(asks[p]) :
       asks[p][k].incident \in 1 .. Tip /\ asks[p][k].generation \in 1 .. Tip
  /\ \A p \in Pulls : merged[p] # None => merged[p].incident <= Tip

\* A red entry and all since the one where its incident began are red for that incident, and
\* the one before was green.
OneIncident ==
  \A k \in 1 .. Tip :
    IF Red(k) THEN /\ branch[k].incident \in 1 .. k
                   /\ \A m \in branch[k].incident .. k :
                        Red(m) /\ branch[m].incident = branch[k].incident
                   /\ \A m \in 1 .. k : m + 1 = branch[k].incident => ~Red(m)
              ELSE branch[k].incident = 0

\* Main has a newest attempt.
MainRan ==
  \E i \in 1 .. Len(runs) :
    /\ IsMain(i) /\ runs[i].sha = main
    /\ \A j \in i + 1 .. Len(runs) : ~IsMain(j) \/ runs[j].sha # main

\* An entry is about the attempt it names; a resolution follows a red entry.
Origins ==
  \A k \in 1 .. Tip :
    IF branch[k].cadence = "repair-resolution"
    THEN branch[k].run = 0 /\ branch[k].sha \in Pulls /\ k > 1 /\ Red(k - 1)
    ELSE /\ branch[k].run # 0 /\ runs[branch[k].run].cadence = branch[k].cadence
         /\ runs[branch[k].run].sha = branch[k].sha

\* A pull that is on main, was run or was recorded is merged.
Landed ==
  /\ main \in Pulls => merged[main] # None
  /\ \A i \in 1 .. Len(runs) : runs[i].sha \in Pulls => merged[runs[i].sha] # None
  /\ \A k \in 1 .. Tip : branch[k].sha \in Pulls => merged[branch[k].sha] # None

\* A deep attempt, or a later one, was not run again.
LastDeep ==
  \A i \in 1 .. Len(runs) : IsDeep(i) =>
    \E j \in i .. Len(runs) : IsDeep(j) /\ runs[j].last

\* Deep attempts are recorded in the order in which they began, and none is passed over.
DeepInOrder ==
  \A k \in 1 .. Tip : branch[k].cadence \in Deep =>
    \A i \in 1 .. branch[k].run - 1 : IsDeep(i) =>
      \E l \in 1 .. k - 1 : branch[l].run = i

\* Attempts on protected main are recorded in order, and those on what main is now began
\* after all that were recorded for what it was.
MainInOrder ==
  \A k \in 1 .. Tip : branch[k].cadence = "protected-main" =>
    /\ \A l \in 1 .. k - 1 :
         branch[l].cadence = "protected-main" => branch[l].run < branch[k].run
    /\ branch[k].sha # main =>
         \A j \in 1 .. Len(runs) : runs[j].sha = main => branch[k].run < j

\* A pull that was merged while main was green was asked for under incidents that are over;
\* one that was merged while it was red was asked for under that incident only.
Bindings ==
  \A p \in Pulls : merged[p] # None =>
    \A k \in 1 .. Len(asks[p]) :
      IF merged[p].incident = 0
      THEN \E m \in asks[p][k].incident .. Tip : ~Red(m)
      ELSE asks[p][k].incident = merged[p].incident

\* While the state is green, what is recorded for main last passes.
MainPasses ==
  ~Red(Tip) => \A c \in Cadences : Results(Tip, main, c) # {} => Passes(Tip, main, c)

History ==
  /\ Typed /\ OneIncident /\ MainRan /\ Origins /\ Landed /\ LastDeep
  /\ DeepInOrder /\ MainInOrder /\ Bindings /\ MainPasses /\ GreenIsEarned

\* What the broker holds at each point of a cycle.
Looks ==
  /\ lag \in BOOLEAN /\ (lag => Tip >= 2) /\ faults \in 0 .. MaxFaults
  /\ view \in 0 .. Tip /\ queue \subseteq 1 .. Len(runs) /\ seen \in Sightings
  /\ pc = "idle" => view = 0 /\ seen = Unseen /\ queue = {}
  /\ pc \in {"confirm", "compare", "appendMain"} =>
       /\ seen.run \in 1 .. Len(runs) /\ IsMain(seen.run) /\ runs[seen.run].sha = seen.sha
       /\ seen.result \in {"success", "failure"}
  /\ pc \in {"appendMain", "awaitMain", "record", "awaitDeep", "resolve", "awaitRepair", "merge"}
       => view >= 1
  /\ pc \in {"record", "awaitDeep"} => \A i \in queue : IsDeep(i)

AtMain ==
  pc \in {"compare", "appendMain"} =>
    /\ \A k \in 1 .. Tip : branch[k].cadence = "protected-main" => branch[k].run <= seen.run
    /\ seen.sha # main => \A j \in 1 .. Len(runs) : runs[j].sha = main => seen.run < j

AtDeep ==
  pc \in {"record", "awaitDeep"} =>
    \A i \in queue : \A j \in 1 .. i - 1 : IsDeep(j) => j \in queue \/ j \in Recorded(view)

\* Unless somebody went past the rulesets, main stays what it was when the broker looked.
AtRuled ==
  Ruled =>
    /\ main # Alien
    /\ pc \in {"confirm", "compare", "appendMain", "record", "awaitDeep", "resolve"}
         => seen.sha = main
    /\ pc \in {"awaitMain", "deep", "record", "awaitDeep"}
         => Results(Tip, main, "protected-main") # {}

AtResolve ==
  pc = "resolve" =>
    /\ Red(view) /\ seen.sha \in Pulls /\ merged[seen.sha] # None /\ asks[seen.sha] # <<>>
    /\ \A k \in 1 .. Len(asks[seen.sha]) : asks[seen.sha][k].incident = branch[view].incident
    /\ \A c \in Cadences : Passes(view, seen.sha, c)
    /\ seen.sha # main => \A k \in 1 .. Tip : branch[k].sha # main

AtMerge ==
  pc = "merge" =>
    /\ seen.result \in Pulls /\ merged[seen.result] = None
    /\ seen.run \in 0 .. Len(runs) /\ view >= Tip - 1
    /\ \/ /\ view = Tip /\ ~Red(Tip)
          /\ \A i \in 1 .. seen.run : IsDeep(i) =>
               /\ i \in Recorded(Tip)
               /\ runs[i].sha = seen.sha /\ runs[i].last => runs[i].status = "success"
       \/ /\ Red(view) /\ asks[seen.result] # <<>>
          /\ \A k \in 1 .. Len(asks[seen.result]) :
               asks[seen.result][k].incident = branch[view].incident

Knows == Looks /\ AtMain /\ AtDeep /\ AtRuled /\ AtResolve /\ AtMerge

\* Where the numbers are.
LEMMA Bounds ==
  ASSUME Typed, Looks
  PROVE  /\ Tip \in Nat /\ Tip >= 1 /\ Len(runs) \in Nat /\ view \in 0 .. Tip
         /\ \A v \in Readable : v \in 1 .. Tip /\ v >= Tip - 1
         /\ \A k \in 1 .. Tip : branch[k] \in Entries /\ branch[k].run \in 0 .. Len(runs)
         /\ \A i \in 1 .. Len(runs) : runs[i] \in Attempts
         /\ DOMAIN branch = 1 .. Tip /\ DOMAIN runs = 1 .. Len(runs)
<1>1. Tip \in Nat /\ Tip >= 1 /\ DOMAIN branch = 1 .. Tip
  BY DEF Typed, Tip
<1>2. Len(runs) \in Nat /\ DOMAIN runs = 1 .. Len(runs)
  BY DEF Typed
<1>3. \A k \in 1 .. Tip : branch[k] \in Entries
  BY <1>1 DEF Typed, Tip
<1>4. \A k \in 1 .. Tip : branch[k].run \in 0 .. Len(runs)
  BY <1>1, <1>2, <1>3 DEF Typed, Entries
<1>5. \A i \in 1 .. Len(runs) : runs[i] \in Attempts
  BY DEF Typed
<1>6. \A v \in Readable : v \in 1 .. Tip /\ v >= Tip - 1
  BY <1>1 DEF Readable, Looks, Tip
<1>. QED
  BY <1>1, <1>2, <1>3, <1>4, <1>5, <1>6 DEF Looks

\* What GitHub and the branch are does not change when the broker looks.
LEMMA HistoryStays ==
  ASSUME History, UNCHANGED <<github, branch>> PROVE History'
<1>1. UNCHANGED <<main, runs, asks, merged, branch>>
  BY DEF github
<1>2. Typed' /\ OneIncident' /\ MainRan'
  BY <1>1 DEF History, Typed, OneIncident, MainRan, Red, Tip, IsMain
<1>3. Origins' /\ Landed' /\ LastDeep'
  BY <1>1 DEF History, Origins, Landed, LastDeep, Red, Tip, IsDeep
<1>4. DeepInOrder' /\ MainInOrder' /\ Bindings'
  BY <1>1 DEF History, DeepInOrder, MainInOrder, Bindings, Red, Tip, IsDeep
<1>5. \A v, sha, c : /\ Results(v, sha, c) = Results(v, sha, c)'
                     /\ Passes(v, sha, c) <=> Passes(v, sha, c)'
  BY <1>1 DEF Passes, Results
<1>6. MainPasses' /\ GreenIsEarned'
  BY <1>1, <1>5 DEF History, MainPasses, GreenIsEarned, Red, Ruled, Tip
<1>. QED
  BY <1>2, <1>3, <1>4, <1>6 DEF History

LEMMA NewestIs ==
  ASSUME MainRan
  PROVE  /\ Newest(main) \in 1 .. Len(runs) /\ IsMain(Newest(main))
         /\ runs[Newest(main)].sha = main
         /\ \A j \in Newest(main) + 1 .. Len(runs) : ~IsMain(j) \/ runs[j].sha # main
<1>. DEFINE P(i) == /\ runs[i].cadence = "protected-main" /\ runs[i].sha = main
                    /\ \A j \in i + 1 .. Len(runs) :
                         runs[j].cadence # "protected-main" \/ runs[j].sha # main
<1>1. Newest(main) = CHOOSE i \in 1 .. Len(runs) : P(i)
  BY DEF Newest
<1>2. \E i \in 1 .. Len(runs) : P(i)
  BY DEF MainRan, IsMain
<1>. HIDE DEF P
<1>3. Newest(main) \in 1 .. Len(runs) /\ P(Newest(main))
  BY <1>1, <1>2
<1>. QED
  BY <1>3 DEF P, IsMain

\* What was recorded, and how it ended, is read off the branch alone.
LEMMA SameBranch ==
  ASSUME UNCHANGED branch
  PROVE  /\ Tip' = Tip
         /\ \A v : (Red(v)' <=> Red(v)) /\ Recorded(v)' = Recorded(v)
         /\ \A v, sha, c : Results(v, sha, c)' = Results(v, sha, c)
         /\ \A v, sha, c : Passes(v, sha, c)' <=> Passes(v, sha, c)
<1>1. \A v, sha, c : Results(v, sha, c)' = Results(v, sha, c)
  BY DEF Results
<1>. QED
  BY <1>1 DEF Tip, Red, Recorded, Passes

LEMMA Sights ==
  /\ Unseen \in Sightings
  /\ \A sha \in Commits : /\ [Unseen EXCEPT !.sha = sha] \in Sightings
                          /\ [Unseen EXCEPT !.sha = sha].sha = sha
  /\ \A sha \in Commits, run \in Nat, result \in Pulls \cup {"success", "failure"} :
       [sha |-> sha, run |-> run, result |-> result] \in Sightings
BY DEF Unseen, Sightings

LEMMA EndKnows ==
  ASSUME History, Knows, EndCycle, UNCHANGED <<github, branch, lag>>, faults' \in 0 .. MaxFaults
  PROVE  Knows'
<1>1. Looks'
  BY Sights DEF Knows, Looks, EndCycle, github, Tip, History, Typed
<1>2. AtRuled'
  BY DEF Knows, AtRuled, EndCycle, github, Ruled
<1>3. AtMain' /\ AtDeep' /\ AtResolve' /\ AtMerge'
  BY DEF AtMain, AtDeep, AtResolve, AtMerge, EndCycle
<1>. QED
  BY <1>1, <1>2, <1>3 DEF Knows

LEMMA RaiseKnows ==
  ASSUME History, Knows, Raise PROVE Knows'
BY EndKnows DEF Raise, Knows, Looks

LEMMA SelectKnows ==
  ASSUME History, Knows, SelectRuns PROVE Knows'
<1>. DEFINE i == Newest(main)
<1>1. /\ i \in 1 .. Len(runs) /\ IsMain(i) /\ runs[i].sha = main
  BY NewestIs DEF History
<1>2. /\ pc' = "confirm" /\ seen'.sha = main /\ seen'.run = i
      /\ seen'.result \in {"success", "failure"}
      /\ UNCHANGED <<main, runs, asks, merged, branch, lag, view, queue, faults>>
  BY DEF SelectRuns, github
<1>3. seen' \in Sightings
  BY <1>1, Sights DEF SelectRuns, History, Typed
<1>. HIDE DEF i
<1>4. Looks'
  BY <1>1, <1>2, <1>3 DEF Knows, Looks, IsMain, Tip
<1>5. AtRuled'
  BY <1>2 DEF Knows, AtRuled, Ruled
<1>6. AtMain' /\ AtDeep' /\ AtResolve' /\ AtMerge'
  BY <1>2 DEF AtMain, AtDeep, AtResolve, AtMerge
<1>. QED
  BY <1>4, <1>5, <1>6 DEF Knows

LEMMA ConfirmKnows ==
  ASSUME History, Knows, ConfirmRuns PROVE Knows'
<1>1. CASE main = seen.sha
  <2>. DEFINE i == Newest(main)
  <2>1. /\ i \in 1 .. Len(runs) /\ IsMain(i) /\ runs[i].sha = main
        /\ \A j \in i + 1 .. Len(runs) : ~IsMain(j) \/ runs[j].sha # main
    BY NewestIs DEF History
  <2>2. /\ pc = "confirm" /\ pc' = "compare"
        /\ seen' = IF i = seen.run THEN seen ELSE [seen EXCEPT !.run = i, !.result = "failure"]
        /\ UNCHANGED <<main, runs, asks, merged, branch, lag, view, queue, faults>>
    BY <1>1 DEF ConfirmRuns, github
  <2>. HIDE DEF i
  <2>3. /\ seen'.sha = main /\ seen'.run = i /\ seen'.result \in {"success", "failure"}
        /\ seen' \in Sightings
    <3>1. CASE i = seen.run
      BY <1>1, <2>2, <3>1 DEF Knows, Looks
    <3>2. CASE i # seen.run
      <4>. DEFINE s == [seen EXCEPT !.run = i]
      <4>1. seen \in Sightings /\ i \in Nat
        BY <2>1 DEF Knows, Looks
      <4>2. s \in Sightings /\ s.sha = seen.sha /\ s.run = i
        BY <4>1 DEF Sightings
      <4>3. seen' = [s EXCEPT !.result = "failure"]
        BY <2>2, <3>2
      <4>. HIDE DEF s
      <4>. QED
        BY <1>1, <4>2, <4>3 DEF Sightings
    <3>. QED
      BY <3>1, <3>2
  <2>4. Looks'
    BY <2>1, <2>2, <2>3 DEF Knows, Looks, IsMain, Tip
  <2>5. AtRuled'
    BY <2>2, <2>3 DEF Knows, AtRuled, Ruled
  <2>6. AtMain'
    <3>1. ASSUME NEW k \in 1 .. Tip, branch[k].cadence = "protected-main"
          PROVE  branch[k].run <= i
      <4>1. /\ branch[k].run \in 1 .. Len(runs) /\ IsMain(branch[k].run)
            /\ runs[branch[k].run].sha = branch[k].sha
        BY <3>1, Bounds DEF History, Knows, Origins, IsMain
      <4>2. CASE branch[k].sha = main
        BY <2>1, <4>1, <4>2
      <4>3. CASE branch[k].sha # main
        BY <2>1, <3>1, <4>1, <4>3 DEF History, MainInOrder
      <4>. QED
        BY <4>2, <4>3
    <3>. QED
      BY <2>2, <2>3, <3>1 DEF AtMain, Tip
  <2>7. AtDeep' /\ AtResolve' /\ AtMerge'
    BY <2>2 DEF AtDeep, AtResolve, AtMerge
  <2>. QED
    BY <2>4, <2>5, <2>6, <2>7 DEF Knows
<1>2. CASE main # seen.sha
  BY <1>2, RaiseKnows DEF ConfirmRuns
<1>. QED
  BY <1>1, <1>2

LEMMA CompareKnows ==
  ASSUME History, Knows, Compare PROVE Knows'
<1>1. PICK v \in Readable :
        \/ Raise
        \/ /\ seen.run \in Recorded(v) /\ pc' = "deep" /\ seen' = Unseen /\ view' = v
           /\ UNCHANGED <<github, branch, lag, queue, faults>>
        \/ /\ pc' = "appendMain" /\ UNCHANGED seen /\ view' = v
           /\ UNCHANGED <<github, branch, lag, queue, faults>>
  BY Zenon DEF Compare
<1>2. v \in 1 .. Tip
  BY Bounds DEF History, Knows
<1>3. pc = "compare"
  BY DEF Compare
<1>4. ASSUME seen.run \in Recorded(v), pc' = "deep", seen' = Unseen, view' = v,
             UNCHANGED <<github, branch, lag, queue, faults>>
      PROVE  Knows'
  <2>1. Looks'
    BY <1>2, <1>4, Sights DEF Knows, Looks, github, Tip, IsMain
  <2>2. ASSUME Ruled PROVE Results(Tip, main, "protected-main") # {}
    <3>1. PICK k \in 1 .. v : branch[k].run = seen.run /\ seen.run # 0
      BY <1>4 DEF Recorded
    <3>2. k \in 1 .. Tip
      BY <1>2, Bounds DEF History, Knows
    <3>3. branch[k].cadence = "protected-main" /\ branch[k].sha = seen.sha /\ seen.sha = main
      BY <1>3, <2>2, <3>1, <3>2 DEF History, Knows, Origins, Looks, IsMain, AtRuled
    <3>. QED
      BY <3>2, <3>3 DEF Results
  <2>3. AtRuled'
    BY <1>4, <2>2, SameBranch DEF Knows, AtRuled, Ruled, github
  <2>4. AtMain' /\ AtDeep' /\ AtResolve' /\ AtMerge'
    BY <1>4 DEF AtMain, AtDeep, AtResolve, AtMerge
  <2>. QED
    BY <2>1, <2>3, <2>4 DEF Knows
<1>5. ASSUME pc' = "appendMain", UNCHANGED seen, view' = v,
             UNCHANGED <<github, branch, lag, queue, faults>>
      PROVE  Knows'
  <2>1. Looks'
    BY <1>2, <1>3, <1>5 DEF Knows, Looks, github, Tip, IsMain
  <2>2. AtRuled' /\ AtMain'
    BY <1>3, <1>5 DEF Knows, AtRuled, Ruled, AtMain, Tip, github
  <2>3. AtDeep' /\ AtResolve' /\ AtMerge'
    BY <1>5 DEF AtDeep, AtResolve, AtMerge
  <2>. QED
    BY <2>1, <2>2, <2>3 DEF Knows
<1>. QED
  BY <1>1, <1>4, <1>5, RaiseKnows

LEMMA ConvergedKnows ==
  ASSUME History, Knows, IInv, AwaitMain \/ AwaitRepair PROVE Knows'
<1>1. view + 1 = Tip /\ Tip \in Nat
  BY Bounds DEF IInv, AwaitMain, AwaitRepair, Awaiting, Tip, History, Knows
<1>2. /\ \/ pc = "awaitMain" /\ pc' = "deep"
         \/ pc = "awaitRepair" /\ pc' = "pulls"
      /\ lag' = FALSE /\ view' = view + 1 /\ seen' = Unseen
      /\ UNCHANGED <<github, branch, queue, faults>>
  BY DEF AwaitMain, AwaitRepair, Converged
<1>3. Looks'
  <2>1. lag' \in BOOLEAN /\ ~lag'
    BY <1>2
  <2>. QED
    BY <1>1, <1>2, <2>1, Sights DEF Knows, Looks, github, Tip
<1>4. AtRuled'
  BY <1>2, SameBranch DEF Knows, AtRuled, Ruled, github
<1>5. AtMain' /\ AtDeep' /\ AtResolve' /\ AtMerge'
  BY <1>2 DEF AtMain, AtDeep, AtResolve, AtMerge
<1>. QED
  BY <1>3, <1>4, <1>5 DEF Knows

LEMMA ListKnows ==
  ASSUME History, Knows, ListDeep PROVE Knows'
<1>1. PICK v \in Readable :
        \/ Raise
        \/ /\ queue' = Unrecorded(v) /\ seen' = [Unseen EXCEPT !.sha = main] /\ view' = v
           /\ pc' \in {"repair", "record"}
           /\ UNCHANGED <<github, branch, lag, faults>>
  BY DEF ListDeep
<1>2. v \in 1 .. Tip
  BY Bounds DEF History, Knows
<1>3. ASSUME queue' = Unrecorded(v), seen' = [Unseen EXCEPT !.sha = main], view' = v,
             pc' \in {"repair", "record"}, UNCHANGED <<github, branch, lag, faults>>
      PROVE  Knows'
  <2>1. seen' \in Sightings /\ seen'.sha = main
    BY <1>3, Sights DEF History, Typed
  <2>2. queue' \subseteq 1 .. Len(runs) /\ \A i \in queue' : IsDeep(i)
    BY <1>3 DEF Unrecorded, IsDeep
  <2>3. Looks'
    BY <1>2, <1>3, <2>1, <2>2 DEF Knows, Looks, github, Tip, IsDeep
  <2>4. AtDeep'
    <3>1. ASSUME NEW i \in Unrecorded(v), NEW j \in 1 .. i - 1, IsDeep(j)
          PROVE  j \in Unrecorded(v) \/ j \in Recorded(v)
      <4>1. j \in 1 .. Len(runs)
        BY <3>1, Bounds DEF Unrecorded, History, Knows
      <4>. QED
        BY <3>1, <4>1 DEF Unrecorded, IsDeep
    <3>2. \A j : IsDeep(j)' <=> IsDeep(j)
      BY <1>3 DEF IsDeep, github
    <3>. QED
      BY <1>3, <3>1, <3>2, SameBranch DEF AtDeep
  <2>5. AtRuled'
    BY <1>3, <2>1, SameBranch DEF ListDeep, Knows, AtRuled, Ruled, github
  <2>6. AtMain' /\ AtResolve' /\ AtMerge'
    BY <1>3 DEF AtMain, AtResolve, AtMerge
  <2>. QED
    BY <2>3, <2>4, <2>5, <2>6 DEF Knows
<1>. QED
  BY <1>1, <1>3, RaiseKnows

LEMMA AwaitDeepKnows ==
  ASSUME History, Knows, IInv, AwaitDeep PROVE Knows'
<1>1. view + 1 = Tip /\ Tip \in Nat /\ view \in Nat
  BY Bounds DEF IInv, AwaitDeep, Awaiting, Tip, History, Knows
<1>2. /\ pc = "awaitDeep" /\ pc' \in {"repair", "record"} /\ queue' = queue \ Recorded(Tip)
      /\ lag' = FALSE /\ view' = Tip
      /\ UNCHANGED <<main, runs, asks, merged, branch, seen, faults>>
  BY <1>1 DEF AwaitDeep, github, Tip
<1>3. Looks'
  <2>1. lag' \in BOOLEAN /\ ~lag'
    BY <1>2
  <2>2. view' \in 0 .. Tip' /\ view' >= 1 /\ queue' \subseteq queue
    BY <1>1, <1>2, SameBranch
  <2>3. \A i : IsDeep(i)' <=> IsDeep(i)
    BY <1>2 DEF IsDeep
  <2>4. queue \subseteq 1 .. Len(runs) /\ \A i \in queue : IsDeep(i)
    BY <1>2 DEF Knows, Looks
  <2>. QED
    BY <1>2, <2>1, <2>2, <2>3, <2>4 DEF Knows, Looks
<1>4. AtDeep'
  <2>1. \A j : IsDeep(j)' <=> IsDeep(j)
    BY <1>2 DEF IsDeep
  <2>2. \A j \in Recorded(view) : j \in Recorded(Tip)
    BY <1>1 DEF Recorded
  <2>3. \A i \in queue : \A j \in 1 .. i - 1 : IsDeep(j) => j \in queue \/ j \in Recorded(view)
    BY <1>2 DEF Knows, AtDeep
  <2>. QED
    BY <1>2, <2>1, <2>2, <2>3, SameBranch DEF AtDeep
<1>5. AtRuled'
  BY <1>2, SameBranch DEF Knows, AtRuled, Ruled
<1>6. AtMain' /\ AtResolve' /\ AtMerge'
  BY <1>2 DEF AtMain, AtResolve, AtMerge
<1>. QED
  BY <1>3, <1>4, <1>5, <1>6 DEF Knows

LEMMA ReadRepairKnows ==
  ASSUME History, Knows, ReadRepair PROVE Knows'
<1>1. PICK v \in Readable :
        \/ Raise
        \/ /\ Red(v) /\ Repaired(v) /\ Bound(v)
           /\ pc' = "resolve" /\ seen' = [Unseen EXCEPT !.sha = main] /\ view' = v
           /\ UNCHANGED <<github, branch, lag, queue, faults>>
        \/ /\ pc' = "pulls" /\ seen' = Unseen /\ view' = v
           /\ UNCHANGED <<github, branch, lag, queue, faults>>
  BY Zenon DEF ReadRepair
<1>2. v \in 1 .. Tip
  BY Bounds DEF History, Knows
<1>3. ASSUME Red(v), Repaired(v), Bound(v), pc' = "resolve",
             seen' = [Unseen EXCEPT !.sha = main], view' = v,
             UNCHANGED <<github, branch, lag, queue, faults>>
      PROVE  Knows'
  <2>1. seen' \in Sightings /\ seen'.sha = main
    BY <1>3, Sights DEF History, Typed
  <2>2. Looks'
    BY <1>2, <1>3, <2>1 DEF Knows, Looks, github, Tip
  <2>3. AtRuled'
    BY <1>3, <2>1 DEF Knows, AtRuled, Ruled, github
  <2>4. /\ main \in Pulls /\ merged[main] # None /\ asks[main] # <<>>
        /\ \A k \in 1 .. Len(asks[main]) : asks[main][k].incident = branch[v].incident
        /\ \A c \in Cadences : Passes(v, main, c)
    BY <1>3 DEF History, Landed, Repaired, Bound
  <2>5. AtResolve'
    BY <1>3, <2>1, <2>4, SameBranch DEF AtResolve, github
  <2>6. AtMain' /\ AtDeep' /\ AtMerge'
    BY <1>3 DEF AtMain, AtDeep, AtMerge
  <2>. QED
    BY <2>2, <2>3, <2>5, <2>6 DEF Knows
<1>4. ASSUME pc' = "pulls", seen' = Unseen, view' = v,
             UNCHANGED <<github, branch, lag, queue, faults>>
      PROVE  Knows'
  <2>1. Looks'
    BY <1>2, <1>4, Sights DEF Knows, Looks, github, Tip
  <2>2. AtRuled'
    BY <1>4 DEF Knows, AtRuled, Ruled, github
  <2>3. AtMain' /\ AtDeep' /\ AtResolve' /\ AtMerge'
    BY <1>4 DEF AtMain, AtDeep, AtResolve, AtMerge
  <2>. QED
    BY <2>1, <2>2, <2>3 DEF Knows
<1>. QED
  BY <1>1, <1>3, <1>4, RaiseKnows

\* An attempt has one entry.
LEMMA OneEntry ==
  ASSUME IInv, Typed, Looks, NEW k \in 1 .. Tip, NEW l \in 1 .. Tip,
         branch[k].run = branch[l].run, branch[k].run # 0
  PROVE  k = l
<1>1. Tip \in Nat
  BY Bounds
<1>2. \A i \in 1 .. Tip : \A j \in 1 .. i - 1 :
        ~(branch[j].run = branch[i].run /\ branch[i].run # 0)
  BY DEF IInv, RecordedOnce, Repeats
<1>3. CASE k < l
  BY <1>1, <1>2, <1>3
<1>4. CASE l < k
  BY <1>1, <1>2, <1>4
<1>. QED
  BY <1>1, <1>3, <1>4

\* A read that misses the last push never shows main healthy: the push was a result that is
\* later than all that is looked for, or the end of an incident that is open before it.
LEMMA NeverStale ==
  ASSUME IInv, History, Looks, NEW v \in Readable, HealthVerified(v) PROVE v = Tip
<1>1. /\ Tip \in Nat /\ Len(runs) \in Nat /\ v \in 1 .. Tip /\ v >= Tip - 1
      /\ Tip \in 1 .. Tip /\ branch[Tip] \in Entries /\ branch[Tip].run \in 0 .. Len(runs)
  BY Bounds DEF History
<1>. SUFFICES ASSUME v # Tip PROVE FALSE
  OBVIOUS
<1>2. v = Tip - 1 /\ \A k \in 1 .. v : k \in 1 .. Tip /\ k < Tip
  BY <1>1
<1>. DEFINE r == branch[Tip].run
<1>3. ASSUME NEW n \in Recorded(v) PROVE \E k \in 1 .. Tip : branch[k].run = n /\ k < Tip /\ n # 0
  BY <1>2 DEF Recorded
<1>4. CASE branch[Tip].cadence = "repair-resolution"
  BY <1>1, <1>2, <1>4 DEF HealthVerified, History, Origins
<1>5. CASE branch[Tip].cadence \in Deep
  <2>1. r \in 1 .. Len(runs) /\ IsDeep(r)
    BY <1>1, <1>5, HealthAssumption DEF History, Origins, IsDeep
  <2>2. PICK j \in r .. Len(runs) : IsDeep(j) /\ runs[j].last
    BY <2>1 DEF History, LastDeep
  <2>3. j \in 1 .. Len(runs) /\ j \in Recorded(v)
    BY <1>1, <2>1, <2>2 DEF HealthVerified, IsDeep
  <2>4. PICK k \in 1 .. Tip : branch[k].run = j /\ k < Tip /\ j # 0
    BY <1>3, <2>3
  <2>5. CASE j = r
    BY <1>1, <2>4, <2>5, OneEntry DEF History
  <2>6. CASE r < j
    <3>1. branch[k].cadence \in Deep
      BY <2>2, <2>4, HealthAssumption DEF History, Origins, IsDeep
    <3>2. r \in 1 .. branch[k].run - 1
      BY <1>1, <2>1, <2>3, <2>4, <2>6
    <3>3. PICK l \in 1 .. k - 1 : branch[l].run = r
      BY <2>1, <3>1, <3>2 DEF History, DeepInOrder
    <3>. QED
      BY <1>1, <2>1, <2>4, <3>3, OneEntry DEF History
  <2>. QED
    BY <2>1, <2>2, <2>3, <2>5, <2>6
<1>6. CASE branch[Tip].cadence = "protected-main"
  <2>. DEFINE m == Newest(main)
  <2>1. /\ m \in 1 .. Len(runs) /\ IsMain(m) /\ runs[m].sha = main
        /\ \A j \in m + 1 .. Len(runs) : ~IsMain(j) \/ runs[j].sha # main
    BY NewestIs DEF History
  <2>2. m \in Recorded(v)
    BY DEF HealthVerified
  <2>. HIDE DEF m
  <2>3. PICK k \in 1 .. Tip : branch[k].run = m /\ k < Tip /\ m # 0
    BY <1>3, <2>2
  <2>4. branch[k].cadence = "protected-main"
    BY <2>1, <2>3 DEF History, Origins, IsMain
  <2>5. m < r /\ k \in 1 .. Tip - 1
    <3>1. k \in 1 .. Tip - 1
      BY <1>1, <2>3
    <3>. QED
      BY <1>1, <1>6, <2>3, <2>4, <3>1 DEF History, MainInOrder
  <2>6. r \in 1 .. Len(runs) /\ IsMain(r) /\ runs[r].sha = branch[Tip].sha
    BY <1>1, <1>6 DEF History, Origins, IsMain
  <2>7. CASE branch[Tip].sha = main
    BY <1>1, <2>1, <2>5, <2>6, <2>7
  <2>8. CASE branch[Tip].sha # main
    <3>1. r < m
      BY <1>1, <1>6, <2>1, <2>8 DEF History, MainInOrder
    <3>. QED
      BY <2>1, <2>5, <2>6, <3>1
  <2>. QED
    BY <2>7, <2>8
<1>. QED
  BY <1>1, <1>4, <1>5, <1>6 DEF Entries, Cadences

\* Then every deep attempt is recorded.
LEMMA AllRecorded ==
  ASSUME IInv, History, Looks, HealthVerified(Tip), NEW i \in 1 .. Len(runs), IsDeep(i)
  PROVE  /\ i \in Recorded(Tip)
         /\ runs[i].sha = main /\ runs[i].last => runs[i].status = "success"
<1>1. Tip \in Nat /\ Len(runs) \in Nat
  BY Bounds DEF History
<1>2. PICK j \in i .. Len(runs) : IsDeep(j) /\ runs[j].last
  BY DEF History, LastDeep
<1>3. j \in 1 .. Len(runs) /\ j \in Recorded(Tip)
  BY <1>1, <1>2 DEF HealthVerified, IsDeep
<1>4. PICK k \in 1 .. Tip : branch[k].run = j /\ j # 0
  BY <1>3 DEF Recorded
<1>5. i \in Recorded(Tip)
  <2>1. CASE i = j
    BY <1>3, <2>1
  <2>2. CASE i < j
    <3>1. branch[k].cadence \in Deep /\ i \in 1 .. branch[k].run - 1
      BY <1>1, <1>2, <1>3, <1>4, <2>2, HealthAssumption DEF History, Origins, IsDeep
    <3>2. PICK l \in 1 .. k - 1 : branch[l].run = i
      BY <3>1 DEF History, DeepInOrder
    <3>. QED
      BY <1>1, <3>2 DEF Recorded
  <2>. QED
    BY <1>2, <2>1, <2>2
<1>. QED
  BY <1>5 DEF HealthVerified, IsDeep

LEMMA SealKnows ==
  ASSUME IInv, History, Knows, NEW p \in Pulls, Seal(p) PROVE Knows'
<1>1. PICK v \in Readable : (HealthVerified(v) \/ RepairAdmitted(p, v)) /\ view' = v
  BY DEF Seal
<1>2. /\ Tip \in Nat /\ Len(runs) \in Nat /\ v \in 1 .. Tip /\ v >= Tip - 1 /\ Looks
  BY Bounds DEF History, Knows
<1>3. /\ pc = "pulls" /\ merged[p] = None /\ pc' = "merge"
      /\ UNCHANGED <<main, runs, asks, merged, branch, lag, queue, faults>>
  BY DEF Seal, github
<1>4. seen' = [sha |-> main, run |-> Len(runs), result |-> p]
  BY DEF Seal
<1>5. seen' \in Sightings /\ seen'.sha = main /\ seen'.run = Len(runs) /\ seen'.result = p
  BY <1>2, <1>4, Sights DEF History, Typed
<1>6. Looks'
  BY <1>1, <1>2, <1>3, <1>5 DEF Looks, Tip
<1>7. AtMerge'
  <2>1. CASE HealthVerified(v)
    <3>1. v = Tip /\ ~Red(Tip)
      BY <1>2, <2>1, NeverStale DEF HealthVerified
    <3>2. \A i \in 1 .. Len(runs) : IsDeep(i) =>
            /\ i \in Recorded(Tip)
            /\ runs[i].sha = main /\ runs[i].last => runs[i].status = "success"
      BY <1>2, <2>1, <3>1, AllRecorded
    <3>3. \A i : IsDeep(i)' <=> IsDeep(i)
      BY <1>3 DEF IsDeep
    <3>. QED
      BY <1>1, <1>2, <1>3, <1>5, <3>1, <3>2, <3>3, SameBranch DEF AtMerge
  <2>2. CASE RepairAdmitted(p, v)
    <3>1. /\ Red(v) /\ asks[p] # <<>>
          /\ \A k \in 1 .. Len(asks[p]) : asks[p][k].incident = branch[v].incident
      BY <2>2 DEF RepairAdmitted
    <3>. QED
      BY <1>1, <1>2, <1>3, <1>5, <3>1, SameBranch DEF AtMerge
  <2>. QED
    BY <1>1, <2>1, <2>2
<1>8. AtRuled'
  BY <1>3 DEF Knows, AtRuled, Ruled
<1>9. AtMain' /\ AtDeep' /\ AtResolve'
  BY <1>3 DEF AtMain, AtDeep, AtResolve
<1>. QED
  BY <1>6, <1>7, <1>8, <1>9 DEF Knows

--------------------------------------------------------------------------------
(* Pushes *)

\* What a push leaves as it was, and what it adds.
LEMMA PushFacts ==
  ASSUME Typed, Looks, NEW e \in Entries, branch' = Append(branch, e)
  PROVE  /\ Tip' = Tip + 1 /\ branch' \in Seq(Entries) /\ branch'[Tip + 1] = e
         /\ \A k \in 1 .. Tip : branch'[k] = branch[k] /\ (Red(k)' <=> Red(k))
         /\ \A k : k = Tip + 1 => (Red(k)' <=> e.status = "red")
         /\ \A v \in 0 .. Tip : Recorded(v)' = Recorded(v)
         /\ \A v \in 0 .. Tip : \A sha, c : Results(v, sha, c)' = Results(v, sha, c)
         /\ \A v \in 0 .. Tip : \A sha, c : Passes(v, sha, c)' <=> Passes(v, sha, c)
<1>1. /\ Tip \in Nat /\ Tip' = Tip + 1 /\ branch' \in Seq(Entries) /\ branch'[Tip + 1] = e
      /\ \A k \in 1 .. Tip : branch'[k] = branch[k]
  BY DEF Typed, Tip
<1>2. \A k \in 1 .. Tip : Red(k)' <=> Red(k)
  BY <1>1 DEF Red
<1>3. \A k : k = Tip + 1 => (Red(k)' <=> e.status = "red")
  BY <1>1 DEF Red
<1>4. ASSUME NEW v \in 0 .. Tip PROVE \A k \in 1 .. v : branch'[k] = branch[k]
  <2>1. \A k \in 1 .. v : k \in 1 .. Tip
    BY <1>1
  <2>. QED
    BY <1>1, <2>1
<1>5. ASSUME NEW v \in 0 .. Tip PROVE Recorded(v)' = Recorded(v)
  BY <1>4 DEF Recorded
<1>6. ASSUME NEW v \in 0 .. Tip, NEW sha, NEW c PROVE Results(v, sha, c)' = Results(v, sha, c)
  BY <1>4 DEF Results
<1>7. ASSUME NEW v \in 0 .. Tip, NEW sha, NEW c PROVE Passes(v, sha, c)' <=> Passes(v, sha, c)
  <2>1. \A k \in Results(v, sha, c) : branch'[k] = branch[k]
    BY <1>4 DEF Results
  <2>. QED
    BY <1>6, <2>1 DEF Passes
<1>. QED
  BY <1>1, <1>2, <1>3, <1>5, <1>6, <1>7

\* The new entry counts for its own commit and cadence only.
LEMMA PushResults ==
  ASSUME Typed, Looks, NEW e \in Entries, branch' = Append(branch, e), NEW sha, NEW c
  PROVE  /\ e.sha # sha \/ e.cadence # c =>
              /\ Results(Tip, sha, c)' = Results(Tip, sha, c)
              /\ Passes(Tip, sha, c)' <=> Passes(Tip, sha, c)
         /\ e.sha = sha /\ e.cadence = c =>
              /\ Results(Tip, sha, c)' # {}
              /\ e.result = "success" => Passes(Tip, sha, c)'
<1>1. /\ Tip \in Nat /\ Tip' = Tip + 1 /\ branch'[Tip + 1] = e
      /\ \A k \in 1 .. Tip : branch'[k] = branch[k]
  BY PushFacts, Bounds
<1>2. /\ Results(Tip, sha, c)'
           = {k \in 1 .. Tip + 1 : branch'[k].sha = sha /\ branch'[k].cadence = c}
      /\ Results(Tip, sha, c) = {k \in 1 .. Tip : branch[k].sha = sha /\ branch[k].cadence = c}
  BY <1>1 DEF Results
<1>3. ASSUME e.sha # sha \/ e.cadence # c
      PROVE  /\ Results(Tip, sha, c)' = Results(Tip, sha, c)
             /\ Passes(Tip, sha, c)' <=> Passes(Tip, sha, c)
  <2>1. \A k : k \in Results(Tip, sha, c)' <=> k \in Results(Tip, sha, c)
    <3>1. ASSUME NEW k \in 1 .. Tip + 1
          PROVE  /\ branch'[k].sha = sha /\ branch'[k].cadence = c
                    <=> k \in 1 .. Tip /\ branch[k].sha = sha /\ branch[k].cadence = c
      <4>1. CASE k = Tip + 1
        BY <1>1, <1>3, <4>1
      <4>2. CASE k \in 1 .. Tip
        BY <1>1, <4>2
      <4>3. k = Tip + 1 \/ k \in 1 .. Tip
        BY <1>1
      <4>. QED
        BY <4>1, <4>2, <4>3
    <3>2. 1 .. Tip \subseteq 1 .. Tip + 1
      BY <1>1
    <3>. QED
      BY <1>2, <3>1, <3>2
  <2>2. Results(Tip, sha, c)' = Results(Tip, sha, c)
    BY <2>1
  <2>3. \A k \in Results(Tip, sha, c) : branch'[k] = branch[k]
    BY <1>1 DEF Results
  <2>. QED
    BY <2>2, <2>3 DEF Passes
<1>4. ASSUME e.sha = sha, e.cadence = c
      PROVE  /\ Results(Tip, sha, c)' # {}
             /\ e.result = "success" => Passes(Tip, sha, c)'
  <2>1. /\ Tip + 1 \in Results(Tip, sha, c)'
        /\ \A j \in Results(Tip, sha, c)' : j <= Tip + 1
    <3>1. Tip + 1 \in 1 .. Tip + 1 /\ \A j \in 1 .. Tip + 1 : j <= Tip + 1
      BY <1>1
    <3>. QED
      BY <1>1, <1>2, <1>4, <3>1
  <2>. QED
    BY <1>1, <2>1 DEF Passes
<1>. QED
  BY <1>3, <1>4

\* What the state of an entry may be.
Follows(e) ==
  \/ e.status = "red" /\ Red(Tip) /\ e.incident = branch[Tip].incident
  \/ e.status = "red" /\ ~Red(Tip) /\ e.incident = Tip + 1
  \/ e.status = "green" /\ e.incident = 0

LEMMA PushKeepsState ==
  ASSUME Typed, OneIncident, Bindings, Looks, NEW e \in Entries, branch' = Append(branch, e),
         UNCHANGED github, e.run <= Len(runs), Follows(e)
  PROVE  Typed' /\ OneIncident' /\ Bindings'
<1>1. /\ Tip \in Nat /\ Tip >= 1 /\ Tip' = Tip + 1
      /\ branch' \in Seq(Entries) /\ branch'[Tip + 1] = e
      /\ \A k \in 1 .. Tip : branch'[k] = branch[k] /\ (Red(k)' <=> Red(k))
      /\ \A k : k = Tip + 1 => (Red(k)' <=> e.status = "red")
  BY PushFacts, Bounds
<1>2. UNCHANGED <<main, runs, asks, merged>>
  BY DEF github
<1>3. \A k \in 1 .. Tip + 1 : k \in 1 .. Tip \/ k = Tip + 1
  BY <1>1
<1>4. Typed'
  <2>1. \A k \in 1 .. Tip + 1 : branch'[k].run <= Len(runs)
    BY <1>1, <1>3 DEF Typed
  <2>2. \A p \in Pulls : \A k \in 1 .. Len(asks[p]) :
          asks[p][k].incident \in 1 .. Tip + 1 /\ asks[p][k].generation \in 1 .. Tip + 1
    BY <1>1 DEF Typed
  <2>3. \A p \in Pulls : merged[p] # None => merged[p].incident <= Tip + 1
    <3>1. \A p \in Pulls : merged[p] # None => merged[p] \in Merges /\ merged[p].incident <= Tip
      BY DEF Typed
    <3>. QED
      BY <1>1, <3>1 DEF Merges
  <2>4. Tip' >= 1
    BY <1>1
  <2>. QED
    BY <1>1, <1>2, <2>1, <2>2, <2>3, <2>4, Zenon DEF Typed
<1>5. OneIncident'
  <2>1. ASSUME NEW k \in 1 .. Tip
        PROVE  IF Red(k)' THEN /\ branch'[k].incident \in 1 .. k
                               /\ \A m \in branch'[k].incident .. k :
                                    Red(m)' /\ branch'[m].incident = branch'[k].incident
                               /\ \A m \in 1 .. k : m + 1 = branch'[k].incident => ~Red(m)'
                          ELSE branch'[k].incident = 0
    <3>1. CASE Red(k)
      <4>1. /\ branch[k].incident \in 1 .. k
            /\ \A m \in branch[k].incident .. k :
                 Red(m) /\ branch[m].incident = branch[k].incident
            /\ \A m \in 1 .. k : m + 1 = branch[k].incident => ~Red(m)
        BY <3>1 DEF OneIncident
      <4>2. /\ \A m \in branch[k].incident .. k : m \in 1 .. Tip
            /\ \A m \in 1 .. k : m \in 1 .. Tip
        BY <1>1, <4>1
      <4>. QED
        BY <1>1, <3>1, <4>1, <4>2
    <3>2. CASE ~Red(k)
      BY <1>1, <3>2 DEF OneIncident
    <3>. QED
      BY <3>1, <3>2
  <2>2. CASE e.status = "red" /\ Red(Tip) /\ e.incident = branch[Tip].incident
    <3>1. Tip \in 1 .. Tip
      BY <1>1
    <3>2. /\ branch[Tip].incident \in 1 .. Tip
          /\ \A m \in branch[Tip].incident .. Tip :
               m \in 1 .. Tip /\ Red(m) /\ branch[m].incident = branch[Tip].incident
          /\ \A m \in 1 .. Tip : m + 1 = branch[Tip].incident => ~Red(m)
      BY <1>1, <2>2, <3>1 DEF OneIncident
    <3>3. /\ e.incident \in 1 .. Tip + 1
          /\ \A m \in e.incident .. Tip + 1 : m = Tip + 1 \/ m \in branch[Tip].incident .. Tip
      BY <1>1, <2>2, <3>2
    <3>4. \A m \in e.incident .. Tip + 1 : Red(m)' /\ branch'[m].incident = e.incident
      BY <1>1, <2>2, <3>2, <3>3
    <3>5. ASSUME NEW m \in 1 .. Tip + 1, m + 1 = e.incident PROVE ~Red(m)'
      <4>1. m \in 1 .. Tip
        BY <1>1, <2>2, <3>2, <3>5
      <4>. QED
        BY <1>1, <2>2, <3>2, <3>5, <4>1
    <3>. QED
      BY <1>1, <1>3, <2>1, <2>2, <3>3, <3>4, <3>5 DEF OneIncident
  <2>3. CASE e.status = "red" /\ ~Red(Tip) /\ e.incident = Tip + 1
    <3>1. /\ e.incident \in 1 .. Tip + 1
          /\ \A m \in e.incident .. Tip + 1 : m = Tip + 1
          /\ \A m \in 1 .. Tip + 1 : m + 1 = e.incident => m = Tip
      BY <1>1, <2>3
    <3>2. \A m \in e.incident .. Tip + 1 : Red(m)' /\ branch'[m].incident = e.incident
      BY <1>1, <2>3, <3>1
    <3>3. ASSUME NEW m \in 1 .. Tip + 1, m + 1 = e.incident PROVE ~Red(m)'
      <4>1. m = Tip /\ m \in 1 .. Tip
        BY <1>1, <3>1, <3>3
      <4>. QED
        BY <1>1, <2>3, <4>1
    <3>. QED
      BY <1>1, <1>3, <2>1, <2>3, <3>1, <3>2, <3>3 DEF OneIncident
  <2>4. CASE e.status = "green" /\ e.incident = 0
    BY <1>1, <1>3, <2>1, <2>4 DEF OneIncident
  <2>. QED
    BY <2>2, <2>3, <2>4 DEF Follows
<1>6. Bindings'
  <2>1. ASSUME NEW p \in Pulls, merged[p] # None, NEW k \in 1 .. Len(asks[p])
        PROVE  IF merged[p].incident = 0
               THEN \E m \in asks[p][k].incident .. Tip + 1 : ~Red(m)'
               ELSE asks[p][k].incident = merged[p].incident
    <3>1. CASE merged[p].incident = 0
      <4>1. PICK m \in asks[p][k].incident .. Tip : ~Red(m)
        BY <2>1, <3>1 DEF Bindings
      <4>2. asks[p][k].incident \in 1 .. Tip
        BY <2>1 DEF Typed
      <4>3. m \in 1 .. Tip /\ m \in asks[p][k].incident .. Tip + 1
        BY <1>1, <4>1, <4>2
      <4>. QED
        BY <1>1, <3>1, <4>1, <4>3
    <3>2. CASE merged[p].incident # 0
      BY <2>1, <3>2 DEF Bindings
    <3>. QED
      BY <3>1, <3>2
  <2>. QED
    BY <1>1, <1>2, <2>1 DEF Bindings
<1>. QED
  BY <1>4, <1>5, <1>6

LEMMA Updated ==
  ASSUME NEW S, NEW s \in Seq(S), NEW i \in 1 .. Len(s), NEW x \in S
  PROVE  /\ [s EXCEPT ![i] = x] \in Seq(S) /\ Len([s EXCEPT ![i] = x]) = Len(s)
         /\ \A j \in 1 .. Len(s) : j # i => [s EXCEPT ![i] = x][j] = s[j]
         /\ [s EXCEPT ![i] = x][i] = x
OBVIOUS

LEMMA Below ==
  ASSUME NEW n \in Nat, NEW k \in 1 .. n PROVE \A l \in 1 .. k - 1 : l \in 1 .. n
OBVIOUS

\* An entry is about what it names, and in its turn.
Fits(e) ==
  /\ IF e.cadence = "repair-resolution"
     THEN e.run = 0 /\ e.sha \in Pulls /\ Red(Tip)
     ELSE /\ e.run \in 1 .. Len(runs)
          /\ runs[e.run].cadence = e.cadence /\ runs[e.run].sha = e.sha
  /\ e.sha \in Pulls => merged[e.sha] # None
  /\ e.cadence \in Deep =>
       \A i \in 1 .. e.run - 1 : IsDeep(i) => i \in Recorded(Tip)
  /\ e.cadence = "protected-main" =>
       /\ \A l \in 1 .. Tip : branch[l].cadence = "protected-main" => branch[l].run < e.run
       /\ e.sha # main => \A j \in 1 .. Len(runs) : runs[j].sha = main => e.run < j

LEMMA PushKeepsOrder ==
  ASSUME History, Looks, NEW e \in Entries, branch' = Append(branch, e),
         UNCHANGED github, Fits(e)
  PROVE  MainRan' /\ LastDeep' /\ Origins' /\ Landed' /\ DeepInOrder' /\ MainInOrder'
<1>1. /\ Tip \in Nat /\ Tip >= 1 /\ Tip' = Tip + 1 /\ branch'[Tip + 1] = e
      /\ \A k \in 1 .. Tip : branch'[k] = branch[k] /\ (Red(k)' <=> Red(k))
  BY PushFacts, Bounds DEF History
<1>2. /\ UNCHANGED <<main, runs, asks, merged>>
      /\ \A i : (IsDeep(i)' <=> IsDeep(i)) /\ (IsMain(i)' <=> IsMain(i))
  BY DEF github, IsDeep, IsMain
<1>3. \A k \in 1 .. Tip + 1 : k \in 1 .. Tip \/ k = Tip + 1
  BY <1>1
<1>4. MainRan' /\ LastDeep'
  BY <1>2 DEF History, MainRan, LastDeep
<1>5. Origins'
  <2>1. ASSUME NEW k \in 1 .. Tip
        PROVE  IF branch[k].cadence = "repair-resolution"
               THEN branch[k].run = 0 /\ branch[k].sha \in Pulls /\ k > 1 /\ Red(k - 1)'
               ELSE /\ branch[k].run # 0 /\ runs[branch[k].run].cadence = branch[k].cadence
                    /\ runs[branch[k].run].sha = branch[k].sha
    <3>1. k > 1 => k - 1 \in 1 .. Tip
      BY <1>1
    <3>2. k > 1 => (Red(k - 1)' <=> Red(k - 1))
      BY <1>1, <3>1
    <3>. QED
      BY <2>1, <3>2 DEF History, Origins
  <2>2. IF e.cadence = "repair-resolution"
        THEN e.run = 0 /\ e.sha \in Pulls /\ Tip + 1 > 1
             /\ \A k : k = Tip => Red(k)'
        ELSE e.run # 0 /\ runs[e.run].cadence = e.cadence /\ runs[e.run].sha = e.sha
    <3>1. Tip \in 1 .. Tip
      BY <1>1
    <3>2. \A k : k = Tip => (Red(k)' <=> Red(Tip))
      BY <1>1, <3>1
    <3>. QED
      BY <1>1, <3>2 DEF Fits
  <2>3. ASSUME NEW k \in 1 .. Tip + 1
        PROVE  IF branch'[k].cadence = "repair-resolution"
               THEN branch'[k].run = 0 /\ branch'[k].sha \in Pulls /\ k > 1 /\ Red(k - 1)'
               ELSE /\ branch'[k].run # 0 /\ runs[branch'[k].run].cadence = branch'[k].cadence
                    /\ runs[branch'[k].run].sha = branch'[k].sha
    <3>1. CASE k \in 1 .. Tip
      BY <1>1, <2>1, <3>1
    <3>2. CASE k = Tip + 1
      <4>1. k - 1 = Tip
        BY <1>1, <3>2
      <4>. QED
        BY <1>1, <2>2, <3>2, <4>1
    <3>. QED
      BY <1>3, <3>1, <3>2
  <2>. QED
    BY <1>1, <1>2, <2>3 DEF Origins
<1>6. Landed'
  BY <1>1, <1>2, <1>3 DEF Fits, History, Landed
<1>7. DeepInOrder'
  <2>1. ASSUME NEW k \in 1 .. Tip, branch[k].cadence \in Deep,
               NEW i \in 1 .. branch[k].run - 1, IsDeep(i)
        PROVE  \E l \in 1 .. k - 1 : branch'[l].run = i
    <3>1. PICK l \in 1 .. k - 1 : branch[l].run = i
      BY <2>1 DEF History, DeepInOrder
    <3>. QED
      BY <1>1, <3>1
  <2>2. ASSUME e.cadence \in Deep, NEW i \in 1 .. e.run - 1, IsDeep(i)
        PROVE  \E l \in 1 .. Tip : branch'[l].run = i
    <3>1. i \in Recorded(Tip)
      BY <2>2 DEF Fits
    <3>2. PICK l \in 1 .. Tip : branch[l].run = i
      BY <3>1 DEF Recorded
    <3>. QED
      BY <1>1, <3>2
  <2>3. ASSUME NEW k \in 1 .. Tip + 1, branch'[k].cadence \in Deep,
               NEW i \in 1 .. branch'[k].run - 1, IsDeep(i)
        PROVE  \E l \in 1 .. k - 1 : branch'[l].run = i
    <3>1. CASE k \in 1 .. Tip
      BY <1>1, <2>1, <2>3, <3>1
    <3>2. CASE k = Tip + 1
      <4>1. k - 1 = Tip
        BY <1>1, <3>2
      <4>2. branch'[k] = e
        BY <1>1, <3>2
      <4>. QED
        BY <2>2, <2>3, <4>1, <4>2
    <3>. QED
      BY <1>3, <3>1, <3>2
  <2>. QED
    BY <1>1, <1>2, <2>3 DEF DeepInOrder
<1>8. MainInOrder'
  <2>1. ASSUME NEW k \in 1 .. Tip + 1, branch'[k].cadence = "protected-main"
        PROVE  /\ \A l \in 1 .. k - 1 :
                    branch'[l].cadence = "protected-main" => branch'[l].run < branch'[k].run
               /\ branch'[k].sha # main =>
                    \A j \in 1 .. Len(runs) : runs[j].sha = main => branch'[k].run < j
    <3>1. CASE k \in 1 .. Tip
      <4>1. branch'[k] = branch[k] /\ \A l \in 1 .. k - 1 : l \in 1 .. Tip
        BY <1>1, <3>1, Below
      <4>2. \A l \in 1 .. k - 1 : branch'[l] = branch[l]
        BY <1>1, <4>1
      <4>. QED
        BY <2>1, <3>1, <4>1, <4>2 DEF History, MainInOrder
    <3>2. CASE k = Tip + 1
      <4>1. k - 1 = Tip
        BY <1>1, <3>2
      <4>2. branch'[k] = e /\ \A l \in 1 .. Tip : branch'[l] = branch[l]
        BY <1>1, <3>2
      <4>. QED
        BY <1>2, <2>1, <4>1, <4>2 DEF Fits
    <3>. QED
      BY <1>3, <3>1, <3>2
  <2>. QED
    BY <1>1, <1>2, <2>1 DEF MainInOrder
<1>. QED
  BY <1>4, <1>5, <1>6, <1>7, <1>8

LEMMA PushKeepsHistory ==
  ASSUME History, Looks, NEW e \in Entries, branch' = Append(branch, e), UNCHANGED github,
         Follows(e), Fits(e), e.status = "green" => MainPasses' /\ GreenIsEarned'
  PROVE  History'
<1>1. e.run <= Len(runs)
  BY Bounds DEF Fits, History
<1>2. Typed' /\ OneIncident' /\ Bindings'
  BY <1>1, PushKeepsState DEF History
<1>3. MainRan' /\ LastDeep' /\ Origins' /\ Landed' /\ DeepInOrder' /\ MainInOrder'
  BY PushKeepsOrder
<1>4. MainPasses' /\ GreenIsEarned'
  <2>1. CASE e.status = "green"
    BY <2>1
  <2>2. CASE e.status # "green"
    <3>1. Red(Tip)'
      BY <2>2, PushFacts DEF History, Entries, Red
    <3>. QED
      BY <3>1 DEF MainPasses, GreenIsEarned
  <2>. QED
    BY <2>1, <2>2
<1>. QED
  BY <1>2, <1>3, <1>4 DEF History

LEMMA PushKnows ==
  ASSUME History, Knows, NEW e \in Entries, branch' = Append(branch, e), lag' = TRUE,
         UNCHANGED <<github, local, faults>>, pc' \in Awaiting, view >= 1,
         pc' = "awaitMain" => pc = "appendMain" /\ e.sha = seen.sha /\ e.cadence = "protected-main",
         pc' = "awaitDeep" => pc = "record"
  PROVE  Knows'
<1>1. /\ Tip \in Nat /\ Tip >= 1 /\ Tip' = Tip + 1 /\ view \in 0 .. Tip
      /\ Recorded(view)' = Recorded(view)
  <2>1. view \in 0 .. Tip /\ view' = view /\ Typed /\ Looks
    BY DEF local, History, Knows, Looks
  <2>. QED
    BY <2>1, PushFacts, Bounds
<1>2. /\ UNCHANGED <<main, runs, asks, merged, view, seen, queue, faults>>
      /\ \A i : (IsDeep(i)' <=> IsDeep(i)) /\ (IsMain(i)' <=> IsMain(i))
      /\ Ruled' <=> Ruled
  BY DEF github, local, IsDeep, IsMain, Ruled
<1>3. pc' \notin {"idle", "confirm", "compare", "appendMain", "deep", "record", "resolve", "merge"}
  BY DEF Awaiting
<1>4. Looks'
  <2>1. lag' \in BOOLEAN /\ Tip' >= 2 /\ view' \in 0 .. Tip' /\ view' >= 1
    BY <1>1, <1>2
  <2>2. pc' = "awaitDeep" => \A i \in queue : IsDeep(i)
    BY DEF Knows, Looks
  <2>3. /\ faults \in 0 .. MaxFaults /\ queue \subseteq 1 .. Len(runs) /\ seen \in Sightings
    BY DEF Knows, Looks
  <2>. QED
    BY <1>2, <1>3, <2>1, <2>2, <2>3 DEF Looks
<1>5. AtDeep'
  <2>1. ASSUME pc' = "awaitDeep", NEW i \in queue, NEW j \in 1 .. i - 1, IsDeep(j)
        PROVE  j \in queue \/ j \in Recorded(view)
    BY <2>1 DEF Knows, AtDeep
  <2>. QED
    BY <1>1, <1>2, <1>3, <2>1 DEF AtDeep
<1>6. AtRuled'
  <2>1. ASSUME Ruled, pc' = "awaitMain" PROVE Results(Tip, main, "protected-main")' # {}
    <3>1. e.sha = main /\ e.cadence = "protected-main"
      BY <2>1 DEF Knows, AtRuled
    <3>. QED
      BY <1>2, <3>1, PushResults DEF History, Knows
  <2>2. ASSUME Ruled, pc' = "awaitDeep"
        PROVE  seen.sha = main /\ Results(Tip, main, "protected-main")' # {}
    <3>1. seen.sha = main /\ Results(Tip, main, "protected-main") # {}
      BY <2>2 DEF Knows, AtRuled
    <3>. QED
      BY <1>2, <3>1, PushResults DEF History, Knows
  <2>. QED
    BY <1>2, <1>3, <2>1, <2>2 DEF Knows, AtRuled
<1>7. AtMain' /\ AtResolve' /\ AtMerge'
  BY <1>3 DEF AtMain, AtResolve, AtMerge
<1>. QED
  BY <1>4, <1>5, <1>6, <1>7 DEF Knows

\* A result that is recorded keeps what green rests on.
LEMMA IngestKeeps ==
  ASSUME History, Knows, view = Tip, NEW c \in Cadences, NEW i \in 1 .. Len(runs),
         runs[i].cadence = c, NEW result \in {"success", "failure"},
         branch' = Append(branch, Ingested(c, i, runs[i].sha, result)), UNCHANGED github,
         c \in Deep => \A j \in 1 .. i - 1 : IsDeep(j) => j \in Recorded(Tip),
         c = "protected-main" =>
           /\ \A l \in 1 .. Tip : branch[l].cadence = "protected-main" => branch[l].run < i
           /\ runs[i].sha # main => \A j \in 1 .. Len(runs) : runs[j].sha = main => i < j,
         Ruled => runs[i].sha = main,
         Ruled /\ c # "protected-main" => Results(Tip, main, "protected-main") # {}
  PROVE  Ingested(c, i, runs[i].sha, result) \in Entries /\ History'
<1>. DEFINE e == Ingested(c, i, runs[i].sha, result)
            n == Tip
<1>1. /\ Tip \in Nat /\ Tip >= 1 /\ n \in 1 .. Tip /\ branch[n] \in Entries
      /\ i \in Nat /\ runs[i] \in Attempts
  BY Bounds DEF History, Knows
<1>2. /\ e.cadence = c /\ e.run = i /\ e.sha = runs[i].sha /\ e.result = result
      /\ e.status = (IF result # "success" \/ Red(Tip) THEN "red" ELSE "green")
      /\ e.incident = (IF result # "success" /\ ~Red(Tip) THEN Tip + 1 ELSE branch[n].incident)
      /\ e.good = (IF result = "success" /\ ~Red(Tip) THEN runs[i].sha ELSE branch[n].good)
  BY DEF Ingested, Entry
<1>3. e \in Entries
  <2>1. /\ e.status \in {"green", "red"} /\ e.incident \in Nat /\ e.good \in Commits
        /\ c \in Cadences \cup {"repair-resolution"} /\ runs[i].sha \in Commits
    BY <1>1, <1>2 DEF Attempts, Entries
  <2>2. e = [cadence |-> e.cadence, run |-> e.run, sha |-> e.sha, result |-> e.result,
             status |-> e.status, incident |-> e.incident, good |-> e.good]
    BY DEF Ingested, Entry
  <2>. HIDE DEF e
  <2>. QED
    BY <1>1, <1>2, <2>1, <2>2 DEF Entries
<1>4. Follows(e)
  <2>1. ~Red(Tip) => branch[n].incident = 0
    BY <1>1 DEF History, OneIncident
  <2>. HIDE DEF e
  <2>. QED
    BY <1>2, <2>1 DEF Follows
<1>5. Fits(e)
  <2>1. c # "repair-resolution"
    BY HealthAssumption DEF Cadences
  <2>2. e.sha \in Pulls => merged[e.sha] # None
    BY <1>2 DEF History, Landed
  <2>. HIDE DEF e
  <2>. QED
    BY <1>2, <2>1, <2>2 DEF Fits
<1>6. ASSUME e.status = "green" PROVE MainPasses' /\ GreenIsEarned'
  <2>. HIDE DEF e
  <2>1. result = "success" /\ ~Red(Tip) /\ e.good = runs[i].sha
    BY <1>2, <1>6
  <2>2. UNCHANGED <<main, runs>> /\ (Ruled' <=> Ruled)
    BY DEF github, Ruled
  <2>3. branch' = Append(branch, e)
    BY DEF e
  <2>4. ASSUME NEW d \in Cadences
        PROVE  /\ Results(Tip, main, d)' # {} => Passes(Tip, main, d)'
               /\ Results(Tip, main, d) # {} => Results(Tip, main, d)' # {}
    <3>1. CASE e.sha = main /\ e.cadence = d
      BY <1>2, <1>3, <2>1, <2>2, <2>3, <3>1, PushResults DEF History, Knows
    <3>2. CASE e.sha # main \/ e.cadence # d
      BY <1>3, <2>1, <2>2, <2>3, <3>2, PushResults DEF History, Knows, MainPasses
    <3>. QED
      BY <3>1, <3>2
  <2>5. MainPasses'
    BY <2>2, <2>4 DEF MainPasses
  <2>6. ASSUME Ruled PROVE e.good = main /\ Results(Tip, main, "protected-main")' # {}
    <3>1. e.sha = main /\ e.good = main
      BY <1>2, <2>1, <2>6
    <3>2. CASE c = "protected-main"
      BY <1>2, <1>3, <2>2, <2>3, <3>1, <3>2, PushResults DEF History, Knows
    <3>3. CASE c # "protected-main"
      BY <2>4, <2>6, <3>1, <3>3 DEF Cadences
    <3>. QED
      BY <3>1, <3>2, <3>3
  <2>7. Tip' = Tip + 1 /\ branch'[Tip'] = e
    BY <1>3, <2>3, PushFacts DEF History, Knows
  <2>8. GreenIsEarned'
    BY <2>2, <2>4, <2>6, <2>7 DEF GreenIsEarned, Cadences
  <2>. QED
    BY <2>5, <2>8
<1>. HIDE DEF e
<1>7. branch' = Append(branch, e)
  BY DEF e
<1>8. History'
  BY <1>3, <1>4, <1>5, <1>6, <1>7, PushKeepsHistory DEF Knows
<1>. QED
  BY <1>3, <1>8 DEF e

LEMMA RaiseKeeps ==
  ASSUME History, Knows, Raise PROVE History' /\ Knows'
BY HistoryStays, RaiseKnows DEF Raise

LEMMA AppendKeeps ==
  ASSUME IInv, History, Knows, AppendMain PROVE History' /\ Knows'
<1>1. CASE view = Tip
  <2>. DEFINE e == Ingested("protected-main", seen.run, seen.sha, seen.result)
  <2>1. /\ pc = "appendMain" /\ branch' = Append(branch, e) /\ lag' = TRUE /\ pc' = "awaitMain"
        /\ UNCHANGED <<github, local, faults>>
    BY <1>1 DEF AppendMain, Push, Tip
  <2>2. /\ seen.run \in 1 .. Len(runs) /\ runs[seen.run].cadence = "protected-main"
        /\ runs[seen.run].sha = seen.sha /\ seen.result \in {"success", "failure"} /\ view >= 1
    BY <2>1 DEF Knows, Looks, IsMain
  <2>3. ASSUME NEW l \in 1 .. Tip, branch[l].cadence = "protected-main"
        PROVE  branch[l].run < seen.run
    <3>1. branch[l].run <= seen.run /\ branch[l].run \in Nat /\ branch[l].run # 0
      BY <2>1, <2>3, Bounds DEF Knows, AtMain, History, Origins
    <3>2. seen.run \notin Recorded(Tip)
      BY <1>1, <2>1 DEF IInv
    <3>3. branch[l].run # seen.run
      BY <3>1, <3>2 DEF Recorded
    <3>. QED
      BY <2>2, <3>1, <3>3
  <2>4. seen.sha # main => \A j \in 1 .. Len(runs) : runs[j].sha = main => seen.run < j
    BY <2>1 DEF Knows, AtMain
  <2>5. Ruled => seen.sha = main
    BY <2>1 DEF Knows, AtRuled
  <2>6. "protected-main" \in Cadences /\ "protected-main" \notin Deep
    BY HealthAssumption DEF Cadences
  <2>. HIDE DEF e
  <2>7. Ingested("protected-main", seen.run, runs[seen.run].sha, seen.result) = e
    BY <2>2 DEF e
  <2>8. e \in Entries /\ History'
    BY <1>1, <2>1, <2>2, <2>3, <2>4, <2>5, <2>6, <2>7, IngestKeeps
  <2>9. e.sha = seen.sha /\ e.cadence = "protected-main"
    BY DEF e, Ingested, Entry
  <2>10. Knows'
    BY <2>1, <2>2, <2>8, <2>9, PushKnows DEF Awaiting
  <2>. QED
    BY <2>8, <2>10
<1>2. CASE view # Tip
  BY <1>2, RaiseKeeps DEF AppendMain, Push, Tip
<1>. QED
  BY <1>1, <1>2

LEMMA RecordKeeps ==
  ASSUME IInv, History, Knows, RecordDeep PROVE History' /\ Knows'
<1>1. PICK i \in queue :
        /\ \A j \in queue : i <= j
        /\ IF runs[i].sha = seen.sha
           THEN Push(Ingested(runs[i].cadence, i, runs[i].sha,
                              IF runs[i].status = "success" THEN "success" ELSE "failure"),
                     "awaitDeep")
           ELSE Raise
  BY DEF RecordDeep
<1>2. pc = "record"
  BY DEF RecordDeep
<1>3. CASE runs[i].sha = seen.sha /\ view = Tip
  <2>. DEFINE result == IF runs[i].status = "success" THEN "success" ELSE "failure"
              c == runs[i].cadence
              e == Ingested(c, i, runs[i].sha, result)
  <2>1. /\ branch' = Append(branch, e) /\ lag' = TRUE /\ pc' = "awaitDeep"
        /\ UNCHANGED <<github, local, faults>>
    BY <1>1, <1>3 DEF Push, Tip
  <2>2. i \in 1 .. Len(runs) /\ c \in Deep /\ c \in Cadences /\ c # "protected-main" /\ view >= 1
    BY <1>2, HealthAssumption DEF Knows, Looks, IsDeep, Cadences
  <2>3. ASSUME NEW j \in 1 .. i - 1, IsDeep(j) PROVE j \in Recorded(Tip)
    <3>1. j \in queue \/ j \in Recorded(Tip)
      BY <1>2, <1>3, <2>3 DEF Knows, AtDeep
    <3>2. ~(i <= j)
      BY <2>2
    <3>. QED
      BY <1>1, <3>1, <3>2
  <2>4. Ruled => runs[i].sha = main /\ Results(Tip, main, "protected-main") # {}
    BY <1>2, <1>3 DEF Knows, AtRuled
  <2>5. result \in {"success", "failure"}
    OBVIOUS
  <2>. HIDE DEF result
  <2>6. e \in Entries /\ History'
    BY <1>3, <2>1, <2>2, <2>3, <2>4, <2>5, IngestKeeps
  <2>. HIDE DEF e
  <2>7. Knows'
    BY <1>2, <2>1, <2>2, <2>6, PushKnows DEF Awaiting
  <2>. QED
    BY <2>6, <2>7
<1>4. CASE ~(runs[i].sha = seen.sha /\ view = Tip)
  BY <1>1, <1>4, RaiseKeeps DEF Push, Tip
<1>. QED
  BY <1>3, <1>4

LEMMA ResolveKeeps ==
  ASSUME IInv, History, Knows, Resolve PROVE History' /\ Knows'
<1>1. CASE view = Tip
  <2>. DEFINE e == Entry("repair-resolution", 0, seen.sha, "success", "green", 0, seen.sha)
  <2>1. /\ pc = "resolve" /\ branch' = Append(branch, e) /\ lag' = TRUE /\ pc' = "awaitRepair"
        /\ UNCHANGED <<github, local, faults>>
    BY <1>1 DEF Resolve, Push, Tip
  <2>2. /\ Red(Tip) /\ seen.sha \in Pulls /\ merged[seen.sha] # None
        /\ \A c \in Cadences : Passes(Tip, seen.sha, c)
        /\ seen.sha # main => \A k \in 1 .. Tip : branch[k].sha # main
    BY <1>1, <2>1 DEF Knows, AtResolve
  <2>3. "repair-resolution" \notin Cadences
    BY HealthAssumption DEF Cadences
  <2>4. /\ e.cadence = "repair-resolution" /\ e.run = 0 /\ e.sha = seen.sha
        /\ e.status = "green" /\ e.incident = 0 /\ e.good = seen.sha
    BY DEF Entry
  <2>5. e \in Entries
    BY <2>2 DEF Entry, Entries, Commits
  <2>. HIDE DEF e
  <2>6. Follows(e) /\ Fits(e)
    BY <2>2, <2>3, <2>4 DEF Follows, Fits, Cadences
  <2>7. UNCHANGED <<main, runs>> /\ (Ruled' <=> Ruled)
    BY <2>1 DEF github, Ruled
  <2>8. ASSUME NEW d \in Cadences
        PROVE  /\ Results(Tip, main, d)' # {} => Passes(Tip, main, d)'
               /\ seen.sha = main => Passes(Tip, main, d)'
    <3>1. /\ Results(Tip, main, d)' = Results(Tip, main, d)
          /\ Passes(Tip, main, d)' <=> Passes(Tip, main, d)
      BY <2>1, <2>3, <2>4, <2>5, <2>7, PushResults DEF History, Knows
    <3>2. seen.sha # main => Results(Tip, main, d) = {}
      BY <2>2 DEF Results
    <3>. QED
      BY <2>2, <3>1, <3>2
  <2>9. MainPasses'
    BY <2>7, <2>8 DEF MainPasses
  <2>10. GreenIsEarned'
    <3>1. Ruled => e.good = main /\ seen.sha = main
      BY <2>1, <2>4 DEF Knows, AtRuled
    <3>2. branch'[Tip'] = e
      BY <2>1, <2>5, PushFacts DEF History, Knows
    <3>. QED
      BY <2>7, <2>8, <3>1, <3>2 DEF GreenIsEarned, Cadences
  <2>11. History'
    BY <2>1, <2>5, <2>6, <2>9, <2>10, PushKeepsHistory DEF Knows
  <2>12. Knows'
    <3>1. view >= 1
      BY <2>1 DEF Knows, Looks
    <3>. QED
      BY <2>1, <2>5, <3>1, PushKnows DEF Awaiting
  <2>. QED
    BY <2>11, <2>12
<1>2. CASE view # Tip
  BY <1>2, RaiseKeeps DEF Resolve, Push, Tip
<1>. QED
  BY <1>1, <1>2

--------------------------------------------------------------------------------
(* Runs begin, end and are run again *)

\* Attempts are added one at a time; those there are stay what they are about, and the last of
\* a deep run is followed by another when it is run again.
Grows ==
  /\ runs' \in Seq(Attempts) /\ Len(runs') \in {Len(runs), Len(runs) + 1}
  /\ \A i \in 1 .. Len(runs) :
       /\ runs'[i].cadence = runs[i].cadence /\ runs'[i].sha = runs[i].sha
       /\ runs'[i].last => runs[i].last
       /\ runs[i].status = "success" => runs'[i].status = "success"
       /\ runs[i].last => \/ runs'[i].last
                          \/ /\ Len(runs') = Len(runs) + 1
                             /\ runs'[Len(runs) + 1].cadence = runs[i].cadence
  /\ Len(runs') = Len(runs) + 1 => runs'[Len(runs) + 1].last

\* Main stays, and what begins is about main or something older.
Remains ==
  /\ main' = main
  /\ Len(runs') = Len(runs) + 1 =>
       \/ runs'[Len(runs) + 1].sha = main
       \/ \E i \in 1 .. Len(runs) : runs'[Len(runs) + 1].sha = runs[i].sha

\* Main moves to a commit that nothing was about, and an attempt begins on it.
Moves ==
  /\ main' \in Commits /\ Len(runs') = Len(runs) + 1
  /\ runs'[Len(runs) + 1].sha = main' /\ runs'[Len(runs) + 1].cadence = "protected-main"
  /\ \A i \in 1 .. Len(runs) : runs[i].sha # main'
  /\ \A k \in 1 .. Tip : branch[k].sha # main'

LEMMA RunsKeepOrder ==
  ASSUME History, Looks, Grows, Remains \/ Moves, UNCHANGED branch
  PROVE  /\ MainRan' /\ Origins' /\ LastDeep' /\ DeepInOrder' /\ MainInOrder'
         /\ MainPasses' /\ GreenIsEarned' /\ OneIncident'
         /\ \A k \in 1 .. Tip : branch[k].run <= Len(runs')
         /\ Ruled' => Ruled
<1>0. PICK n : n = Len(runs)
  OBVIOUS
<1>1. /\ n \in Nat /\ Len(runs') \in Nat /\ n <= Len(runs') /\ Tip \in Nat /\ Tip >= 1
      /\ \A k \in 1 .. Tip : branch[k].run \in 0 .. n
      /\ \A j \in 1 .. Len(runs') : j \in 1 .. n \/ (j = n + 1 /\ Len(runs') = n + 1)
      /\ \A j \in 1 .. n : j \in 1 .. Len(runs')
  BY <1>0, Bounds DEF History, Grows
<1>2. /\ Tip' = Tip /\ \A v : (Red(v)' <=> Red(v)) /\ Recorded(v)' = Recorded(v)
      /\ \A v, sha, c : Results(v, sha, c)' = Results(v, sha, c)
      /\ \A v, sha, c : Passes(v, sha, c)' <=> Passes(v, sha, c)
  BY SameBranch
<1>3. \A i \in 1 .. n : (IsMain(i)' <=> IsMain(i)) /\ (IsDeep(i)' <=> IsDeep(i))
                        /\ runs'[i].sha = runs[i].sha
  BY <1>0 DEF Grows, IsMain, IsDeep
<1>4. MainRan'
  <2>1. CASE Moves
    <3>1. Len(runs') = n + 1 /\ IsMain(n + 1)' /\ runs'[n + 1].sha = main'
      BY <1>0, <2>1 DEF Moves, IsMain
    <3>2. n + 1 \in 1 .. Len(runs') /\ \A j \in n + 1 + 1 .. Len(runs') : FALSE
      BY <1>1, <3>1
    <3>. QED
      BY <3>1, <3>2 DEF MainRan
  <2>2. CASE Remains
    <3>1. PICK i \in 1 .. n : /\ IsMain(i) /\ runs[i].sha = main
                              /\ \A j \in i + 1 .. n : ~IsMain(j) \/ runs[j].sha # main
      BY <1>0 DEF History, MainRan
    <3>2. CASE Len(runs') = n + 1 /\ runs'[n + 1].cadence = "protected-main"
               /\ runs'[n + 1].sha = main
      <4>1. n + 1 \in 1 .. Len(runs') /\ \A j \in n + 1 + 1 .. Len(runs') : FALSE
        BY <1>1, <3>2
      <4>2. IsMain(n + 1)' /\ runs'[n + 1].sha = main'
        BY <2>2, <3>2 DEF IsMain, Remains
      <4>. QED
        BY <4>1, <4>2 DEF MainRan
    <3>3. CASE ~(Len(runs') = n + 1 /\ runs'[n + 1].cadence = "protected-main"
                 /\ runs'[n + 1].sha = main)
      <4>1. i \in 1 .. Len(runs') /\ IsMain(i)' /\ runs'[i].sha = main'
        BY <1>1, <1>3, <2>2, <3>1 DEF Remains
      <4>2. ASSUME NEW j \in i + 1 .. Len(runs') PROVE ~IsMain(j)' \/ runs'[j].sha # main'
        <5>1. j \in 1 .. Len(runs')
          BY <1>1, <4>2
        <5>2. CASE j \in 1 .. n
          BY <1>3, <2>2, <3>1, <4>2, <5>2 DEF Remains
        <5>3. CASE j = n + 1 /\ Len(runs') = n + 1
          BY <2>2, <3>3, <5>3 DEF IsMain, Remains
        <5>. QED
          BY <1>1, <5>1, <5>2, <5>3
      <4>. QED
        BY <4>1, <4>2 DEF MainRan
    <3>. QED
      BY <3>2, <3>3
  <2>. QED
    BY <2>1, <2>2
<1>5. Origins'
  <2>1. \A k \in 1 .. Tip : branch[k].run # 0 => branch[k].run \in 1 .. n
    BY <1>1
  <2>2. \A i \in 1 .. n : runs'[i].cadence = runs[i].cadence /\ runs'[i].sha = runs[i].sha
    BY <1>0 DEF Grows
  <2>. QED
    BY <1>2, <2>1, <2>2 DEF History, Origins
<1>6. LastDeep'
  <2>1. ASSUME NEW i \in 1 .. Len(runs'), IsDeep(i)'
        PROVE  \E j \in i .. Len(runs') : IsDeep(j)' /\ runs'[j].last
    <3>1. CASE i = n + 1 /\ Len(runs') = n + 1
      BY <1>0, <1>1, <2>1, <3>1 DEF Grows
    <3>2. CASE i \in 1 .. n
      <4>1. PICK j \in i .. n : IsDeep(j) /\ runs[j].last
        BY <1>0, <1>3, <2>1, <3>2 DEF History, LastDeep
      <4>2. j \in 1 .. n /\ j \in i .. Len(runs')
        BY <1>1, <3>2, <4>1
      <4>3. CASE runs'[j].last
        BY <1>3, <4>1, <4>2, <4>3
      <4>4. CASE ~runs'[j].last
        <5>1. /\ Len(runs') = n + 1 /\ runs'[n + 1].cadence = runs[j].cadence
              /\ runs'[n + 1].last
          BY <1>0, <4>1, <4>2, <4>4 DEF Grows
        <5>2. IsDeep(n + 1)' /\ n + 1 \in i .. Len(runs')
          BY <1>1, <3>2, <4>1, <5>1 DEF IsDeep
        <5>. QED
          BY <5>1, <5>2
      <4>. QED
        BY <4>3, <4>4
    <3>. QED
      BY <1>1, <3>1, <3>2
  <2>. QED
    BY <2>1 DEF LastDeep
<1>7. DeepInOrder'
  <2>1. ASSUME NEW k \in 1 .. Tip, NEW i \in 1 .. branch[k].run - 1 PROVE i \in 1 .. n
    BY <1>1
  <2>. QED
    BY <1>2, <1>3, <2>1 DEF History, DeepInOrder
<1>8. MainInOrder'
  <2>1. ASSUME NEW k \in 1 .. Tip, branch[k].cadence = "protected-main", branch[k].sha # main',
               NEW j \in 1 .. Len(runs'), runs'[j].sha = main'
        PROVE  branch[k].run < j
    <3>1. CASE j = n + 1
      BY <1>1, <3>1
    <3>2. CASE j \in 1 .. n
      <4>1. main' = main /\ runs[j].sha = main
        BY <1>0, <1>3, <2>1, <3>2 DEF Moves, Remains
      <4>. QED
        BY <1>0, <2>1, <3>2, <4>1 DEF History, MainInOrder
    <3>. QED
      BY <1>1, <3>1, <3>2
  <2>. QED
    BY <1>2, <2>1 DEF History, MainInOrder
<1>9. MainPasses'
  <2>1. CASE Remains
    BY <1>2, <2>1 DEF History, MainPasses, Remains
  <2>2. CASE Moves
    <3>1. \A c : Results(Tip, main, c)' = {}
      <4>1. PICK m : m = main'
        OBVIOUS
      <4>2. \A c : Results(Tip, m, c) = {}
        BY <2>2, <4>1 DEF Moves, Results
      <4>. QED
        BY <1>2, <4>1, <4>2
    <3>. QED
      BY <3>1 DEF MainPasses
  <2>. QED
    BY <2>1, <2>2
<1>10. Ruled' => Ruled
  BY <1>0, <1>1, <1>3 DEF Ruled
<1>11. GreenIsEarned'
  BY <1>2, <1>10 DEF History, GreenIsEarned
<1>12. OneIncident'
  BY <1>2 DEF History, OneIncident
<1>13. \A k \in 1 .. Tip : branch[k].run <= Len(runs')
  BY <1>1
<1>. QED
  BY <1>4, <1>5, <1>6, <1>7, <1>8, <1>9, <1>10, <1>11, <1>12, <1>13

LEMMA RunsKeepKnows ==
  ASSUME History, Knows, Grows, Remains \/ (Moves /\ ~Ruled'), Ruled' => Ruled,
         UNCHANGED <<asks, merged, branch, pc, local>>,
         lag' = lag, faults' \in 0 .. MaxFaults
  PROVE  Knows'
<1>0. PICK n : n = Len(runs)
  OBVIOUS
<1>1. /\ n \in Nat /\ Len(runs') \in Nat /\ n <= Len(runs') /\ Tip \in Nat
      /\ \A j \in 1 .. Len(runs') : j \in 1 .. n \/ (j = n + 1 /\ Len(runs') = n + 1)
      /\ \A j \in 1 .. n : j \in 1 .. Len(runs')
  BY <1>0, Bounds DEF History, Grows, Knows
<1>2. /\ UNCHANGED <<view, seen, queue, pc>> /\ Tip' = Tip
      /\ \A v : (Red(v)' <=> Red(v)) /\ Recorded(v)' = Recorded(v)
      /\ \A v, sha, c : Results(v, sha, c)' = Results(v, sha, c)
      /\ \A v, sha, c : Passes(v, sha, c)' <=> Passes(v, sha, c)
  BY SameBranch DEF local
<1>3. \A i \in 1 .. n : (IsMain(i)' <=> IsMain(i)) /\ (IsDeep(i)' <=> IsDeep(i))
                        /\ runs'[i].sha = runs[i].sha
  BY <1>0 DEF Grows, IsMain, IsDeep
<1>4. Looks'
  <2>1. queue \subseteq 1 .. n
    BY <1>0 DEF Knows, Looks
  <2>2. pc \in {"confirm", "compare", "appendMain"} =>
          /\ seen.run \in 1 .. n /\ IsMain(seen.run)' /\ runs'[seen.run].sha = seen.sha
          /\ seen.result \in {"success", "failure"}
    <3>1. \A r \in 1 .. n : (r = seen.run /\ IsMain(r) => IsMain(seen.run)')
                            /\ runs'[r].sha = runs[r].sha
      BY <1>2, <1>3 DEF IsMain
    <3>2. pc \in {"confirm", "compare", "appendMain"} =>
            /\ seen.run \in 1 .. n /\ IsMain(seen.run) /\ runs[seen.run].sha = seen.sha
            /\ seen.result \in {"success", "failure"}
      BY <1>0 DEF Knows, Looks
    <3>. QED
      BY <3>1, <3>2
  <2>3. pc \in {"record", "awaitDeep"} => \A i \in queue : IsDeep(i)'
    BY <1>3, <2>1 DEF Knows, Looks
  <2>4. /\ lag \in BOOLEAN /\ (lag => Tip >= 2) /\ view \in 0 .. Tip /\ seen \in Sightings
        /\ pc = "idle" => view = 0 /\ seen = Unseen /\ queue = {}
        /\ pc \in {"appendMain", "awaitMain", "record", "awaitDeep", "resolve", "awaitRepair",
                   "merge"} => view >= 1
    BY DEF Knows, Looks
  <2>5. queue \subseteq 1 .. Len(runs')
    BY <1>1, <2>1
  <2>6. Unseen' = Unseen
    BY DEF Unseen
  <2>. QED
    BY <1>1, <1>2, <2>2, <2>3, <2>4, <2>5, <2>6 DEF Looks
<1>5. AtMain'
  <2>1. ASSUME pc \in {"compare", "appendMain"}, seen.sha # main', NEW j \in 1 .. Len(runs'),
               runs'[j].sha = main'
        PROVE  seen.run < j
    <3>1. seen.run \in 1 .. n
      BY <1>0, <2>1 DEF Knows, Looks
    <3>2. CASE j = n + 1
      BY <1>1, <3>1, <3>2
    <3>3. CASE j \in 1 .. n
      <4>1. main' = main /\ runs[j].sha = main
        BY <1>0, <1>3, <2>1, <3>3 DEF Moves, Remains
      <4>. QED
        BY <1>0, <2>1, <3>3, <4>1 DEF Knows, AtMain
    <3>. QED
      BY <1>1, <3>2, <3>3
  <2>2. pc \in {"compare", "appendMain"} =>
          \A k \in 1 .. Tip : branch[k].cadence = "protected-main" => branch[k].run <= seen.run
    BY DEF Knows, AtMain
  <2>. QED
    BY <1>2, <2>1, <2>2 DEF AtMain
<1>6. AtDeep'
  <2>1. ASSUME pc \in {"record", "awaitDeep"}, NEW i \in queue, NEW j \in 1 .. i - 1, IsDeep(j)'
        PROVE  j \in queue \/ j \in Recorded(view)
    <3>1. i \in 1 .. n
      BY <1>0 DEF Knows, Looks
    <3>2. j \in 1 .. n
      BY <1>1, <3>1
    <3>. QED
      BY <1>3, <2>1, <3>2 DEF Knows, AtDeep
  <2>2. Recorded(view)' = Recorded(view)
    BY <1>2
  <2>. QED
    BY <1>2, <2>1, <2>2 DEF AtDeep
<1>7. AtRuled'
  <2>1. CASE Ruled'
    <3>1. main' = main
      BY <2>1 DEF Remains
    <3>2. Results(Tip, main, "protected-main")' = Results(Tip, main, "protected-main")
      BY <1>2, <3>1
    <3>. QED
      BY <1>2, <2>1, <3>1, <3>2 DEF Knows, AtRuled
  <2>2. CASE ~Ruled'
    BY <2>2 DEF AtRuled
  <2>. QED
    BY <2>1, <2>2
<1>8. AtResolve'
  <2>1. ASSUME pc = "resolve", seen.sha # main', NEW k \in 1 .. Tip PROVE branch[k].sha # main'
    BY <2>1 DEF Knows, AtResolve, Moves, Remains
  <2>2. Red(view)' <=> Red(view)
    BY <1>2
  <2>3. \A c : Passes(view, seen.sha, c)' <=> Passes(view, seen.sha, c)
    BY <1>2
  <2>4. pc = "resolve" =>
          /\ Red(view) /\ seen.sha \in Pulls /\ merged[seen.sha] # None /\ asks[seen.sha] # <<>>
          /\ \A k \in 1 .. Len(asks[seen.sha]) : asks[seen.sha][k].incident = branch[view].incident
          /\ \A c \in Cadences : Passes(view, seen.sha, c)
    BY DEF Knows, AtResolve
  <2>. QED
    BY <1>2, <2>1, <2>2, <2>3, <2>4 DEF AtResolve
<1>9. AtMerge'
  <2>1. CASE pc # "merge"
    BY <1>2, <2>1 DEF AtMerge
  <2>2. CASE pc = "merge"
    <3>1. /\ seen.result \in Pulls /\ merged[seen.result] = None
          /\ seen.run \in 0 .. n /\ view >= Tip - 1
          /\ \/ /\ view = Tip /\ ~Red(Tip)
                /\ \A i \in 1 .. seen.run : IsDeep(i) =>
                     /\ i \in Recorded(Tip)
                     /\ runs[i].sha = seen.sha /\ runs[i].last => runs[i].status = "success"
             \/ /\ Red(view) /\ asks[seen.result] # <<>>
                /\ \A k \in 1 .. Len(asks[seen.result]) :
                     asks[seen.result][k].incident = branch[view].incident
      BY <1>0, <2>2 DEF Knows, AtMerge
    <3>2. \A i \in 1 .. seen.run : i \in 1 .. n
      BY <1>1, <3>1
    <3>3. /\ Red(view)' <=> Red(view)
          /\ Red(Tip)' <=> Red(Tip)
          /\ Recorded(Tip)' = Recorded(Tip)
      BY <1>2
    <3>4. CASE view = Tip /\ ~Red(Tip)
               /\ \A i \in 1 .. seen.run : IsDeep(i) =>
                    /\ i \in Recorded(Tip)
                    /\ runs[i].sha = seen.sha /\ runs[i].last => runs[i].status = "success"
      <4>1. ASSUME NEW i \in 1 .. seen.run, IsDeep(i)'
            PROVE  /\ i \in Recorded(Tip)
                   /\ runs'[i].sha = seen.sha /\ runs'[i].last => runs'[i].status = "success"
        <5>1. i \in 1 .. n /\ IsDeep(i)
          BY <1>3, <3>2, <4>1
        <5>2. /\ runs'[i].sha = runs[i].sha
              /\ runs'[i].last => runs[i].last
              /\ runs[i].status = "success" => runs'[i].status = "success"
          BY <1>0, <5>1 DEF Grows
        <5>. QED
          BY <3>4, <5>1, <5>2
      <4>2. seen.run \in 0 .. Len(runs')
        BY <1>1, <3>1
      <4>. QED
        BY <1>2, <3>1, <3>3, <3>4, <4>1, <4>2 DEF AtMerge
    <3>5. CASE /\ Red(view) /\ asks[seen.result] # <<>>
               /\ \A k \in 1 .. Len(asks[seen.result]) :
                    asks[seen.result][k].incident = branch[view].incident
      <4>2. seen.run \in 0 .. Len(runs')
        BY <1>1, <3>1
      <4>. QED
        BY <1>2, <3>1, <3>3, <3>5, <4>2 DEF AtMerge
    <3>. QED
      BY <3>1, <3>4, <3>5
  <2>. QED
    BY <2>1, <2>2
<1>. QED
  BY <1>4, <1>5, <1>6, <1>7, <1>8, <1>9 DEF Knows

LEMMA RunsKeepHistory ==
  ASSUME History, Looks, Grows, Remains \/ (Moves /\ main' \notin Pulls),
         UNCHANGED <<asks, merged, branch>>
  PROVE  History'
<1>1. /\ MainRan' /\ Origins' /\ LastDeep' /\ DeepInOrder' /\ MainInOrder'
      /\ MainPasses' /\ GreenIsEarned' /\ OneIncident'
      /\ \A k \in 1 .. Tip : branch[k].run <= Len(runs')
  BY RunsKeepOrder
<1>2. Tip' = Tip /\ \A v : (Red(v)' <=> Red(v))
  BY SameBranch
<1>3. main' \in Commits /\ (main' = main \/ main' \notin Pulls)
  BY DEF History, Typed, Remains, Moves
<1>4. Typed'
  <2>1. runs' \in Seq(Attempts)
    BY DEF Grows
  <2>. QED
    BY <1>1, <1>2, <1>3, <2>1 DEF History, Typed
<1>5. Landed'
  <2>1. ASSUME NEW i \in 1 .. Len(runs'), runs'[i].sha \in Pulls PROVE merged[runs'[i].sha] # None
    <3>1. /\ Len(runs) \in Nat
          /\ i \in 1 .. Len(runs) \/ (i = Len(runs) + 1 /\ Len(runs') = Len(runs) + 1)
      BY Bounds DEF History, Grows
    <3>2. CASE i \in 1 .. Len(runs)
      BY <2>1, <3>2 DEF Grows, History, Landed
    <3>3. CASE i = Len(runs) + 1 /\ Len(runs') = Len(runs) + 1
      BY <2>1, <3>3 DEF Remains, Moves, History, Landed
    <3>. QED
      BY <3>1, <3>2, <3>3
  <2>. QED
    BY <1>2, <1>3, <2>1 DEF History, Landed
<1>6. Bindings'
  BY <1>2 DEF History, Bindings
<1>. QED
  BY <1>1, <1>4, <1>5, <1>6 DEF History

\* A run that begins.
LEMMA Begun ==
  ASSUME History, Looks, NEW c \in Cadences, NEW sha \in Commits,
         runs' = Append(runs, Attempt(c, sha, "active"))
  PROVE  /\ Grows /\ Len(runs') = Len(runs) + 1
         /\ runs'[Len(runs) + 1].sha = sha /\ runs'[Len(runs) + 1].cadence = c
<1>. DEFINE a == Attempt(c, sha, "active")
<1>1. a \in Attempts /\ a.sha = sha /\ a.cadence = c /\ a.last
  BY DEF Attempt, Attempts
<1>. HIDE DEF a
<1>2. runs' = Append(runs, a) /\ runs \in Seq(Attempts)
  BY DEF a, History, Typed
<1>3. /\ runs' \in Seq(Attempts) /\ Len(runs') = Len(runs) + 1 /\ runs'[Len(runs) + 1] = a
      /\ \A i \in 1 .. Len(runs) : runs'[i] = runs[i]
  BY <1>1, <1>2, AppendedTo
<1>. QED
  BY <1>1, <1>3 DEF Grows

LEMMA DispatchKeeps ==
  ASSUME History, Knows, NEW c \in Deep, Dispatch(c) PROVE History' /\ Knows'
<1>1. /\ runs' = Append(runs, Attempt(c, main, "active"))
      /\ UNCHANGED <<main, asks, merged, branch, lag, pc, local, faults>>
  BY DEF Dispatch, Elsewhere, Outside
<1>2. Grows /\ Remains
  BY <1>1, Begun DEF Remains, History, Typed, Knows, Cadences
<1>3. History'
  BY <1>1, <1>2, RunsKeepHistory DEF Knows
<1>4. Knows'
  BY <1>1, <1>2, RunsKeepKnows, RunsKeepOrder DEF Knows, Looks
<1>. QED
  BY <1>3, <1>4

LEMMA RerunKeeps ==
  ASSUME History, Knows, NEW i \in 1 .. Len(runs), Rerun(i) PROVE History' /\ Knows'
<1>1. /\ runs' = Append([runs EXCEPT ![i].last = FALSE],
                        Attempt(runs[i].cadence, runs[i].sha, "active"))
      /\ UNCHANGED <<main, asks, merged, branch, lag, pc, local, faults>>
  BY DEF Rerun, Elsewhere, Outside
<1>2. runs \in Seq(Attempts) /\ runs[i] \in Attempts /\ Len(runs) \in Nat
  BY Bounds DEF History, Typed, Knows
<1>. DEFINE a == Attempt(runs[i].cadence, runs[i].sha, "active")
            s == [runs EXCEPT ![i].last = FALSE]
<1>3. a \in Attempts /\ a.sha = runs[i].sha /\ a.cadence = runs[i].cadence /\ a.last
  BY <1>2 DEF Attempt, Attempts
<1>4. PICK x \in Attempts : x = [runs[i] EXCEPT !.last = FALSE]
  BY <1>2 DEF Attempts
<1>5. /\ s \in Seq(Attempts) /\ Len(s) = Len(runs)
      /\ \A j \in 1 .. Len(runs) : j # i => s[j] = runs[j]
      /\ s[i].cadence = runs[i].cadence /\ s[i].sha = runs[i].sha /\ s[i].last = FALSE
      /\ s[i].status = runs[i].status
  <2>1. s = [runs EXCEPT ![i] = x]
    BY <1>2, <1>4
  <2>2. /\ s \in Seq(Attempts) /\ Len(s) = Len(runs) /\ s[i] = x
        /\ \A j \in 1 .. Len(runs) : j # i => s[j] = runs[j]
    <3>. HIDE DEF s
    <3>. QED
      BY <1>2, <2>1, Updated
  <2>. QED
    BY <1>2, <1>4, <2>2 DEF Attempts
<1>. HIDE DEF a, s
<1>6. /\ runs' \in Seq(Attempts) /\ Len(runs') = Len(s) + 1 /\ runs'[Len(s) + 1] = a
      /\ \A j \in 1 .. Len(s) : runs'[j] = s[j]
  BY <1>1, <1>3, <1>5, AppendedTo DEF a, s
<1>7. Grows
  <2>1. ASSUME NEW j \in 1 .. Len(runs)
        PROVE  /\ runs'[j].cadence = runs[j].cadence /\ runs'[j].sha = runs[j].sha
               /\ runs'[j].last => runs[j].last
               /\ runs[j].status = "success" => runs'[j].status = "success"
               /\ runs'[j].last = runs[j].last \/ a.cadence = runs[j].cadence
    <3>1. CASE j = i
      BY <1>3, <1>5, <1>6, <3>1
    <3>2. CASE j # i
      BY <1>5, <1>6, <3>2
    <3>. QED
      BY <3>1, <3>2
  <2>. QED
    BY <1>3, <1>5, <1>6, <2>1 DEF Grows
<1>8. Remains
  BY <1>1, <1>3, <1>5, <1>6 DEF Remains
<1>9. History'
  BY <1>1, <1>7, <1>8, RunsKeepHistory DEF Knows
<1>10. Knows'
  BY <1>1, <1>7, <1>8, RunsKeepKnows, RunsKeepOrder DEF Knows, Looks
<1>. QED
  BY <1>9, <1>10

LEMMA EndRunKeeps ==
  ASSUME History, Knows, NEW i \in 1 .. Len(runs), EndRun(i) PROVE History' /\ Knows'
<1>1. PICK result \in {"success", "failure"} : runs' = [runs EXCEPT ![i].status = result]
  BY DEF EndRun
<1>2. /\ runs[i].status = "active"
      /\ UNCHANGED <<main, asks, merged, branch, lag, pc, local, faults>>
  BY DEF EndRun, Elsewhere, Outside
<1>3. runs \in Seq(Attempts) /\ runs[i] \in Attempts /\ Len(runs) \in Nat
  BY Bounds DEF History, Typed, Knows
<1>4. [runs[i] EXCEPT !.status = result] \in Attempts
  BY <1>3 DEF Attempts
<1>5. /\ runs' \in Seq(Attempts) /\ Len(runs') = Len(runs)
      /\ \A j \in 1 .. Len(runs) : j # i => runs'[j] = runs[j]
      /\ runs'[i] = [runs[i] EXCEPT !.status = result]
  BY <1>1, <1>3, <1>4
<1>6. /\ runs'[i].cadence = runs[i].cadence /\ runs'[i].sha = runs[i].sha
      /\ runs'[i].last = runs[i].last
  BY <1>3, <1>5 DEF Attempts
<1>7. Grows
  <2>1. ASSUME NEW j \in 1 .. Len(runs)
        PROVE  /\ runs'[j].cadence = runs[j].cadence /\ runs'[j].sha = runs[j].sha
               /\ runs'[j].last = runs[j].last
               /\ runs[j].status = "success" => runs'[j].status = "success"
    <3>1. CASE j = i
      BY <1>2, <1>6, <3>1
    <3>2. CASE j # i
      BY <1>5, <3>2
    <3>. QED
      BY <3>1, <3>2
  <2>2. Len(runs') # Len(runs) + 1
    BY <1>3, <1>5
  <2>. QED
    BY <1>5, <2>1, <2>2 DEF Grows
<1>8. Remains
  BY <1>2, <1>3, <1>5 DEF Remains
<1>9. History'
  BY <1>2, <1>7, <1>8, RunsKeepHistory DEF Knows
<1>10. Knows'
  BY <1>2, <1>7, <1>8, RunsKeepKnows, RunsKeepOrder DEF Knows, Looks
<1>. QED
  BY <1>9, <1>10

LEMMA DriftKeeps ==
  ASSUME History, Knows, Drift PROVE History' /\ Knows'
<1>1. /\ Ruled /\ main' = Alien /\ runs' = Append(runs, Attempt("protected-main", Alien, "active"))
      /\ UNCHANGED <<asks, merged, branch, lag, pc, local>> /\ faults < MaxFaults
      /\ faults' = faults + 1
  BY DEF Drift, Outside
<1>2. /\ Grows /\ Len(runs') = Len(runs) + 1 /\ runs'[Len(runs) + 1].sha = Alien
      /\ runs'[Len(runs) + 1].cadence = "protected-main"
  BY <1>1, Begun DEF Knows, Cadences, Commits
<1>3. Alien \notin Pulls /\ Alien \in Commits
  BY HealthAssumption DEF Commits
<1>4. \A i \in 1 .. Len(runs) : runs[i].sha # Alien
  BY <1>1 DEF Ruled
<1>5. ASSUME NEW k \in 1 .. Tip PROVE branch[k].sha # Alien
  <2>1. CASE branch[k].cadence = "repair-resolution"
    BY <1>3, <2>1 DEF History, Origins
  <2>2. CASE branch[k].cadence # "repair-resolution"
    <3>1. branch[k].run \in 1 .. Len(runs) /\ runs[branch[k].run].sha = branch[k].sha
      BY <2>2, Bounds DEF History, Origins, Knows
    <3>. QED
      BY <1>4, <3>1
  <2>. QED
    BY <2>1, <2>2
<1>6. Moves
  BY <1>1, <1>2, <1>3, <1>4, <1>5 DEF Moves
<1>7. ~Ruled'
  <2>1. Len(runs) + 1 \in 1 .. Len(runs')
    BY <1>2, Bounds DEF History, Knows
  <2>. QED
    BY <1>2, <2>1 DEF Ruled
<1>8. faults' \in 0 .. MaxFaults
  BY <1>1, HealthAssumption DEF Knows, Looks
<1>9. History'
  BY <1>1, <1>2, <1>3, <1>6, RunsKeepHistory DEF Knows
<1>10. Knows'
  BY <1>1, <1>2, <1>6, <1>7, <1>8, RunsKeepKnows
<1>. QED
  BY <1>9, <1>10

--------------------------------------------------------------------------------
(* Repairs are asked for *)

\* Red entries next to each other are red for the same incident.
LEMMA SameIncident ==
  ASSUME History, Looks, NEW v \in 1 .. Tip, v >= Tip - 1, Red(v), Red(Tip)
  PROVE  branch[v].incident = branch[Tip].incident
<1>1. Tip \in Nat /\ Tip \in 1 .. Tip
  BY Bounds DEF History
<1>2. CASE v = Tip
  BY <1>2
<1>3. CASE v = Tip - 1
  <2>1. /\ branch[Tip].incident \in 1 .. Tip
        /\ \A m \in branch[Tip].incident .. Tip : branch[m].incident = branch[Tip].incident
        /\ \A m \in 1 .. Tip : m + 1 = branch[Tip].incident => ~Red(m)
    BY <1>1 DEF History, OneIncident
  <2>2. v + 1 # branch[Tip].incident
    BY <2>1
  <2>3. v \in branch[Tip].incident .. Tip
    BY <1>1, <1>3, <2>1, <2>2
  <2>. QED
    BY <2>1, <2>3
<1>. QED
  BY <1>1, <1>2, <1>3

\* The requests of a pull that is not merged change.
LEMMA AsksKeep ==
  ASSUME History, Knows, NEW p \in Pulls, merged[p] = None,
         UNCHANGED <<main, runs, merged, branch, lag, pc, local, faults>>,
         asks' \in [Pulls -> Seq(Requests)], \A q \in Pulls \ {p} : asks'[q] = asks[q],
         \A k \in 1 .. Len(asks'[p]) :
           asks'[p][k].incident \in 1 .. Tip /\ asks'[p][k].generation \in 1 .. Tip,
         pc = "merge" /\ seen.result = p /\ Red(view) =>
           /\ asks'[p] # <<>> \/ asks[p] = <<>>
           /\ (\A k \in 1 .. Len(asks[p]) : asks[p][k].incident = branch[view].incident)
                => \A k \in 1 .. Len(asks'[p]) : asks'[p][k].incident = branch[view].incident
  PROVE  History' /\ Knows'
<1>1. UNCHANGED <<view, seen, queue>> /\ Unseen' = Unseen
  BY DEF local, Unseen
<1>2. /\ Tip' = Tip
      /\ \A v : (Red(v)' <=> Red(v)) /\ Recorded(v)' = Recorded(v)
      /\ \A v, sha, c : Results(v, sha, c)' = Results(v, sha, c)
      /\ \A v, sha, c : Passes(v, sha, c)' <=> Passes(v, sha, c)
  BY SameBranch
<1>3. Typed'
  <2>1. ASSUME NEW q \in Pulls, NEW k \in 1 .. Len(asks'[q])
        PROVE  asks'[q][k].incident \in 1 .. Tip /\ asks'[q][k].generation \in 1 .. Tip
    <3>1. CASE q = p
      BY <3>1
    <3>2. CASE q # p
      <4>1. asks'[q] = asks[q]
        BY <3>2
      <4>. QED
        BY <4>1 DEF History, Typed
    <3>. QED
      BY <3>1, <3>2
  <2>. QED
    BY <1>2, <2>1 DEF History, Typed
<1>4. OneIncident' /\ MainRan' /\ Origins' /\ Landed' /\ LastDeep'
  BY <1>2 DEF History, OneIncident, MainRan, Origins, Landed, LastDeep, IsMain, IsDeep
<1>5. DeepInOrder' /\ MainInOrder' /\ MainPasses' /\ GreenIsEarned'
  BY <1>2 DEF History, DeepInOrder, MainInOrder, MainPasses, GreenIsEarned, IsDeep, Ruled
<1>6. Bindings'
  <2>1. ASSUME NEW q \in Pulls, merged[q] # None PROVE asks'[q] = asks[q]
    BY <2>1
  <2>. QED
    BY <1>2, <2>1 DEF History, Bindings
<1>7. Looks' /\ AtMain' /\ AtDeep' /\ AtRuled'
  BY <1>1, <1>2 DEF Knows, Looks, AtMain, AtDeep, AtRuled, IsMain, IsDeep, Ruled
<1>8. AtResolve'
  <2>1. pc = "resolve" => asks'[seen.sha] = asks[seen.sha]
    BY DEF Knows, AtResolve
  <2>. QED
    BY <1>1, <1>2, <2>1 DEF Knows, AtResolve
<1>9. AtMerge'
  <2>1. CASE seen.result = p
    BY <1>1, <1>2, <2>1 DEF Knows, AtMerge, IsDeep
  <2>2. CASE seen.result # p
    <3>1. pc = "merge" => asks'[seen.result] = asks[seen.result]
      BY <2>2 DEF Knows, AtMerge
    <3>. QED
      BY <1>1, <1>2, <3>1 DEF Knows, AtMerge, IsDeep
  <2>. QED
    BY <2>1, <2>2
<1>. QED
  BY <1>3, <1>4, <1>5, <1>6, <1>7, <1>8, <1>9 DEF History, Knows

LEMMA AskKeeps ==
  ASSUME History, Knows, NEW p \in Pulls, Ask(p) PROVE History' /\ Knows'
<1>. DEFINE r == [incident |-> branch[Tip].incident, generation |-> Tip,
                  base |-> main, inForce |-> TRUE]
<1>1. /\ Red(Tip) /\ merged[p] = None
      /\ asks' = [asks EXCEPT ![p] = Append(asks[p], r)]
      /\ UNCHANGED <<main, runs, merged, branch, lag, pc, local, faults>>
  BY DEF Ask, Elsewhere, Outside, Tip
<1>2. Tip \in Nat /\ Tip \in 1 .. Tip /\ branch[Tip].incident \in 1 .. Tip
  BY <1>1, Bounds DEF History, Knows, OneIncident
<1>3. r \in Requests /\ r.incident = branch[Tip].incident /\ r.generation = Tip
  BY <1>2 DEF Requests, History, Typed
<1>. HIDE DEF r
<1>4. asks \in [Pulls -> Seq(Requests)] /\ asks[p] \in Seq(Requests)
  BY DEF History, Typed
<1>5. /\ asks'[p] = Append(asks[p], r) /\ \A q \in Pulls \ {p} : asks'[q] = asks[q]
      /\ asks' \in [Pulls -> Seq(Requests)]
  BY <1>1, <1>3, <1>4
<1>6. /\ Len(asks[p]) \in Nat /\ Len(asks'[p]) = Len(asks[p]) + 1
      /\ \A k \in 1 .. Len(asks[p]) : asks'[p][k] = asks[p][k]
      /\ asks'[p][Len(asks[p]) + 1] = r
  BY <1>3, <1>4, <1>5, AppendedTo
<1>7. \A k \in 1 .. Len(asks'[p]) : k \in 1 .. Len(asks[p]) \/ k = Len(asks[p]) + 1
  BY <1>6
<1>8. \A k \in 1 .. Len(asks'[p]) :
        asks'[p][k].incident \in 1 .. Tip /\ asks'[p][k].generation \in 1 .. Tip
  BY <1>2, <1>3, <1>6, <1>7 DEF History, Typed
<1>9. ASSUME pc = "merge", seen.result = p, Red(view)
      PROVE  /\ asks'[p] # <<>>
             /\ (\A k \in 1 .. Len(asks[p]) : asks[p][k].incident = branch[view].incident)
                  => \A k \in 1 .. Len(asks'[p]) : asks'[p][k].incident = branch[view].incident
  <2>1. view \in 1 .. Tip /\ view >= Tip - 1
    BY <1>2, <1>9 DEF Knows, Looks, AtMerge
  <2>2. branch[view].incident = branch[Tip].incident
    BY <1>1, <1>9, <2>1, SameIncident DEF Knows
  <2>3. asks'[p] # <<>>
    BY <1>6
  <2>. QED
    BY <1>3, <1>6, <1>7, <2>2, <2>3
<1>. QED
  BY <1>1, <1>5, <1>8, <1>9, AsksKeep

LEMMA ExpireKeeps ==
  ASSUME History, Knows, NEW p \in Pulls, NEW k \in 1 .. Len(asks[p]), Expire(p, k)
  PROVE  History' /\ Knows'
<1>1. /\ merged[p] = None /\ ~(pc = "merge" /\ seen.result = p)
      /\ asks' = [asks EXCEPT ![p][k].inForce = FALSE]
      /\ UNCHANGED <<main, runs, merged, branch, lag, pc, local, faults>>
  BY DEF Expire, Elsewhere, Outside
<1>2. asks \in [Pulls -> Seq(Requests)] /\ asks[p] \in Seq(Requests) /\ asks[p][k] \in Requests
  BY DEF History, Typed
<1>3. PICK x \in Requests : x = [asks[p][k] EXCEPT !.inForce = FALSE]
  BY <1>2 DEF Requests
<1>4. x.incident = asks[p][k].incident /\ x.generation = asks[p][k].generation
  BY <1>2, <1>3 DEF Requests
<1>5. PICK s : s = [asks[p] EXCEPT ![k] = x]
  OBVIOUS
<1>6. /\ s \in Seq(Requests) /\ Len(s) = Len(asks[p]) /\ s[k] = x
      /\ \A j \in 1 .. Len(asks[p]) : j # k => s[j] = asks[p][j]
  BY <1>2, <1>5, Updated
<1>7. asks' = [asks EXCEPT ![p] = s]
  BY <1>1, <1>3, <1>5
<1>8. /\ asks'[p] = s /\ asks' \in [Pulls -> Seq(Requests)]
      /\ \A q \in Pulls \ {p} : asks'[q] = asks[q]
  BY <1>2, <1>6, <1>7
<1>9. ASSUME NEW j \in 1 .. Len(asks'[p])
      PROVE  asks'[p][j].incident \in 1 .. Tip /\ asks'[p][j].generation \in 1 .. Tip
  <2>1. j \in 1 .. Len(asks[p])
    BY <1>6, <1>8
  <2>2. asks[p][j].incident \in 1 .. Tip /\ asks[p][j].generation \in 1 .. Tip
    BY <2>1 DEF History, Typed
  <2>. QED
    BY <1>4, <1>6, <1>8, <2>1, <2>2
<1>. QED
  BY <1>1, <1>8, <1>9, AsksKeep

--------------------------------------------------------------------------------
(* Pulls are merged *)

LEMMA MergeKeeps ==
  ASSUME History, Knows, NEW p \in Pulls, Merge(p) PROVE History' /\ Knows'
<1>1. CASE main # seen.sha
  BY <1>1, RaiseKeeps DEF Merge
<1>2. CASE main = seen.sha
  <2>. DEFINE inForce == \A k \in 1 .. Len(asks[p]) : asks[p][k].inForce
              r == [incident |-> branch[view].incident, inForce |-> inForce]
  <2>1. /\ pc = "merge" /\ seen.result = p /\ main' = p /\ EndCycle
        /\ runs' = Append(runs, Attempt("protected-main", p, "active"))
        /\ merged' = [merged EXCEPT ![p] = r]
        /\ UNCHANGED <<asks, branch, lag, faults>>
    BY <1>2 DEF Merge
  <2>2. Tip \in Nat /\ view \in 1 .. Tip /\ view >= Tip - 1
    BY <2>1, Bounds DEF History, Knows, Looks, AtMerge
  <2>3. branch[view].incident \in 0 .. Tip
    BY <2>2 DEF History, OneIncident
  <2>4. inForce \in BOOLEAN
    BY Zenon
  <2>. HIDE DEF inForce
  <2>5. r \in Merges /\ r.incident = branch[view].incident /\ r # None
    BY <2>2, <2>3, <2>4, HealthAssumption DEF Merges
  <2>. HIDE DEF r
  <2>6. merged[p] = None
    BY <2>1 DEF Knows, AtMerge
  <2>7. /\ merged' \in [Pulls -> Merges \cup {None}] /\ merged'[p] = r
        /\ \A q \in Pulls \ {p} : merged'[q] = merged[q]
    BY <2>1, <2>5 DEF History, Typed
  <2>8. \A q \in Pulls : merged[q] # None => merged'[q] = merged[q]
    BY <2>6, <2>7
  <2>9. p \in Commits /\ "protected-main" \in Cadences
    BY DEF Commits, Cadences
  <2>10. /\ Grows /\ Len(runs') = Len(runs) + 1 /\ runs'[Len(runs) + 1].sha = p
         /\ runs'[Len(runs) + 1].cadence = "protected-main"
    BY <2>1, <2>9, Begun DEF Knows
  <2>11. Moves
    BY <2>1, <2>6, <2>9, <2>10 DEF Moves, History, Landed
  <2>12. /\ MainRan' /\ Origins' /\ LastDeep' /\ DeepInOrder' /\ MainInOrder'
         /\ MainPasses' /\ GreenIsEarned' /\ OneIncident'
         /\ \A k \in 1 .. Tip : branch[k].run <= Len(runs')
    BY <2>1, <2>10, <2>11, RunsKeepOrder DEF Knows
  <2>13. Tip' = Tip /\ \A v : (Red(v)' <=> Red(v))
    BY <2>1, SameBranch
  <2>14. Typed'
    <3>1. ASSUME NEW q \in Pulls, merged'[q] # None PROVE merged'[q].incident <= Tip
      <4>1. CASE q = p
        BY <2>2, <2>3, <2>5, <2>7, <4>1
      <4>2. CASE q # p
        BY <2>7, <3>1, <4>2 DEF History, Typed
      <4>. QED
        BY <4>1, <4>2
    <3>2. runs' \in Seq(Attempts)
      BY <2>10 DEF Grows
    <3>. QED
      BY <2>1, <2>7, <2>9, <2>12, <2>13, <3>1, <3>2 DEF History, Typed
  <2>15. Landed'
    <3>1. ASSUME NEW i \in 1 .. Len(runs'), runs'[i].sha \in Pulls
          PROVE  merged'[runs'[i].sha] # None
      <4>1. Len(runs) \in Nat /\ (i \in 1 .. Len(runs) \/ i = Len(runs) + 1)
        BY <2>10, Bounds DEF History, Knows
      <4>2. CASE i \in 1 .. Len(runs)
        <5>1. runs'[i].sha = runs[i].sha /\ merged[runs[i].sha] # None
          BY <2>10, <3>1, <4>2 DEF Grows, History, Landed
        <5>. QED
          BY <2>8, <3>1, <5>1
      <4>3. CASE i = Len(runs) + 1
        BY <2>5, <2>7, <2>10, <4>3
      <4>. QED
        BY <4>1, <4>2, <4>3
    <3>2. \A k \in 1 .. Tip : branch[k].sha \in Pulls => merged'[branch[k].sha] # None
      BY <2>8 DEF History, Landed
    <3>. QED
      BY <2>1, <2>5, <2>7, <2>13, <3>1, <3>2 DEF Landed
  <2>16. Bindings'
    <3>1. ASSUME NEW k \in 1 .. Len(asks[p])
          PROVE  IF r.incident = 0
                 THEN \E m \in asks[p][k].incident .. Tip : ~Red(m)
                 ELSE asks[p][k].incident = r.incident
      <4>1. CASE view = Tip /\ ~Red(Tip)
        <5>1. r.incident = 0
          BY <2>2, <2>5, <4>1 DEF History, OneIncident
        <5>2. asks[p][k].incident \in 1 .. Tip
          BY DEF History, Typed
        <5>3. Tip \in asks[p][k].incident .. Tip
          BY <2>2, <5>2
        <5>. QED
          BY <4>1, <5>1, <5>3
      <4>2. CASE /\ Red(view)
                 /\ \A j \in 1 .. Len(asks[p]) : asks[p][j].incident = branch[view].incident
        <5>1. branch[view].incident \in 1 .. view
          BY <2>2, <4>2 DEF History, OneIncident
        <5>. QED
          BY <2>2, <2>5, <4>2, <5>1
      <4>. QED
        BY <2>1, <4>1, <4>2 DEF Knows, AtMerge
    <3>2. ASSUME NEW q \in Pulls, merged'[q] # None, NEW k \in 1 .. Len(asks[q])
          PROVE  IF merged'[q].incident = 0
                 THEN \E m \in asks[q][k].incident .. Tip : ~Red(m)
                 ELSE asks[q][k].incident = merged'[q].incident
      <4>1. CASE q = p
        BY <2>7, <3>1, <4>1
      <4>2. CASE q # p
        <5>1. merged'[q] = merged[q] /\ merged[q] # None
          BY <2>7, <3>2, <4>2
        <5>. QED
          BY <5>1 DEF History, Bindings
      <4>. QED
        BY <4>1, <4>2
    <3>. QED
      BY <2>1, <2>13, <3>2 DEF Bindings
  <2>17. History'
    BY <2>12, <2>14, <2>15, <2>16 DEF History
  <2>18. Looks'
    <3>1. Unseen \in Sightings /\ Unseen' = Unseen
      BY Sights DEF Unseen
    <3>. QED
      BY <2>1, <2>2, <2>13, <3>1 DEF Knows, Looks, EndCycle
  <2>19. AtRuled'
    BY <2>1, HealthAssumption DEF AtRuled, EndCycle
  <2>20. AtMain' /\ AtDeep' /\ AtResolve' /\ AtMerge'
    BY <2>1 DEF AtMain, AtDeep, AtResolve, AtMerge, EndCycle
  <2>. QED
    BY <2>17, <2>18, <2>19, <2>20 DEF Knows
<1>. QED
  BY <1>1, <1>2

LEMMA ConvergeKeeps ==
  ASSUME History, Knows, Converge PROVE History' /\ Knows'
<1>1. lag' = FALSE /\ UNCHANGED <<main, runs, asks, merged, branch, pc, view, seen, queue, faults>>
  BY DEF Converge, Elsewhere, Outside, github, local
<1>2. /\ Tip' = Tip /\ Unseen' = Unseen
      /\ \A v : (Red(v)' <=> Red(v)) /\ Recorded(v)' = Recorded(v)
      /\ \A v, sha, c : Results(v, sha, c)' = Results(v, sha, c)
      /\ \A v, sha, c : Passes(v, sha, c)' <=> Passes(v, sha, c)
  BY <1>1, SameBranch DEF Unseen
<1>3. History'
  BY <1>1, HistoryStays DEF github
<1>4. Looks' /\ AtMain' /\ AtDeep' /\ AtRuled'
  BY <1>1, <1>2 DEF Knows, Looks, AtMain, AtDeep, AtRuled, IsMain, IsDeep, Ruled
<1>5. AtResolve' /\ AtMerge'
  BY <1>1, <1>2 DEF Knows, AtResolve, AtMerge, IsDeep
<1>. QED
  BY <1>3, <1>4, <1>5 DEF Knows

LEMMA StopKeeps ==
  ASSUME History, Knows, AwaitTimesOut \/ Crash PROVE History' /\ Knows'
<1>1. /\ EndCycle /\ UNCHANGED <<github, branch, lag>> /\ faults < MaxFaults
      /\ faults' = faults + 1
  BY DEF AwaitTimesOut, Crash
<1>2. faults' \in 0 .. MaxFaults
  BY <1>1, HealthAssumption DEF Knows, Looks
<1>. QED
  BY <1>1, <1>2, EndKnows, HistoryStays

LEMMA LookKeepsHistory ==
  ASSUME History,
         \/ SelectRuns \/ ConfirmRuns \/ Compare \/ AwaitMain \/ ListDeep \/ AwaitDeep
         \/ ReadRepair \/ AwaitRepair \/ (\E p \in Pulls : Seal(p))
  PROVE  History'
<1>1. UNCHANGED <<github, branch>>
  <2>1. CASE SelectRuns \/ ConfirmRuns \/ Compare
    BY <2>1 DEF SelectRuns, ConfirmRuns, Compare, Raise
  <2>2. CASE AwaitMain \/ AwaitRepair \/ AwaitDeep
    BY <2>2 DEF AwaitMain, AwaitRepair, AwaitDeep, Converged
  <2>3. CASE ListDeep \/ ReadRepair \/ (\E p \in Pulls : Seal(p))
    BY <2>3 DEF ListDeep, ReadRepair, Seal, Raise
  <2>. QED
    BY <2>1, <2>2, <2>3
<1>. QED
  BY <1>1, HistoryStays

LEMMA NextKeeps ==
  ASSUME IInv, History, Knows, Next PROVE History' /\ Knows'
<1>1. CASE SelectRuns \/ ConfirmRuns \/ Compare
  BY <1>1, SelectKnows, ConfirmKnows, CompareKnows, LookKeepsHistory
<1>2. CASE AwaitMain \/ ListDeep \/ AwaitDeep \/ ReadRepair \/ AwaitRepair
  BY <1>2, ConvergedKnows, ListKnows, AwaitDeepKnows, ReadRepairKnows, LookKeepsHistory
<1>3. CASE AppendMain \/ RecordDeep \/ Resolve
  BY <1>3, AppendKeeps, RecordKeeps, ResolveKeeps
<1>4. ASSUME NEW p \in Pulls, Seal(p) PROVE History' /\ Knows'
  BY <1>4, SealKnows, LookKeepsHistory
<1>5. ASSUME NEW p \in Pulls, Merge(p) PROVE History' /\ Knows'
  BY <1>5, MergeKeeps
<1>6. CASE PullsDone \/ AwaitTimesOut \/ Crash
  BY <1>6, RaiseKeeps, StopKeeps DEF PullsDone
<1>7. CASE Converge \/ Drift
  BY <1>7, ConvergeKeeps, DriftKeeps
<1>8. ASSUME NEW c \in Deep, Dispatch(c) PROVE History' /\ Knows'
  BY <1>8, DispatchKeeps
<1>9. ASSUME NEW i \in 1 .. Len(runs), Rerun(i) \/ EndRun(i) PROVE History' /\ Knows'
  BY <1>9, RerunKeeps, EndRunKeeps
<1>10. ASSUME NEW p \in Pulls, Ask(p) PROVE History' /\ Knows'
  BY <1>10, AskKeeps
<1>11. ASSUME NEW p \in Pulls, NEW k \in 1 .. Len(asks[p]), Expire(p, k) PROVE History' /\ Knows'
  BY <1>11, ExpireKeeps
<1>. QED
  BY <1>1, <1>2, <1>3, <1>4, <1>5, <1>6, <1>7, <1>8, <1>9, <1>10, <1>11 DEF Next, Broker

LEMMA StutterKeeps ==
  ASSUME History, Knows, UNCHANGED vars PROVE History' /\ Knows'
<1>1. UNCHANGED <<main, runs, asks, merged, branch, lag, pc, view, seen, queue, faults>>
  BY DEF vars, github, local
<1>2. /\ Tip' = Tip /\ Unseen' = Unseen
      /\ \A v : (Red(v)' <=> Red(v)) /\ Recorded(v)' = Recorded(v)
      /\ \A v, sha, c : Results(v, sha, c)' = Results(v, sha, c)
      /\ \A v, sha, c : Passes(v, sha, c)' <=> Passes(v, sha, c)
  BY <1>1, SameBranch DEF Unseen
<1>3. History'
  BY <1>1, HistoryStays DEF github
<1>4. Looks' /\ AtMain' /\ AtDeep' /\ AtRuled'
  BY <1>1, <1>2 DEF Knows, Looks, AtMain, AtDeep, AtRuled, IsMain, IsDeep, Ruled
<1>5. AtResolve' /\ AtMerge'
  BY <1>1, <1>2 DEF Knows, AtResolve, AtMerge, IsDeep
<1>. QED
  BY <1>3, <1>4, <1>5 DEF Knows

LEMMA InitKnows ==
  ASSUME Init PROVE History /\ Knows
<1>. DEFINE a == Attempt("protected-main", Start, "success")
            e == Entry("protected-main", 1, Start, "success", "green", 0, Start)
<1>1. /\ a \in Attempts /\ a.cadence = "protected-main" /\ a.sha = Start /\ a.last
      /\ a.status = "success"
  BY DEF Attempt, Attempts, Cadences, Commits
<1>2. /\ e \in Entries /\ e.cadence = "protected-main" /\ e.run = 1 /\ e.sha = Start
      /\ e.result = "success" /\ e.status = "green" /\ e.incident = 0 /\ e.good = Start
  BY DEF Entry, Entries, Cadences, Commits
<1>3. /\ main = Start /\ runs = <<a>> /\ branch = <<e>>
      /\ asks = [p \in Pulls |-> <<>>] /\ merged = [p \in Pulls |-> None]
      /\ lag = FALSE /\ pc = "idle" /\ view = 0 /\ seen = Unseen /\ queue = {} /\ faults = 0
  BY DEF Init
<1>. HIDE DEF a, e
<1>4. /\ Tip = 1 /\ branch[1] = e /\ 1 .. Tip = {1} /\ branch \in Seq(Entries)
      /\ Len(runs) = 1 /\ runs[1] = a /\ 1 .. Len(runs) = {1} /\ runs \in Seq(Attempts)
  BY <1>1, <1>2, <1>3 DEF Tip
<1>5. Start \notin Pulls /\ Start # Alien /\ Start \in Commits
      /\ "protected-main" \notin Deep /\ "repair-resolution" \notin Deep
  BY HealthAssumption DEF Commits
<1>6. Typed
  <2>1. asks \in [Pulls -> Seq(Requests)] /\ \A p \in Pulls : Len(asks[p]) = 0
    BY <1>3
  <2>2. merged \in [Pulls -> Merges \cup {None}] /\ \A p \in Pulls : merged[p] = None
    BY <1>3
  <2>. QED
    BY <1>2, <1>3, <1>4, <1>5, <2>1, <2>2 DEF Typed
<1>7. OneIncident /\ ~Red(Tip)
  BY <1>2, <1>4 DEF OneIncident, Red
<1>8. MainRan /\ LastDeep
  <2>1. \A j \in 1 + 1 .. 1 : FALSE
    OBVIOUS
  <2>. QED
    BY <1>1, <1>3, <1>4, <1>5, <2>1 DEF MainRan, LastDeep, IsMain, IsDeep
<1>9. Origins
  BY <1>1, <1>2, <1>4 DEF Origins
<1>10. Landed
  BY <1>1, <1>2, <1>3, <1>4, <1>5 DEF Landed
<1>11. DeepInOrder /\ MainInOrder
  <2>1. \A j \in 1 .. 1 - 1 : FALSE
    OBVIOUS
  <2>. QED
    BY <1>2, <1>3, <1>4, <1>5, <2>1 DEF DeepInOrder, MainInOrder
<1>12. Bindings
  BY <1>3 DEF Bindings
<1>13. \A c : Results(Tip, Start, c) # {} => Passes(Tip, Start, c)
  BY <1>2, <1>4 DEF Results, Passes
<1>14. Results(Tip, Start, "protected-main") # {}
  BY <1>2, <1>4 DEF Results
<1>15. MainPasses /\ GreenIsEarned
  BY <1>2, <1>3, <1>4, <1>13, <1>14 DEF MainPasses, GreenIsEarned
<1>16. Looks
  <2>1. faults \in 0 .. MaxFaults /\ lag \in BOOLEAN /\ view \in 0 .. Tip
    <3>1. MaxFaults \in Nat
      BY HealthAssumption
    <3>2. faults = 0 /\ view = 0 /\ Tip = 1
      BY <1>3, <1>4
    <3>3. lag \in BOOLEAN
      BY <1>3
    <3>. QED
      BY <3>1, <3>2, <3>3
  <2>2. queue \subseteq 1 .. Len(runs) /\ seen \in Sightings
    BY <1>3, Sights
  <2>. QED
    BY <1>3, <2>1, <2>2 DEF Looks
<1>17. AtMain /\ AtDeep /\ AtRuled /\ AtResolve /\ AtMerge
  BY <1>3, <1>5 DEF AtMain, AtDeep, AtRuled, AtResolve, AtMerge
<1>. QED
  BY <1>6, <1>7, <1>8, <1>9, <1>10, <1>11, <1>12, <1>15, <1>16, <1>17 DEF History, Knows

--------------------------------------------------------------------------------
(* The theorems *)

\* Only what is pushed changes the branch, and only a merge what is merged.
LEMMA Changes ==
  ASSUME Next
  PROVE  /\ UNCHANGED branch \/ AppendMain \/ RecordDeep \/ Resolve
         /\ UNCHANGED merged \/ \E p \in Pulls : Merge(p)
<1>1. CASE SelectRuns \/ ConfirmRuns \/ Compare
  BY <1>1 DEF SelectRuns, ConfirmRuns, Compare, Raise, github
<1>2. CASE AppendMain \/ RecordDeep \/ Resolve
  BY <1>2 DEF AppendMain, RecordDeep, Resolve, Push, Raise, github
<1>3. CASE AwaitMain \/ AwaitRepair \/ AwaitDeep
  BY <1>3 DEF AwaitMain, AwaitRepair, AwaitDeep, Converged, github
<1>4. CASE ListDeep \/ ReadRepair \/ PullsDone
  BY <1>4 DEF ListDeep, ReadRepair, PullsDone, Raise, github
<1>5. ASSUME NEW p \in Pulls, Seal(p) \/ Merge(p)
      PROVE  UNCHANGED branch /\ (UNCHANGED merged \/ Merge(p))
  BY <1>5 DEF Seal, Merge, Raise, github
<1>6. CASE AwaitTimesOut \/ Converge \/ Drift \/ Crash
  BY <1>6 DEF AwaitTimesOut, Converge, Drift, Crash, Elsewhere, Outside, github
<1>7. ASSUME NEW c, NEW i, NEW p, NEW k,
             Dispatch(c) \/ Rerun(i) \/ EndRun(i) \/ Ask(p) \/ Expire(p, k)
      PROVE  UNCHANGED <<branch, merged>>
  BY <1>7 DEF Dispatch, Rerun, EndRun, Ask, Expire, Elsewhere, Outside
<1>. QED
  BY <1>1, <1>2, <1>3, <1>4, <1>5, <1>6, <1>7 DEF Next, Broker

\* Nothing that is ingested ends red.
LEMMA RedStays ==
  ASSUME IInv, view = Tip, Red(Tip), NEW c, NEW run, NEW sha, NEW result,
         branch' = Append(branch, Ingested(c, run, sha, result))
  PROVE  Red(Tip)'
<1>. DEFINE e == Ingested(c, run, sha, result)
<1>1. e.status = "red"
  BY DEF Ingested, Entry
<1>. HIDE DEF e
<1>2. Tip' = Tip + 1 /\ branch'[Tip + 1] = e
  BY Appended DEF IInv, Tip, e
<1>. QED
  BY <1>1, <1>2 DEF Red

LEMMA OnlyRepairsEndRed ==
  ASSUME IInv, History, Knows, Next, Red(Tip), ~Red(Tip)'
  PROVE  LET p == branch'[Len(branch')].sha IN
         /\ p \in Pulls /\ merged[p] # None /\ merged[p].incident = branch[Tip].incident
         /\ \A c \in Cadences : Passes(Tip, p, c)
<1>1. CASE UNCHANGED branch
  BY <1>1 DEF Red, Tip
<1>2. CASE AppendMain
  <2>1. view = Tip =>
          branch' = Append(branch, Ingested("protected-main", seen.run, seen.sha, seen.result))
    BY <1>2 DEF AppendMain, Push, Tip
  <2>2. view # Tip => UNCHANGED branch
    BY <1>2 DEF AppendMain, Push, Raise, Tip
  <2>. QED
    BY <1>1, <2>1, <2>2, RedStays
<1>3. CASE RecordDeep
  <2>1. PICK i : Raise \/ Push(Ingested(runs[i].cadence, i, runs[i].sha,
                                 IF runs[i].status = "success" THEN "success" ELSE "failure"),
                               "awaitDeep")
    BY <1>3 DEF RecordDeep
  <2>. DEFINE e == Ingested(runs[i].cadence, i, runs[i].sha,
                            IF runs[i].status = "success" THEN "success" ELSE "failure")
  <2>2. UNCHANGED branch \/ (view = Tip /\ branch' = Append(branch, e))
    <3>. HIDE DEF e
    <3>1. Raise \/ Push(e, "awaitDeep")
      BY <2>1 DEF e
    <3>. QED
      BY <3>1 DEF Push, Raise, Tip
  <2>. QED
    BY <1>1, <2>2, RedStays
<1>4. CASE Resolve
  <2>1. CASE view # Tip
    BY <1>1, <1>4, <2>1 DEF Resolve, Push, Raise, Tip
  <2>2. CASE view = Tip
    <3>. DEFINE e == Entry("repair-resolution", 0, seen.sha, "success", "green", 0, seen.sha)
    <3>1. branch' = Append(branch, e) /\ pc = "resolve"
      BY <1>4, <2>2 DEF Resolve, Push, Tip
    <3>2. e.sha = seen.sha
      BY DEF Entry
    <3>. HIDE DEF e
    <3>3. branch'[Len(branch')] = e
      BY <3>1, Appended DEF IInv
    <3>. DEFINE p == seen.sha
    <3>4. /\ p \in Pulls /\ merged[p] # None /\ asks[p] # <<>>
          /\ \A k \in 1 .. Len(asks[p]) : asks[p][k].incident = branch[Tip].incident
          /\ \A c \in Cadences : Passes(Tip, p, c)
      BY <2>2, <3>1 DEF Knows, AtResolve
    <3>. HIDE DEF p
    <3>5. 1 \in 1 .. Len(asks[p])
      BY <3>4 DEF History, Typed
    <3>6. /\ Tip \in Nat /\ Tip \in 1 .. Tip
          /\ \A m \in branch[Tip].incident .. Tip : Red(m)
      BY Bounds DEF History, Knows, OneIncident
    <3>7. merged[p].incident = branch[Tip].incident
      BY <3>4, <3>5, <3>6 DEF History, Bindings
    <3>. QED
      BY <3>2, <3>3, <3>4, <3>7 DEF p
  <2>. QED
    BY <2>1, <2>2
<1>. QED
  BY <1>1, <1>2, <1>3, <1>4, Changes

LEMMA MergesNeedEvidence ==
  ASSUME History, Knows, Next, NEW p \in Pulls, merged[p] = None, merged'[p] # None
  PROVE  \/ AskedFor(p)
         \/ /\ ~Red(Tip) /\ DeepSettled
            /\ \A c \in Cadences : Results(Tip, main, c) # {} => Passes(Tip, main, c)
<1>1. PICK q \in Pulls : Merge(q)
  BY Changes
<1>2. main = seen.sha /\ p = q /\ pc = "merge" /\ seen.result = p
  <2>1. main = seen.sha
    BY <1>1 DEF Merge, Raise, github
  <2>2. merged' = [merged EXCEPT ![q] = [incident |-> branch[view].incident,
                     inForce |-> \A k \in 1 .. Len(asks[q]) : asks[q][k].inForce]]
    BY <1>1, <2>1 DEF Merge
  <2>3. merged \in [Pulls -> Merges \cup {None}]
    BY DEF History, Typed
  <2>4. q # p => merged'[p] = merged[p]
    BY <2>2, <2>3
  <2>. QED
    BY <1>1, <2>1, <2>4 DEF Merge
<1>3. CASE /\ view = Tip /\ ~Red(Tip)
           /\ \A i \in 1 .. seen.run : IsDeep(i) =>
                /\ i \in Recorded(Tip)
                /\ runs[i].sha = seen.sha /\ runs[i].last => runs[i].status = "success"
  BY <1>2, <1>3 DEF DeepSettled, IsDeep, History, MainPasses
<1>4. CASE /\ Red(view) /\ asks[p] # <<>>
           /\ \A k \in 1 .. Len(asks[p]) : asks[p][k].incident = branch[view].incident
  <2>1. view \in 1 .. Tip /\ view >= Tip - 1
    BY <1>2, Bounds DEF History, Knows, Looks, AtMerge
  <2>. QED
    BY <1>4, <2>1 DEF AskedFor
<1>. QED
  BY <1>2, <1>3, <1>4 DEF Knows, AtMerge

\* At every state.
LEMMA Always == Spec => [](IInv /\ History /\ Knows)
<1>1. Init => IInv
  BY DEF Init, IInv, Awaiting, RecordedOnce, Repeats, Tip
<1>2. Init => History /\ Knows
  BY InitKnows
<1>3. IInv /\ History /\ Knows /\ [Next]_vars => (IInv /\ History /\ Knows)'
  BY StepKeeps, OutsideKeeps, NextKeeps, StutterKeeps DEF vars
<1>. QED
  BY <1>1, <1>2, <1>3, PTL DEF Spec

LEMMA Retyped ==
  ASSUME NEW S, NEW T, NEW s \in Seq(S), \A k \in 1 .. Len(s) : s[k] \in T PROVE s \in Seq(T)
OBVIOUS

\* The variables have their types, whatever the number of attempts, pulls and faults.
THEOREM TypeCorrect == Spec => []TypeOK
<1>1. History /\ Knows => TypeOK
  <2>. SUFFICES ASSUME History, Knows PROVE TypeOK
    OBVIOUS
  <2>. DEFINE E == [cadence : Cadences \cup {"repair-resolution"}, run : 0 .. Len(runs),
                    sha : Commits, result : {"success", "failure"}, status : {"green", "red"},
                    incident : 0 .. Tip, good : Commits]
              R == [incident : 1 .. Tip, generation : 1 .. Tip, base : Commits, inForce : BOOLEAN]
  <2>1. /\ Len(runs) \in Nat /\ Tip \in Nat
        /\ \A k \in 1 .. Tip : branch[k] \in Entries /\ branch[k].run \in 0 .. Len(runs)
    BY Bounds DEF History, Knows
  <2>2. ASSUME NEW k \in 1 .. Tip PROVE branch[k] \in E
    <3>1. branch[k].incident \in 0 .. Tip
      BY <2>1 DEF History, OneIncident
    <3>. QED
      BY <2>1, <3>1 DEF Entries
  <2>3. branch \in Seq(E)
    <3>. HIDE DEF E
    <3>. QED
      BY <2>2, Retyped DEF History, Typed, Tip
  <2>4. ASSUME NEW p \in Pulls PROVE asks[p] \in Seq(R)
    <3>1. ASSUME NEW k \in 1 .. Len(asks[p]) PROVE asks[p][k] \in R
      <4>1. asks[p][k] \in Requests
        BY DEF History, Typed
      <4>2. asks[p][k].incident \in 1 .. Tip /\ asks[p][k].generation \in 1 .. Tip
        BY DEF History, Typed
      <4>. QED
        BY <4>1, <4>2 DEF Requests
    <3>. HIDE DEF R
    <3>. QED
      BY <3>1, Retyped DEF History, Typed
  <2>5. asks \in [Pulls -> Seq(R)]
    <3>. HIDE DEF R
    <3>. QED
      BY <2>4 DEF History, Typed
  <2>6. \A p \in Pulls : merged[p] # None => merged[p].incident \in 0 .. Tip
    BY <2>1 DEF History, Typed, Merges
  <2>7. main \in Commits /\ runs \in Seq([cadence : Cadences, sha : Commits,
                                 status : {"active", "success", "failure"}, last : BOOLEAN])
    BY DEF History, Typed, Attempts
  <2>8. /\ lag \in BOOLEAN /\ faults \in 0 .. MaxFaults
        /\ view \in 0 .. Tip /\ queue \subseteq 1 .. Len(runs)
        /\ pc = "idle" => view = 0 /\ seen = Unseen /\ queue = {}
    BY DEF Knows, Looks
  <2>. QED
    BY <2>3, <2>5, <2>6, <2>7, <2>8 DEF TypeOK
<1>. QED
  BY <1>1, Always, PTL

\* Green is earned, as long as nobody goes past the rulesets: what ends red, and what comes
\* after it, is evidence for the commit main is at (ingest and resolve of
\* tools/stop_the_line.py, reconcile_main and reconcile_deep of tools/main_health_broker.py).
THEOREM GreenEarned == Spec => []GreenIsEarned
<1>1. History => GreenIsEarned
  BY DEF History
<1>. QED
  BY <1>1, Always, PTL

\* Red ends only with a pull that was merged for the open incident and passes, whatever was
\* asked for, merged or pushed between the broker's look and its push (_reconcile_repair of
\* tools/main_health_broker.py, resolve of tools/stop_the_line.py).
THEOREM RedEndsRepaired == Spec => RedUntilRepaired
<1>1. IInv /\ History /\ Knows /\ [Next]_vars =>
        (Red(Tip) /\ ~Red(Tip)' =>
           LET p == branch'[Len(branch')].sha IN
           /\ p \in Pulls /\ merged[p] # None /\ merged[p].incident = branch[Tip].incident
           /\ \A c \in Cadences : Passes(Tip, p, c))
  BY OnlyRepairsEndRed DEF vars, Red, Tip
<1>. QED
  BY <1>1, Always, PTL DEF Spec, RedUntilRepaired

\* What is merged was asked for as a repair of an incident that a read may still show, or
\* rests on every cadence: a stale read of a green state is never enough
\* (verify_current_health and select_repair_admission of tools/main_health_broker.py).
THEOREM MergesOnEvidence == Spec => MergedOnEvidence
<1>1. IInv /\ History /\ Knows /\ [Next]_vars =>
        \A p \in Pulls : merged[p] = None /\ merged'[p] # None =>
          \/ AskedFor(p)
          \/ /\ ~Red(Tip) /\ DeepSettled
             /\ \A c \in Cadences : Results(Tip, main, c) # {} => Passes(Tip, main, c)
  BY MergesNeedEvidence DEF vars, github
<1>. QED
  BY <1>1, Always, PTL DEF Spec, MergedOnEvidence

================================================================================
