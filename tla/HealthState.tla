------------------------------ MODULE HealthState ------------------------------
(***************************************************************************)
(* The health of main: what the main-health broker observes of the         *)
(* workflow runs on main, records on a protected branch, and lets decide   *)
(* whether anything is merged.  A failure turns the state red; red ends    *)
(* only with a merged repair whose evidence passes.                        *)
(* tools/main_health_broker.py: StateBranch, HealthReconciler and          *)
(* Broker._reconcile_repair; tools/stop_the_line.py: ingest and resolve.   *)
(*                                                                         *)
(* A protected-main attempt stands for one selection of CI, Documentation  *)
(* and CodeQL attempts, which share an identity; a rerun of any of them is *)
(* another attempt.  Deep runs go one at a time, so they end in the order  *)
(* in which they began.  The branch is its history, an entry holding the   *)
(* state it led to; a commit adds one entry, and a read may still see the  *)
(* branch as it was before the last push (lag).  Reviews are left out but  *)
(* for the repair requests, and so is the lease, for it does not touch     *)
(* what is here; a merge is a step, for module MergeAdmission has its      *)
(* parts.                                                                  *)
(***************************************************************************)
EXTENDS Naturals, Sequences, FiniteSets

CONSTANTS
  Pulls,      \* pull requests; a merged one stands for its merge commit
  Deep,       \* cadences of the deep runs
  None,       \* no value
  Start,      \* the commit main is at first
  Alien,      \* a commit put on main past the rulesets
  MaxRuns,    \* bound: attempts on GitHub
  MaxAsks,    \* bound: repair requests on a pull
  MaxFaults   \* bound: cycles that end early, and changes of main past the rulesets

ASSUME HealthAssumption ==
  /\ MaxRuns \in Nat \ {0} /\ MaxAsks \in Nat /\ MaxFaults \in Nat
  /\ IsFiniteSet(Pulls) /\ {Start, Alien, None} \cap Pulls = {}
  /\ Start # Alien /\ None \notin {Start, Alien}
  /\ {"protected-main", "repair-resolution"} \cap Deep = {}
  /\ None \notin [incident : Nat, inForce : BOOLEAN]

VARIABLES
  \* GitHub
  main,     \* the commit of refs/heads/main
  runs,     \* attempts, in the order they began
  asks,     \* repair requests among the reviews of a pull
  merged,   \* merged pulls: under which incident, and with every request of theirs in force
  branch,   \* the entries of the state branch
  lag,      \* reads may miss the last push
  \* the broker
  pc,
  view,     \* how many entries it has read
  seen,     \* the commit and attempt it looks at
  queue,    \* deep attempts it still has to record
  faults

github  == <<main, runs, asks, merged>>
local   == <<view, seen, queue>>
vars    == <<github, branch, lag, pc, local, faults>>

Commits  == Pulls \cup {Start, Alien}
Cadences == Deep \cup {"protected-main"}
Unseen   == [sha |-> None, run |-> 0, result |-> None]

Entry(cadence, run, sha, result, status, incident, good) ==
  [cadence |-> cadence, run |-> run, sha |-> sha, result |-> result,
   status |-> status, incident |-> incident, good |-> good]

\* last: no rerun of it has begun.
Attempt(cadence, sha, status) ==
  [cadence |-> cadence, sha |-> sha, status |-> status, last |-> TRUE]

Init ==
  /\ main = Start /\ runs = <<Attempt("protected-main", Start, "success")>>
  /\ branch = <<Entry("protected-main", 1, Start, "success", "green", 0, Start)>>
  /\ asks = [p \in Pulls |-> <<>>] /\ merged = [p \in Pulls |-> None]
  /\ lag = FALSE /\ pc = "idle" /\ view = 0 /\ seen = Unseen /\ queue = {}
  /\ faults = 0

-------------------------------------------------------------------------------
(* The state branch *)

Readable == {Len(branch)} \cup {v \in {Len(branch) - 1} : lag}

Red(v)      == branch[v].status = "red"
Recorded(v) == {branch[k].run : k \in 1 .. v} \ {0}

\* read_with_result_identities and read_with_deep_identities refuse a repeated attempt.
Repeats(v)  ==
  \E k \in 1 .. v : \E j \in 1 .. k - 1 : branch[j].run = branch[k].run /\ branch[k].run # 0

Results(v, sha, cadence) == {k \in 1 .. v : branch[k].sha = sha /\ branch[k].cadence = cadence}

\* The last recorded result of the cadence for this commit is a success.
Passes(v, sha, cadence) ==
  \E k \in Results(v, sha, cadence) :
    branch[k].result = "success" /\ \A j \in Results(v, sha, cadence) : j <= k

EndCycle == pc' = "idle" /\ view' = 0 /\ seen' = Unseen /\ queue' = {}

Raise == EndCycle /\ UNCHANGED <<github, branch, lag, faults>>

\* Defect: a refused push is made again on the newest generation.
PushAgain(entry, next) ==
  /\ branch' = Append(branch, entry) /\ lag' = TRUE /\ pc' = next
  /\ UNCHANGED <<github, local, faults>>

\* append and resolve_repair: the branch is checked out at the generation that was read, the
\* commit is made on it, and pushed.  Only a fast-forward is accepted.
Push(entry, next) ==
  IF view = Len(branch)
  THEN /\ branch' = Append(branch, entry) /\ lag' = TRUE /\ pc' = next
       /\ UNCHANGED <<github, local, faults>>
  ELSE Raise

\* Defect: a success clears red.
IngestedGreen(cadence, run, sha, result) ==
  Entry(cadence, run, sha, result, IF result = "success" THEN "green" ELSE "red",
        IF result = "success" THEN 0 ELSE view + 1, sha)

\* ingest
Ingested(cadence, run, sha, result) ==
  LET state == branch[view] IN
  Entry(cadence, run, sha, result,
        IF result # "success" \/ Red(view) THEN "red" ELSE "green",
        IF result # "success" /\ ~Red(view) THEN view + 1 ELSE state.incident,
        IF result = "success" /\ ~Red(view) THEN sha ELSE state.good)

\* _await_state_ref_convergence and the read-back: here, or never in time.
Converged(next) ==
  /\ lag' = FALSE /\ pc' = next /\ view' = view + 1 /\ seen' = Unseen
  /\ UNCHANGED <<github, branch, queue, faults>>

AwaitTimesOut ==
  pc \in {"awaitMain", "awaitDeep", "awaitRepair"} /\ lag /\ faults < MaxFaults
  /\ EndCycle /\ faults' = faults + 1 /\ UNCHANGED <<github, branch, lag>>

-------------------------------------------------------------------------------
(* reconcile_main *)

\* The attempt of protected main that is looked at.
Newest(sha) ==
  CHOOSE i \in 1 .. Len(runs) :
    /\ runs[i].cadence = "protected-main" /\ runs[i].sha = sha
    /\ \A j \in i + 1 .. Len(runs) : runs[j].cadence # "protected-main" \/ runs[j].sha # sha

\* The first look of a cycle.  While CI is active, or Documentation or CodeQL are and CI began
\* less than 15 minutes ago, the cycle ends at once.
SelectRuns ==
  LET i == Newest(main) IN
  /\ pc = "idle" /\ pc' = "confirm"
  /\ seen' = [sha |-> main, run |-> i,
              result |-> IF runs[i].status = "success" THEN "success" ELSE "failure"]
  /\ UNCHANGED <<github, branch, lag, view, queue, faults>>

\* The selection is fetched again; a changed one is retained as a failure.
ConfirmRuns ==
  /\ pc = "confirm"
  /\ IF main = seen.sha
     THEN /\ seen' = IF Newest(main) = seen.run THEN seen
                     ELSE [seen EXCEPT !.run = Newest(main), !.result = "failure"]
          /\ pc' = "compare" /\ UNCHANGED <<github, branch, lag, view, queue, faults>>
     ELSE Raise

Compare ==
  /\ pc = "compare"
  /\ \E v \in Readable :
       IF Repeats(v) \/ (seen.run \in Recorded(v) /\ ~Red(v) /\ seen.result # "success")
       THEN Raise
       ELSE /\ IF seen.run \in Recorded(v) THEN pc' = "deep" /\ seen' = Unseen
                                            ELSE pc' = "appendMain" /\ UNCHANGED seen
            /\ view' = v
            /\ UNCHANGED <<github, branch, lag, queue, faults>>

AppendMain ==
  /\ pc = "appendMain"
  /\ Push(Ingested("protected-main", seen.run, seen.sha, seen.result), "awaitMain")

AwaitMain == pc = "awaitMain" /\ Converged("deep")

-------------------------------------------------------------------------------
(* reconcile_deep *)

Unrecorded(v) == {i \in 1 .. Len(runs) : runs[i].cadence \in Deep} \ Recorded(v)

ListDeep ==
  /\ pc = "deep"
  /\ \E v \in Readable :
       IF Repeats(v) \/ \E i \in Unrecorded(v) : runs[i].sha = main /\ runs[i].status = "active"
       THEN Raise
       ELSE /\ queue' = Unrecorded(v) /\ seen' = [Unseen EXCEPT !.sha = main] /\ view' = v
            /\ pc' = IF Unrecorded(v) = {} THEN "repair" ELSE "record"
            /\ UNCHANGED <<github, branch, lag, faults>>

RecordDeep ==
  /\ pc = "record"
  /\ \E i \in queue :
       /\ \A j \in queue : i <= j
       /\ IF runs[i].sha = seen.sha
          THEN Push(Ingested(runs[i].cadence, i, runs[i].sha,
                             IF runs[i].status = "success" THEN "success" ELSE "failure"),
                    "awaitDeep")
          ELSE Raise

AwaitDeep ==
  /\ pc = "awaitDeep"
  /\ queue' = queue \ Recorded(Len(branch))
  /\ lag' = FALSE /\ view' = view + 1
  /\ pc' = IF queue' = {} THEN "repair" ELSE "record"
  /\ UNCHANGED <<github, branch, seen, faults>>

-------------------------------------------------------------------------------
(* _reconcile_repair *)

\* main is a merged pull with repair requests, and every cadence passes.
Repaired(v) ==
  /\ main \in Pulls /\ asks[main] # <<>>
  /\ \A c \in Cadences : Passes(v, main, c)

\* _merged_repair_binding: every repair request of the pull is for the open incident, and was
\* in force when the pull was merged.
Bound(v) ==
  /\ merged[main].inForce
  /\ \A k \in 1 .. Len(asks[main]) :
       asks[main][k].incident = branch[v].incident /\ asks[main][k].generation <= v

ReadRepair ==
  /\ pc = "repair"
  /\ \E v \in Readable :
       IF Red(v) /\ Repaired(v) /\ ~Bound(v) THEN Raise
       ELSE /\ IF Red(v) /\ Repaired(v)
               THEN pc' = "resolve" /\ seen' = [Unseen EXCEPT !.sha = main]
               ELSE pc' = "pulls" /\ seen' = Unseen
            /\ view' = v
            /\ UNCHANGED <<github, branch, lag, queue, faults>>

\* resolve
Resolve ==
  /\ pc = "resolve"
  /\ Push(Entry("repair-resolution", 0, seen.sha, "success", "green", 0, seen.sha), "awaitRepair")

AwaitRepair == pc = "awaitRepair" /\ Converged("pulls")

-------------------------------------------------------------------------------
(* Merging *)

\* Defect: attempts that are not recorded yet are not looked for.
HealthVerifiedLoosely(v) ==
  LET i == Newest(main) IN
  /\ ~Red(v) /\ branch[v].good = main
  /\ i \in Recorded(v) /\ runs[i].status = "success"

\* _validate_state_for_admission and verify_current_health; of a deep run only the last
\* attempt is listed.
HealthVerified(v) ==
  LET i == Newest(main) IN
  /\ ~Red(v) /\ branch[v].good = main
  /\ i \in Recorded(v) /\ runs[i].status = "success"
  /\ \A j \in 1 .. Len(runs) : runs[j].cadence \in Deep /\ runs[j].last
       => j \in Recorded(v) /\ (runs[j].sha = main => runs[j].status = "success")

\* select_repair_admission: every repair request of the pull is for this incident,
\* generation and base, and the newest one is in force.
RepairAdmitted(p, v) ==
  /\ Red(v) /\ asks[p] # <<>> /\ asks[p][Len(asks[p])].inForce
  /\ \A k \in 1 .. Len(asks[p]) :
       asks[p][k].incident = branch[v].incident /\ asks[p][k].generation = v
       /\ asks[p][k].base = main

Seal(p) ==
  /\ pc = "pulls" /\ merged[p] = None
  /\ \E v \in Readable :
       /\ HealthVerified(v) \/ RepairAdmitted(p, v)
       /\ view' = v
  /\ seen' = [sha |-> main, run |-> Len(runs), result |-> p] /\ pc' = "merge"
  /\ UNCHANGED <<github, branch, lag, queue, faults>>

\* GitHub merges if main is still the base, and CI begins on the merge commit.
Merge(p) ==
  /\ pc = "merge" /\ seen.result = p
  /\ IF main = seen.sha
     THEN /\ main' = p /\ runs' = Append(runs, Attempt("protected-main", p, "active"))
          /\ merged' = [merged EXCEPT ![p] =
                          [incident |-> branch[view].incident,
                           inForce  |-> \A k \in 1 .. Len(asks[p]) : asks[p][k].inForce]]
          /\ EndCycle /\ UNCHANGED <<asks, branch, lag, faults>>
     ELSE Raise

PullsDone == pc = "pulls" /\ Raise

-------------------------------------------------------------------------------
(* GitHub and the people *)

Outside   == UNCHANGED <<branch, pc, local>>
Elsewhere == Outside /\ UNCHANGED faults

Dispatch(c) ==
  /\ Len(runs) < MaxRuns /\ runs' = Append(runs, Attempt(c, main, "active"))
  /\ UNCHANGED <<main, asks, merged, lag>> /\ Elsewhere

Rerun(i) ==
  /\ Len(runs) < MaxRuns /\ runs[i].status # "active" /\ runs[i].last
  /\ runs' = Append([runs EXCEPT ![i].last = FALSE],
                    Attempt(runs[i].cadence, runs[i].sha, "active"))
  /\ UNCHANGED <<main, asks, merged, lag>> /\ Elsewhere

\* Deep runs are one concurrency group.
EndRun(i) ==
  /\ runs[i].status = "active"
  /\ runs[i].cadence \in Deep
       => \A j \in 1 .. i - 1 : runs[j].cadence \in Deep => runs[j].status # "active"
  /\ \E result \in {"success", "failure"} : runs' = [runs EXCEPT ![i].status = result]
  /\ UNCHANGED <<main, asks, merged, lag>> /\ Elsewhere

Ask(p) ==
  /\ Red(Len(branch)) /\ merged[p] = None /\ Len(asks[p]) < MaxAsks
  /\ asks' = [asks EXCEPT ![p] =
       Append(@, [incident |-> branch[Len(branch)].incident, generation |-> Len(branch),
                  base |-> main, inForce |-> TRUE])]
  /\ UNCHANGED <<main, runs, merged, lag>> /\ Elsewhere

\* A request ends after ten minutes; the margin the broker asks for covers the merge itself.
Expire(p, k) ==
  /\ asks[p][k].inForce /\ \A j \in 1 .. k - 1 : ~asks[p][j].inForce
  /\ merged[p] = None /\ ~(pc = "merge" /\ seen.result = p)
  /\ asks' = [asks EXCEPT ![p][k].inForce = FALSE]
  /\ UNCHANGED <<main, runs, merged, lag>> /\ Elsewhere

Converge ==
  lag /\ lag' = FALSE /\ UNCHANGED github /\ Elsewhere

\* Nobody went past the rulesets.
Ruled == \A i \in 1 .. Len(runs) : runs[i].sha # Alien

Drift ==
  /\ Ruled /\ Len(runs) < MaxRuns /\ faults < MaxFaults /\ faults' = faults + 1
  /\ main' = Alien /\ runs' = Append(runs, Attempt("protected-main", Alien, "active"))
  /\ UNCHANGED <<asks, merged, lag>> /\ Outside

\* The process dies, or an error or a lost response ends the cycle.
Crash ==
  /\ pc # "idle" /\ faults < MaxFaults
  /\ EndCycle /\ faults' = faults + 1 /\ UNCHANGED <<github, branch, lag>>

Broker ==
  \/ SelectRuns \/ ConfirmRuns \/ Compare \/ AppendMain \/ AwaitMain
  \/ ListDeep \/ RecordDeep \/ AwaitDeep \/ ReadRepair \/ Resolve \/ AwaitRepair \/ PullsDone
  \/ \E p \in Pulls : Seal(p) \/ Merge(p)

Next ==
  \/ Broker \/ AwaitTimesOut \/ Converge \/ Drift \/ Crash
  \/ \E c \in Deep : Dispatch(c)
  \/ \E i \in 1 .. Len(runs) : Rerun(i) \/ EndRun(i)
  \/ \E p \in Pulls : Ask(p) \/ \E k \in 1 .. Len(asks[p]) : Expire(p, k)

Spec == Init /\ [][Next]_vars

\* The service cycles as long as it runs; every attempt ends, for it has a time limit; and what
\* was pushed is read in the end.
FairSpec ==
  /\ Spec
  /\ WF_vars(Broker)
  /\ WF_vars(\E i \in 1 .. Len(runs) : EndRun(i))
  /\ WF_vars(Converge)

-------------------------------------------------------------------------------
(* Properties *)

Tip == Len(branch)

\* The variables have their types, and the process keeps nothing between cycles.
TypeOK ==
  /\ main \in Commits /\ lag \in BOOLEAN
  /\ runs \in Seq([cadence : Cadences, sha : Commits, status : {"active", "success", "failure"},
                   last : BOOLEAN])
  /\ branch \in Seq([cadence : Cadences \cup {"repair-resolution"}, run : 0 .. Len(runs),
                     sha : Commits, result : {"success", "failure"}, status : {"green", "red"},
                     incident : 0 .. Tip, good : Commits])
  /\ asks \in [Pulls -> Seq([incident : 1 .. Tip, generation : 1 .. Tip, base : Commits,
                             inForce : BOOLEAN])]
  /\ \A p \in Pulls : merged[p] # None => merged[p].incident \in 0 .. Tip
  /\ view \in 0 .. Tip /\ queue \subseteq 1 .. Len(runs)
  /\ faults \in 0 .. MaxFaults
  /\ pc = "idle" => view = 0 /\ seen = Unseen /\ queue = {}

\* An attempt is recorded once, whatever crash or stale read comes between its push and the
\* next look: a branch that repeats one can never be read again.
RecordedOnce == ~Repeats(Tip)

\* Green is earned: the commit it names has passed on protected main, and no cadence's last
\* recorded result for it is a failure.
GreenIsEarned ==
  ~Red(Tip) /\ Ruled =>
    /\ Passes(Tip, branch[Tip].good, "protected-main")
    /\ \A c \in Deep : Results(Tip, branch[Tip].good, c) # {} => Passes(Tip, branch[Tip].good, c)

\* Red ends only with a pull that was merged for the very incident that is open, and on whose
\* merge commit the last result of every cadence passes.
RedUntilRepaired ==
  [][ Red(Tip) /\ ~Red(Tip)' =>
        LET p == branch'[Len(branch')].sha IN
        /\ p \in Pulls /\ merged[p] # None /\ merged[p].incident = branch[Tip].incident
        /\ \A c \in Cadences : Passes(Tip, p, c) ]_vars

\* A pull was asked for because of the incident that is open, or that the last push closed: a
\* read that is behind that push still shows it.
AskedFor(p) ==
  /\ asks[p] # <<>>
  /\ \E v \in 1 .. Tip :
       /\ v >= Tip - 1 /\ Red(v)
       /\ \A k \in 1 .. Len(asks[p]) : asks[p][k].incident = branch[v].incident

\* Every deep attempt that had begun when the broker looked last is recorded, and those on
\* main, but for attempts that were run again, have passed.
DeepSettled ==
  \A i \in 1 .. seen.run : runs[i].cadence \in Deep =>
    /\ i \in Recorded(Tip)
    /\ runs[i].sha = main /\ runs[i].last => runs[i].status = "success"

\* A pull that was not asked for as a repair is merged only while main is green, on evidence of
\* every cadence: what a stale read shows is never enough.
MergedOnEvidence ==
  [][ \A p \in Pulls : merged[p] = None /\ merged'[p] # None =>
        \/ AskedFor(p)
        \/ /\ ~Red(Tip) /\ DeepSettled
           /\ \A c \in Cadences : Results(Tip, main, c) # {} => Passes(Tip, main, c) ]_vars

\* A deep attempt that nobody recorded while its commit was main.
Stranded == \E i \in Unrecorded(Tip) : runs[i].sha # main

\* A merged repair that passes, and whose requests do not bind it.
Unbound == Red(Tip) /\ Repaired(Tip) /\ ~Bound(Tip)

\* The service comes to the pull requests again and again, unless one of two things stops it
\* for good.
Proceeds == []<>(pc = "pulls") \/ <>[](Stranded \/ Unbound)

\* A repair that was admitted and merged for the open incident can end it.
RepairBinds ==
  Red(Tip) /\ Repaired(Tip) /\ merged[main].incident = branch[Tip].incident => Bound(Tip)
==============================================================================
