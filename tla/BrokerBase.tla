------------------------------ MODULE BrokerBase ------------------------------
(***************************************************************************)
(* What the parts of the main-health broker (tools/main_health_broker.py)  *)
(* share: its one process, which a lock file keeps single, and the main    *)
(* branch.  The process runs a cycle (run_once) or the operator's recovery *)
(* command; what it keeps in memory ends with the cycle, whatever ended    *)
(* it.                                                                     *)
(*                                                                         *)
(* A step of the process is one write to GitHub or to the spool together   *)
(* with the reads that decide it.  The spool is SQLite: a write is atomic  *)
(* and durable.  A call to GitHub whose response is lost ends the cycle    *)
(* with a ProviderTransportError; whether the call took effect is the      *)
(* choice of ending the cycle before or after the step.                    *)
(***************************************************************************)
EXTENDS Naturals, FiniteSets

CONSTANTS
  Runs,       \* attempts of the production publication workflow
  Pulls,      \* open pull requests, each at one head commit
  Requests,   \* merge requests, by digest
  None,       \* no value
  Start,      \* the commit main is at first; a merged pull stands for its merge commit
  Alien,      \* a commit put on main past the rulesets
  MaxFaults,  \* bound: cycles that end early
  MaxDrift,   \* bound: changes of main past the rulesets
  MaxLost     \* bound: restores of the spool from before all it recorded

ASSUME BrokerAssumption ==
  /\ MaxFaults \in Nat /\ MaxDrift \in 0 .. 1 /\ MaxLost \in Nat
  /\ None \notin Runs \cup Pulls \cup Requests
  /\ Start # Alien /\ {Start, Alien} \cap Pulls = {}

Commits == Pulls \cup {Start, Alien}

VARIABLES
  pc,         \* where the broker's process is
  cursor,     \* the run or request it works on
  round,      \* which of the two lease reconciliations of a cycle
  todo,       \* pulls listed at the start of the cycle and not looked at yet
  main,       \* the commit of refs/heads/main
  faults, drift, lost

local     == <<cursor, round, todo>>
counters  == <<faults, drift, lost>>
baseVars  == <<pc, local, main, counters>>

\* The end of a cycle: run_once returns or raises, and its locals are gone.
EndCycle == pc' = "idle" /\ cursor' = None /\ round' = 0 /\ todo' = {}

Goto(label) == pc' = label /\ UNCHANGED local
==============================================================================
