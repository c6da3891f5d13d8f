------------------------------ MODULE ZoneTracking ------------------------------
(***************************************************************************)
(* The per-frame object and zone tracking of the live loop: the registry   *)
(* of metriplane/tracking.py, which keeps an object for a while after it   *)
(* was last detected, feeds metriplane/zone_analytics.py, which turns the  *)
(* zones of the tracked objects into enter and exit events, dwell times    *)
(* and transition counts (run.py).                                         *)
(*                                                                         *)
(* One clock stands for the monotonic clock of the registry and for the    *)
(* frame timestamps; it does not go backwards.  The geometry of zones.py   *)
(* is left out: a detection is the zone it lies in, or None.               *)
(***************************************************************************)
EXTENDS Integers, Sequences, FiniteSets

CONSTANTS
  Objects, Zones,
  None,       \* no zone; no value in a dictionary
  Timeout,    \* object_timeout_s
  Window,     \* transition_window_s
  Steps,      \* how far the clock goes on between frames
  MaxFrames   \* bound: number of frames read, or failed to read

ASSUME TrackingAssumption ==
  /\ IsFiniteSet(Objects)
  /\ None \notin Zones /\ None \notin Nat
  /\ Timeout \in Nat /\ Window \in Nat /\ Steps \subseteq Nat /\ MaxFrames \in Nat

Place == Zones \cup {None}

VARIABLES
  now, frames, running,
  last_ts,      \* last_ts_frame: time of the latest frame read
  place,        \* registry.objects: where each tracked object was detected last
  last_seen,    \* registry.last_seen_s; None: not tracked
  last_zone,    \* _last_zone; a missing key reads as None
  enter_ts,     \* _enter_ts
  pending,      \* _pending_exit: zone and time of the latest exit
  dwell,        \* _dwell_s
  transitions,  \* _transitions
  events        \* _events, object by object

registry  == <<place, last_seen>>
analytics == <<last_zone, enter_ts, pending, dwell, transitions, events>>
vars      == <<now, frames, running, last_ts, registry, analytics>>

NoExit == [zone |-> None, ts |-> 0]
Event  == [type : {"zone_enter", "zone_exit"}, zone : Zones, ts : Nat]

TypeOK ==
  /\ now \in Nat /\ frames \in 0 .. MaxFrames /\ running \in BOOLEAN /\ last_ts \in 0 .. now
  /\ place \in [Objects -> Place]
  /\ last_seen \in [Objects -> Nat \cup {None}]
  /\ last_zone \in [Objects -> Place]
  /\ enter_ts \in [Objects -> Nat \cup {None}]
  /\ pending \in [Objects -> [zone : Place, ts : Nat]]
  /\ dwell \in [Objects \X Zones -> Nat]
  /\ transitions \in [Zones \X Zones -> Nat]
  /\ events \in [Objects -> Seq(Event)]

Init ==
  /\ now = 0 /\ frames = 0 /\ running = TRUE /\ last_ts = 0
  /\ place = [o \in Objects |-> None]
  /\ last_seen = [o \in Objects |-> None]
  /\ last_zone = [o \in Objects |-> None]
  /\ enter_ts = [o \in Objects |-> None]
  /\ pending = [o \in Objects |-> NoExit]
  /\ dwell = [k \in Objects \X Zones |-> 0]
  /\ transitions = [k \in Zones \X Zones |-> 0]
  /\ events = [o \in Objects |-> <<>>]

--------------------------------------------------------------------------------
(* ObjectRegistry.update, at time t, with the objects in seen detected at  *)
(* the places at.                                                          *)

Stale(o, seen, t) == o \notin seen /\ last_seen[o] # None /\ last_seen[o] < t - Timeout

\* Defect: nothing expires.
Keep(seen, at, t) ==
  /\ last_seen' = [o \in Objects |-> IF o \in seen THEN t ELSE last_seen[o]]
  /\ place' = [o \in Objects |-> IF o \in seen THEN at[o] ELSE place[o]]

Track(seen, at, t) ==
  /\ last_seen' = [o \in Objects |-> IF o \in seen THEN t
                                     ELSE IF Stale(o, seen, t) THEN None ELSE last_seen[o]]
  /\ place' = [o \in Objects |-> IF o \in seen THEN at[o]
                                 ELSE IF Stale(o, seen, t) THEN None ELSE place[o]]

--------------------------------------------------------------------------------
(* ZoneAnalytics.update, at time t, with the objects tracked at zone.  An  *)
(* object that has disappeared is treated as one outside all zones.        *)

Exits(o, zone)  == last_zone[o] # None /\ zone[o] # last_zone[o]
Enters(o, zone) == zone[o] # None /\ zone[o] # last_zone[o]

\* _accumulate_exit closes the visit of o to the zone it was in.
Stay(o, t) == IF enter_ts[o] = None THEN 0 ELSE t - enter_ts[o]

\* Defect: an exit that is as old as the window is forgotten.
PruneEarly(o, t) == IF pending[o].ts <= t - Window THEN NoExit ELSE pending[o]

Prune(o, t) == IF pending[o].ts < t - Window THEN NoExit ELSE pending[o]

\* The zone that a transition into the zone of o comes from: the one it leaves in
\* this frame, or the one it left no longer than Window ago.
Origin(o, t) ==
  IF last_zone[o] # None THEN last_zone[o]
  ELSE IF Prune(o, t).zone # None /\ t - Prune(o, t).ts <= Window THEN Prune(o, t).zone
  ELSE None

Counted(o, zone, t) ==
  Enters(o, zone) /\ Origin(o, t) # None /\ Origin(o, t) # zone[o]

News(o, zone, t) ==
  (IF Exits(o, zone) THEN <<[type |-> "zone_exit", zone |-> last_zone[o], ts |-> t]>> ELSE <<>>)
  \o
  (IF Enters(o, zone) THEN <<[type |-> "zone_enter", zone |-> zone[o], ts |-> t]>> ELSE <<>>)

Analyse(zone, t) ==
  /\ events' = [o \in Objects |-> events[o] \o News(o, zone, t)]
  /\ dwell' = [k \in Objects \X Zones |->
                 IF Exits(k[1], zone) /\ k[2] = last_zone[k[1]]
                 THEN dwell[k] + Stay(k[1], t) ELSE dwell[k]]
  /\ enter_ts' = [o \in Objects |-> IF Enters(o, zone) THEN t
                                    ELSE IF Exits(o, zone) THEN None ELSE enter_ts[o]]
  /\ pending' = [o \in Objects |->
                   IF Enters(o, zone) THEN NoExit
                   ELSE IF Exits(o, zone) THEN [zone |-> last_zone[o], ts |-> t]
                   ELSE Prune(o, t)]
  /\ transitions' = [k \in Zones \X Zones |->
                       transitions[k] + Cardinality({o \in Objects :
                         Counted(o, zone, t) /\ k = <<Origin(o, t), zone[o]>>})]
  /\ last_zone' = zone

--------------------------------------------------------------------------------
(* The loop of run.py.                                                     *)

Tick == /\ running /\ frames < MaxFrames
        /\ frames' = frames + 1
        /\ \E d \in Steps : now' = now + d

Frame(seen, at) ==
  /\ Tick
  /\ last_ts' = now'
  /\ Track(seen, at, now')
  /\ Analyse(place', now')
  /\ UNCHANGED running

\* The camera raises: the loop goes on without a frame.
ReadError == Tick /\ UNCHANGED <<running, last_ts, registry, analytics>>

\* Defect: the export does not close the open visits.
FinalizeNothing(t) == UNCHANGED analytics

\* finalize: visits that are still open end with the last frame.
Finalize(t) ==
  /\ dwell' = [k \in Objects \X Zones |->
                 IF k[2] = last_zone[k[1]] THEN dwell[k] + Stay(k[1], t) ELSE dwell[k]]
  /\ enter_ts' = [o \in Objects |-> IF last_zone[o] = None THEN enter_ts[o] ELSE None]
  /\ UNCHANGED <<last_zone, pending, transitions, events>>

\* The loop ends and exports what it has; it may have read one more frame by
\* then and not looked at it.
Stop ==
  /\ running /\ running' = FALSE
  /\ \/ UNCHANGED <<now, last_ts>>
     \/ \E d \in Steps : now' = now + d /\ last_ts' = now'
  /\ Finalize(last_ts')
  /\ UNCHANGED <<frames, registry>>

Next ==
  \/ \E seen \in SUBSET Objects : \E at \in [seen -> Place] : Frame(seen, at)
  \/ ReadError
  \/ Stop

Spec == Init /\ [][Next]_vars

--------------------------------------------------------------------------------
(* Properties.                                                             *)

\* When the k-th event of o opens a visit, the visit lasts until its exit, or until
\* the export if it is still open then.
VisitEnd(o, k) == CASE k < Len(events[o]) -> events[o][k + 1].ts
                    [] k = Len(events[o]) -> IF running THEN events[o][k].ts ELSE last_ts

\* By its events, o is in z from u to u + 1.
Visiting(o, z, u) ==
  \E k \in DOMAIN events[o] :
    /\ k % 2 = 1 /\ events[o][k].zone = z
    /\ events[o][k].ts <= u /\ u < VisitEnd(o, k)

\* The dwell time of an object in a zone is the time its visits took: no visit is
\* missed, counted twice or charged to another zone, whether the object left,
\* disappeared or is still there at the export (lines 58-67 and 181-187).
DwellIsVisits ==
  \A o \in Objects, z \in Zones :
    dwell[<<o, z>>] = Cardinality({u \in 0 .. now : Visiting(o, z, u)})

\* The transition counts are those of the event log: an exit and the next entry of
\* the same object into another zone, no longer than Window later, however many
\* frames outside all zones or without the object lie between (lines 158-175).
TransitionsAreExits ==
  \A a, b \in Zones :
    transitions[<<a, b>>] =
      Cardinality({x \in Objects \X (1 .. MaxFrames * 2) :
        LET e == events[x[1]]
            k == x[2]
        IN  /\ k % 2 = 0 /\ k < Len(e) /\ a # b
            /\ e[k].zone = a /\ e[k + 1].zone = b
            /\ e[k + 1].ts - e[k].ts <= Window})

\* Registry and analytics agree: an object is only said to be in the zone where it
\* was detected last, and that was at most Timeout before the latest frame, however
\* often the camera failed since (tracking.py lines 33-37).
OccupancyFresh ==
  running => \A o \in Objects : last_zone[o] # None =>
    /\ last_seen[o] # None /\ last_ts - last_seen[o] <= Timeout
    /\ place[o] = last_zone[o]

================================================================================
