--------------------------- MODULE ZoneTrackingProofs ---------------------------
(***************************************************************************)
(* What holds of ZoneTracking for any objects and zones, every time-out    *)
(* and window, and any number of frames.                                   *)
(***************************************************************************)
EXTENDS ZoneTracking, FiniteSetTheorems, TLAPS

--------------------------------------------------------------------------------
(* Types and occupancy *)

\* The analytics know the places of the registry, and an object that is not tracked has none.
Placed ==
  /\ last_zone = place
  /\ \A o \in Objects :
       /\ place[o] # None => last_seen[o] # None
       /\ last_seen[o] # None => last_seen[o] <= last_ts /\ (running => last_ts - last_seen[o] <= Timeout)

\* A visit that is open began no later than the latest frame.
Timed == \A o \in Objects : enter_ts[o] # None => enter_ts[o] <= last_ts

ZInv == TypeOK /\ Placed /\ Timed

LEMMA ZInit == Init => ZInv
BY TrackingAssumption DEF Init, ZInv, TypeOK, Placed, Timed, NoExit, Place

LEMMA Ticks ==
  ASSUME TypeOK, Tick
  PROVE  /\ now \in Nat /\ now' \in Nat /\ now' >= now /\ frames \in Nat /\ frames' = frames + 1
         /\ frames' \in 0 .. MaxFrames /\ running
BY TrackingAssumption DEF TypeOK, Tick

\* What the registry has after a frame.
LEMMA Tracks ==
  ASSUME ZInv, NEW seen \in SUBSET Objects, NEW at \in [seen -> Place], Frame(seen, at)
  PROVE  /\ place' \in [Objects -> Place] /\ last_seen' \in [Objects -> Nat \cup {None}]
         /\ \A o \in Objects :
              /\ place'[o] # None => last_seen'[o] # None
              /\ last_seen'[o] # None => last_seen'[o] <= now' /\ now' - last_seen'[o] <= Timeout
<1>1. now' \in Nat /\ last_ts \in Nat /\ last_ts <= now' /\ Timeout \in Nat /\ None \notin Nat
  BY Ticks, TrackingAssumption DEF Frame, ZInv, TypeOK
<1>2. /\ last_seen' = [o \in Objects |-> IF o \in seen THEN now'
                                     ELSE IF Stale(o, seen, now') THEN None ELSE last_seen[o]]
      /\ place' = [o \in Objects |-> IF o \in seen THEN at[o]
                                 ELSE IF Stale(o, seen, now') THEN None ELSE place[o]]
  BY DEF Frame, Track
<1>3. ASSUME NEW o \in Objects, o \in seen
      PROVE  /\ place'[o] \in Place /\ last_seen'[o] = now'
  BY <1>2, <1>3
<1>4. ASSUME NEW o \in Objects, o \notin seen
      PROVE  /\ place'[o] \in Place /\ last_seen'[o] \in Nat \cup {None}
             /\ place'[o] # None => last_seen'[o] # None
             /\ last_seen'[o] # None => last_seen'[o] <= now' /\ now' - last_seen'[o] <= Timeout
  <2>1. /\ place[o] \in Place /\ last_seen[o] \in Nat \cup {None} /\ None \in Place
        /\ place[o] # None => last_seen[o] # None
        /\ last_seen[o] # None => last_seen[o] <= last_ts
    BY DEF ZInv, TypeOK, Placed, Place
  <2>2. CASE Stale(o, seen, now')
    BY <1>2, <1>4, <2>1, <2>2
  <2>3. CASE ~Stale(o, seen, now')
    <3>1. place'[o] = place[o] /\ last_seen'[o] = last_seen[o]
      BY <1>2, <1>4, <2>3
    <3>. QED
      BY <1>1, <1>4, <2>1, <2>3, <3>1 DEF Stale
  <2>. QED
    BY <2>2, <2>3
<1>5. last_seen' \in [Objects -> Nat \cup {None}] /\ place' \in [Objects -> Place]
  BY <1>1, <1>2, <1>3, <1>4
<1>. QED
  BY <1>1, <1>3, <1>4, <1>5, TrackingAssumption

LEMMA NewsType ==
  ASSUME TypeOK, NEW o \in Objects, NEW zone \in [Objects -> Place], NEW t \in Nat
  PROVE  News(o, zone, t) \in Seq(Event)
<1>1. Exits(o, zone) => [type |-> "zone_exit", zone |-> last_zone[o], ts |-> t] \in Event
  BY DEF TypeOK, Exits, Place, Event
<1>2. Enters(o, zone) => [type |-> "zone_enter", zone |-> zone[o], ts |-> t] \in Event
  BY DEF Enters, Place, Event
<1>. QED
  BY <1>1, <1>2 DEF News

LEMMA AnalyseType ==
  ASSUME ZInv, NEW zone \in [Objects -> Place], NEW t \in Nat, t >= last_ts, Analyse(zone, t)
  PROVE  /\ last_zone' \in [Objects -> Place]
         /\ enter_ts' \in [Objects -> Nat \cup {None}]
         /\ pending' \in [Objects -> [zone : Place, ts : Nat]]
         /\ dwell' \in [Objects \X Zones -> Nat]
         /\ transitions' \in [Zones \X Zones -> Nat]
         /\ events' \in [Objects -> Seq(Event)]
         /\ \A o \in Objects : enter_ts'[o] # None => enter_ts'[o] <= t
<1>. USE DEF ZInv
<1>1. last_zone' = zone
  BY DEF Analyse
<1>2. enter_ts' \in [Objects -> Nat \cup {None}]
      /\ \A o \in Objects : enter_ts'[o] # None => enter_ts'[o] <= t
  BY DEF Analyse, TypeOK, Timed
<1>3. pending' \in [Objects -> [zone : Place, ts : Nat]]
  <2>1. ASSUME NEW o \in Objects PROVE Prune(o, t) \in [zone : Place, ts : Nat]
    BY DEF Prune, NoExit, TypeOK, Place
  <2>2. NoExit \in [zone : Place, ts : Nat]
    BY DEF NoExit, Place
  <2>. QED
    BY <2>1, <2>2 DEF Analyse, TypeOK
<1>4. dwell' \in [Objects \X Zones -> Nat]
  <2>1. ASSUME NEW o \in Objects PROVE Stay(o, t) \in Nat
    BY DEF Stay, TypeOK, Timed
  <2>2. ASSUME NEW k \in Objects \X Zones
        PROVE  (IF Exits(k[1], zone) /\ k[2] = last_zone[k[1]] THEN dwell[k] + Stay(k[1], t)
                ELSE dwell[k]) \in Nat
    <3>1. k[1] \in Objects /\ dwell[k] \in Nat
      BY DEF TypeOK
    <3>. QED
      BY <2>1, <3>1
  <2>. QED
    BY <2>2 DEF Analyse
<1>5. transitions' \in [Zones \X Zones -> Nat]
  <2>1. ASSUME NEW k \in Zones \X Zones
        PROVE  transitions[k] + Cardinality({o \in Objects :
                         Counted(o, zone, t) /\ k = <<Origin(o, t), zone[o]>>}) \in Nat
    <3>. DEFINE C == {o \in Objects : Counted(o, zone, t) /\ k = <<Origin(o, t), zone[o]>>}
    <3>1. Cardinality(C) \in Nat
      <4>1. IsFiniteSet(C)
        BY TrackingAssumption, FS_Subset
      <4>. QED
        BY <4>1, FS_CardinalityType
    <3>2. transitions[k] \in Nat
      BY DEF TypeOK
    <3>. QED
      BY <3>1, <3>2
  <2>. QED
    BY <2>1 DEF Analyse
<1>6. events' \in [Objects -> Seq(Event)]
  <2>1. ASSUME NEW o \in Objects PROVE events[o] \o News(o, zone, t) \in Seq(Event)
    <3>1. events[o] \in Seq(Event) /\ News(o, zone, t) \in Seq(Event)
      BY NewsType DEF TypeOK
    <3>. QED
      BY <3>1
  <2>. QED
    BY <2>1 DEF Analyse
<1>. QED
  BY <1>1, <1>2, <1>3, <1>4, <1>5, <1>6

\* What the registry and the analytics do in a frame, with the two named.
LEMMA FrameIs ==
  ASSUME ZInv, NEW seen \in SUBSET Objects, NEW at \in [seen -> Place], Frame(seen, at)
  PROVE  \E zone \in [Objects -> Place], t \in Nat :
           /\ zone = place' /\ t = now' /\ t = last_ts' /\ t >= now /\ t >= last_ts
           /\ Analyse(zone, t)
<1>1. place' \in [Objects -> Place] /\ now' \in Nat /\ now' >= now /\ last_ts <= now'
      /\ last_ts' = now'
  <2>1. place' \in [Objects -> Place]
    BY Tracks
  <2>2. TypeOK /\ Tick /\ last_ts' = now'
    BY DEF Frame, ZInv
  <2>3. now' \in Nat /\ now' >= now /\ now \in Nat
    BY <2>2, Ticks
  <2>. QED
    BY <2>1, <2>2, <2>3 DEF TypeOK
<1>2. Analyse(place', now')
  BY DEF Frame
<1>. QED
  BY <1>1, <1>2

LEMMA ZFrame ==
  ASSUME ZInv, NEW seen \in SUBSET Objects, NEW at \in [seen -> Place], Frame(seen, at)
  PROVE  ZInv'
<1>1. PICK zone \in [Objects -> Place], t \in Nat :
           /\ zone = place' /\ t = now' /\ t = last_ts' /\ t >= now /\ t >= last_ts
           /\ Analyse(zone, t)
  BY FrameIs
<1>2. Placed'
  BY <1>1, Tracks DEF Placed, Analyse
<1>3. TypeOK' /\ Timed'
  <2>1. frames' \in 0 .. MaxFrames /\ running' = running /\ now' \in Nat /\ last_ts' \in 0 .. now'
    BY <1>1, Ticks DEF ZInv, Frame
  <2>. QED
    BY <1>1, <2>1, Tracks, AnalyseType DEF TypeOK, Timed, ZInv, Frame
<1>. QED
  BY <1>2, <1>3 DEF ZInv

LEMMA ZReadError == ASSUME ZInv, ReadError PROVE ZInv'
<1>1. now' \in Nat /\ now' >= now /\ frames' \in 0 .. MaxFrames /\ last_ts \in 0 .. now'
  BY Ticks DEF ReadError, ZInv, TypeOK
<1>. QED
  BY <1>1 DEF ReadError, registry, analytics, ZInv, TypeOK, Placed, Timed

LEMMA ZStop == ASSUME ZInv, Stop PROVE ZInv'
<1>1. now' \in Nat /\ last_ts' \in 0 .. now' /\ last_ts' >= last_ts /\ last_ts \in Nat
  BY TrackingAssumption DEF Stop, ZInv, TypeOK
<1>2. dwell' \in [Objects \X Zones -> Nat]
  <2>1. ASSUME NEW o \in Objects PROVE Stay(o, last_ts') \in Nat
    BY <1>1 DEF Stay, ZInv, TypeOK, Timed
  <2>2. ASSUME NEW k \in Objects \X Zones
        PROVE  (IF k[2] = last_zone[k[1]] THEN dwell[k] + Stay(k[1], last_ts') ELSE dwell[k]) \in Nat
    <3>1. k[1] \in Objects /\ dwell[k] \in Nat
      BY DEF ZInv, TypeOK
    <3>. QED
      BY <2>1, <3>1
  <2>. QED
    BY <2>2 DEF Stop, Finalize
<1>3. enter_ts' \in [Objects -> Nat \cup {None}]
      /\ \A o \in Objects : enter_ts'[o] # None => enter_ts'[o] = enter_ts[o]
  BY DEF Stop, Finalize, ZInv, TypeOK
<1>4. /\ UNCHANGED <<frames, place, last_seen, last_zone, pending, transitions, events>>
      /\ running' = FALSE
  BY DEF Stop, Finalize, registry
<1>5. TypeOK'
  BY <1>1, <1>2, <1>3, <1>4 DEF ZInv, TypeOK
<1>6. Timed'
  BY <1>1, <1>3 DEF ZInv, TypeOK, Timed
<1>7. Placed'
  BY <1>1, <1>4 DEF ZInv, TypeOK, Placed
<1>. QED
  BY <1>5, <1>6, <1>7 DEF ZInv

LEMMA ZStep == ASSUME ZInv, [Next]_vars PROVE ZInv'
<1>1. CASE UNCHANGED vars
  BY <1>1 DEF vars, registry, analytics, ZInv, TypeOK, Placed, Timed
<1>. QED
  BY <1>1, ZFrame, ZReadError, ZStop DEF Next

LEMMA ZInvariance == Spec => []ZInv
BY ZInit, ZStep, PTL DEF Spec

\* The variables keep their types: no visit ends before it began, and all totals are numbers.
THEOREM TypeCorrect == Spec => []TypeOK
<1>1. ZInv => TypeOK
  BY DEF ZInv
<1>. QED
  BY <1>1, ZInvariance, PTL

\* An object is only said to be in the zone where it was detected last, at most Timeout
\* before the latest frame.
THEOREM OccupancyIsFresh == Spec => []OccupancyFresh
<1>1. ZInv => OccupancyFresh
  BY DEF ZInv, TypeOK, Placed, OccupancyFresh
<1>. QED
  BY <1>1, ZInvariance, PTL

--------------------------------------------------------------------------------
(* The event log *)

Even(n) == n % 2 = 0

\* Enters and exits alternate, the last event says where the object is, and while the
\* last exit is recent enough to count it is pending.
LogOK(e, zone, exit, time, length) ==
  /\ Len(e) <= length
  /\ Even(Len(e)) <=> zone = None
  /\ ~Even(Len(e)) => e[Len(e)].zone = zone
  /\ Len(e) = 0 => exit.zone = None
  /\ Even(Len(e)) /\ Len(e) > 0 =>
       \/ exit.zone = e[Len(e)].zone /\ exit.ts = e[Len(e)].ts
       \/ exit.zone = None /\ e[Len(e)].ts < time - Window

Logged(o) == LogOK(events[o], last_zone[o], pending[o], now, 2 * frames)

\* The k-th event of a log is an exit from a, and the next is an entry into b soon after.
Crossing(e, k, a, b) ==
  /\ Even(k) /\ k < Len(e) /\ a # b
  /\ e[k].zone = a /\ e[k + 1].zone = b
  /\ e[k + 1].ts - e[k].ts <= Window

Crossings(a, b) ==
  {x \in Objects \X (1 .. MaxFrames * 2) : Crossing(events[x[1]], x[2], a, b)}

Tallied == \A a, b \in Zones : transitions[<<a, b>>] = Cardinality(Crossings(a, b))

LInv == (\A o \in Objects : Logged(o)) /\ Tallied

LEMMA Parity == Even(0) /\ \A n \in Nat : Even(n + 1) <=> ~Even(n)
BY DEF Even

\* What is appended to a log, and where.
LEMMA Appended ==
  ASSUME NEW S, NEW e \in Seq(S), NEW x \in S, NEW y \in S
  PROVE  /\ e \o (<<>> \o <<>>) = e
         /\ LET f == e \o (<<x>> \o <<>>) IN
              Len(f) = Len(e) + 1 /\ f[Len(e) + 1] = x /\ \A k \in 1 .. Len(e) : f[k] = e[k]
         /\ LET f == e \o (<<>> \o <<y>>) IN
              Len(f) = Len(e) + 1 /\ f[Len(e) + 1] = y /\ \A k \in 1 .. Len(e) : f[k] = e[k]
         /\ LET f == e \o (<<x>> \o <<y>>) IN
              /\ Len(f) = Len(e) + 2 /\ f[Len(e) + 1] = x /\ f[Len(e) + 2] = y
              /\ \A k \in 1 .. Len(e) : f[k] = e[k]
OBVIOUS

\* Where the exit of a transition stands that an entry completes.
Spot(o) == IF last_zone[o] # None THEN Len(events[o]) + 1 ELSE Len(events[o])

\* The log of one object after a frame.
LEMMA LogStep ==
  ASSUME ZInv, NEW zone \in [Objects -> Place], NEW t \in Nat, Analyse(zone, t),
         NEW o \in Objects
  PROVE  /\ events[o] \in Seq(Event) /\ Len(events[o]) \in Nat
         /\ \A k \in 1 .. Len(events[o]) : events'[o][k] = events[o][k]
         /\ Exits(o, zone) => /\ Len(events'[o]) > Len(events[o])
                              /\ events'[o][Len(events[o]) + 1].zone = last_zone[o]
                              /\ events'[o][Len(events[o]) + 1].ts = t
         /\ Enters(o, zone) => /\ Len(events'[o]) = Spot(o) + 1
                               /\ events'[o][Spot(o) + 1].zone = zone[o]
                               /\ events'[o][Spot(o) + 1].ts = t
         /\ Exits(o, zone) /\ ~Enters(o, zone) => Len(events'[o]) = Len(events[o]) + 1
         /\ ~Exits(o, zone) /\ ~Enters(o, zone) => Len(events'[o]) = Len(events[o])
<1>. DEFINE out  == [type |-> "zone_exit", zone |-> last_zone[o], ts |-> t]
            into == [type |-> "zone_enter", zone |-> zone[o], ts |-> t]
            S    == Event \cup {out, into}
<1>1. events[o] \in Seq(Event) /\ events'[o] = events[o] \o News(o, zone, t)
  BY DEF ZInv, TypeOK, Analyse
<1>2. events[o] \in Seq(S) /\ Len(events[o]) \in Nat /\ out \in S /\ into \in S
  BY <1>1
<1>3. out.zone = last_zone[o] /\ out.ts = t /\ into.zone = zone[o] /\ into.ts = t
  OBVIOUS
<1>4. News(o, zone, t) = (IF Exits(o, zone) THEN <<out>> ELSE <<>>)
                          \o (IF Enters(o, zone) THEN <<into>> ELSE <<>>)
  BY DEF News
<1>5. Enters(o, zone) => (Exits(o, zone) <=> last_zone[o] # None)
  BY DEF Enters, Exits
<1>. HIDE DEF out, into, S
<1>6. CASE Exits(o, zone) /\ Enters(o, zone)
  <2>1. events'[o] = events[o] \o (<<out>> \o <<into>>) /\ Spot(o) = Len(events[o]) + 1
    BY <1>1, <1>4, <1>5, <1>6 DEF Spot
  <2>. QED
    BY <1>1, <1>2, <1>3, <1>6, <2>1, Appended
<1>7. CASE Exits(o, zone) /\ ~Enters(o, zone)
  <2>1. events'[o] = events[o] \o (<<out>> \o <<>>)
    BY <1>1, <1>4, <1>7
  <2>. QED
    BY <1>1, <1>2, <1>3, <1>7, <2>1, Appended
<1>8. CASE ~Exits(o, zone) /\ Enters(o, zone)
  <2>1. events'[o] = events[o] \o (<<>> \o <<into>>) /\ Spot(o) = Len(events[o])
    BY <1>1, <1>4, <1>5, <1>8 DEF Spot
  <2>. QED
    BY <1>1, <1>2, <1>3, <1>8, <2>1, Appended
<1>9. CASE ~Exits(o, zone) /\ ~Enters(o, zone)
  <2>1. events'[o] = events[o] \o (<<>> \o <<>>)
    BY <1>1, <1>4, <1>9
  <2>. QED
    BY <1>1, <1>2, <1>9, <2>1, Appended
<1>. QED
  BY <1>6, <1>7, <1>8, <1>9

\* The log stays a log of visits.
LEMMA LoggedStep ==
  ASSUME ZInv, NEW zone \in [Objects -> Place], NEW t \in Nat, t >= now, t = now', Analyse(zone, t),
         frames' = frames + 1, frames \in Nat,
         NEW o \in Objects, Logged(o)
  PROVE  Logged(o)'
<1>0. PICK e, f : e = events[o] /\ f = events'[o]
  OBVIOUS
<1>1. PICK n \in Nat : n = Len(e) /\ e \in Seq(Event)
  BY <1>0, LogStep
<1>2. /\ n <= 2 * frames /\ (Even(n) <=> last_zone[o] = None) /\ (Even(n + 1) <=> ~Even(n))
      /\ (Even(n + 2) <=> Even(n)) /\ n + 1 # 0 /\ n + 2 # 0
      /\ n = 0 => pending[o].zone = None
      /\ Even(n) /\ n > 0 => \/ pending[o].zone = e[n].zone /\ pending[o].ts = e[n].ts
                             \/ pending[o].zone = None /\ e[n].ts < now - Window
      /\ ~Even(n) => n > 0 /\ e[n].zone = last_zone[o]
  <2>1. (Even(n + 1) <=> ~Even(n)) /\ (Even((n + 1) + 1) <=> ~Even(n + 1)) /\ (n + 1) + 1 = n + 2
    BY Parity
  <2>2. LogOK(e, last_zone[o], pending[o], now, 2 * frames)
    BY <1>0 DEF Logged
  <2>3. ~Even(n) => n > 0
    BY Parity
  <2>. QED
    BY <1>1, <2>1, <2>2, <2>3 DEF LogOK
<1>3. /\ last_zone' = zone
      /\ pending'[o] = IF Enters(o, zone) THEN NoExit
                       ELSE IF Exits(o, zone) THEN [zone |-> last_zone[o], ts |-> t]
                       ELSE Prune(o, t)
  BY DEF Analyse
<1>. SUFFICES LogOK(f, zone[o], pending'[o], t, 2 * (frames + 1))
  BY <1>0, <1>3 DEF Logged
<1>4. CASE Enters(o, zone)
  <2>1. PICK m \in Nat : m = Spot(o) /\ (m = n \/ m = n + 1) /\ Even(m)
    BY <1>0, <1>1, <1>2 DEF Spot
  <2>2. Len(f) = m + 1 /\ f[m + 1].zone = zone[o]
    <3>1. Len(events'[o]) = Spot(o) + 1 /\ events'[o][Spot(o) + 1].zone = zone[o]
      BY <1>4, LogStep
    <3>. QED
      BY <1>0, <2>1, <3>1
  <2>3. zone[o] # None /\ ~Even(m + 1)
    BY <1>4, <2>1, Parity DEF Enters
  <2>. QED
    BY <1>2, <2>1, <2>2, <2>3 DEF LogOK
<1>5. CASE Exits(o, zone) /\ ~Enters(o, zone)
  <2>1. /\ Len(f) = n + 1 /\ f[n + 1].zone = last_zone[o]
        /\ f[n + 1].ts = t /\ zone[o] = None /\ last_zone[o] # None
    BY <1>0, <1>1, <1>5, LogStep DEF Exits, Enters
  <2>2. pending'[o].zone = last_zone[o] /\ pending'[o].ts = t
    BY <1>3, <1>5
  <2>. QED
    BY <1>2, <2>1, <2>2 DEF LogOK
<1>6. CASE ~Exits(o, zone) /\ ~Enters(o, zone)
  <2>1. Len(f) = n /\ zone[o] = last_zone[o] /\ (n > 0 => f[n] = e[n])
    BY <1>0, <1>1, <1>6, LogStep DEF Exits, Enters
  <2>2. pending'[o] = Prune(o, t)
    BY <1>3, <1>6
  <2>3. n > 0 => e[n].ts \in Nat
    <3>1. n > 0 => e[n] \in Event
      BY <1>1
    <3>. QED
      BY <3>1 DEF Event
  <2>4. pending[o].ts \in Nat /\ Window \in Nat /\ now \in Nat
    BY TrackingAssumption DEF ZInv, TypeOK
  <2>5. n = 0 => pending'[o].zone = None
    BY <1>2, <2>2 DEF Prune, NoExit
  <2>6. ASSUME Even(n), n > 0
        PROVE  \/ pending'[o].zone = e[n].zone /\ pending'[o].ts = e[n].ts
               \/ pending'[o].zone = None /\ e[n].ts < t - Window
    <3>1. CASE pending[o].ts < t - Window
      <4>1. pending'[o].zone = None
        BY <2>2, <3>1 DEF Prune, NoExit
      <4>2. e[n].ts < t - Window
        BY <1>2, <2>3, <2>4, <2>6, <3>1
      <4>. QED
        BY <4>1, <4>2
    <3>2. CASE ~(pending[o].ts < t - Window)
      <4>1. pending'[o] = pending[o]
        BY <2>2, <3>2 DEF Prune
      <4>2. e[n].ts < now - Window => e[n].ts < t - Window
        BY <2>3, <2>4, <2>6
      <4>. QED
        BY <1>2, <2>6, <4>1, <4>2
    <3>. QED
      BY <3>1, <3>2
  <2>. QED
    BY <1>2, <2>1, <2>5, <2>6 DEF LogOK
<1>. QED
  BY <1>4, <1>5, <1>6

\* An entry is counted for a transition just if the log has it.
LEMMA CountedLogged ==
  ASSUME ZInv, NEW zone \in [Objects -> Place], NEW t \in Nat, t >= now, Analyse(zone, t),
         NEW o \in Objects, Logged(o), NEW a \in Zones, NEW b \in Zones, NEW k \in Nat, k > 0
  PROVE  Crossing(events'[o], k, a, b)
           <=> \/ Crossing(events[o], k, a, b)
               \/ k = Spot(o) /\ Counted(o, zone, t) /\ <<a, b>> = <<Origin(o, t), zone[o]>>
<1>0. PICK e, f : e = events[o] /\ f = events'[o]
  OBVIOUS
<1>1. PICK n \in Nat : n = Len(e) /\ e \in Seq(Event)
  BY <1>0, LogStep
<1>2. /\ Even(n) <=> last_zone[o] = None
      /\ Even(n + 1) <=> ~Even(n)
      /\ None \notin Zones /\ Window \in Nat
  BY <1>0, <1>1, Parity, TrackingAssumption DEF Logged, LogOK
<1>3. PICK m \in Nat : m = Spot(o) /\ Even(m) /\ m = IF last_zone[o] # None THEN n + 1 ELSE n
  BY <1>0, <1>1, <1>2 DEF Spot
<1>4. /\ \A j \in 1 .. n : f[j] = e[j]
      /\ Exits(o, zone) => f[n + 1].zone = last_zone[o] /\ f[n + 1].ts = t
      /\ Enters(o, zone) => Len(f) = m + 1 /\ f[m + 1].zone = zone[o] /\ f[m + 1].ts = t
      /\ ~Enters(o, zone) => Len(f) = n \/ (Exits(o, zone) /\ Len(f) = n + 1)
  <2>1. /\ \A j \in 1 .. Len(events[o]) : events'[o][j] = events[o][j]
        /\ Exits(o, zone) => /\ events'[o][Len(events[o]) + 1].zone = last_zone[o]
                             /\ events'[o][Len(events[o]) + 1].ts = t
        /\ Enters(o, zone) => /\ Len(events'[o]) = Spot(o) + 1
                              /\ events'[o][Spot(o) + 1].zone = zone[o]
                              /\ events'[o][Spot(o) + 1].ts = t
        /\ ~Enters(o, zone) => \/ Len(events'[o]) = Len(events[o])
                               \/ Exits(o, zone) /\ Len(events'[o]) = Len(events[o]) + 1
    BY LogStep
  <2>. QED
    BY <1>0, <1>1, <1>3, <2>1
<1>. SUFFICES Crossing(f, k, a, b)
           <=> \/ Crossing(e, k, a, b)
               \/ k = m /\ Counted(o, zone, t) /\ <<a, b>> = <<Origin(o, t), zone[o]>>
  BY <1>0, <1>3
<1>5. CASE k < n
  <2>1. k \in 1 .. n /\ k + 1 \in 1 .. n /\ k < Len(f) /\ k # m
    BY <1>3, <1>4, <1>5
  <2>. QED
    BY <1>1, <1>4, <1>5, <2>1 DEF Crossing
<1>6. CASE k >= n /\ ~Enters(o, zone)
  <2>1. Exits(o, zone) => ~Even(n)
    BY <1>2 DEF Exits
  <2>2. k < Len(f) => k = n /\ Exits(o, zone)
    BY <1>4, <1>6
  <2>. QED
    BY <1>1, <1>6, <2>1, <2>2 DEF Crossing, Counted
<1>7. CASE k >= n /\ Enters(o, zone)
  <2>1. Even(k) /\ k < Len(f) <=> k = m
    BY <1>2, <1>3, <1>4, <1>7
  <2>2. ~Crossing(e, k, a, b)
    BY <1>1, <1>7 DEF Crossing
  <2>3. ASSUME k = m
        PROVE  Crossing(f, k, a, b)
                 <=> Counted(o, zone, t) /\ <<a, b>> = <<Origin(o, t), zone[o]>>
    <3>1. CASE last_zone[o] # None
      <4>1. Exits(o, zone) /\ k = n + 1
        BY <1>3, <1>7, <2>3, <3>1 DEF Enters, Exits
      <4>2. f[k].zone = last_zone[o] /\ f[k].ts = t /\ t - t <= Window
        BY <1>2, <1>4, <4>1
      <4>3. Origin(o, t) = last_zone[o] /\ zone[o] # last_zone[o]
        BY <1>7, <3>1 DEF Origin, Enters
      <4>4. Crossing(f, k, a, b) <=> a # b /\ last_zone[o] = a /\ zone[o] = b
        BY <1>4, <1>7, <2>1, <2>3, <4>2 DEF Crossing
      <4>. QED
        BY <1>7, <3>1, <4>3, <4>4 DEF Counted
    <3>2. CASE last_zone[o] = None
      <4>1. k = n /\ n > 0 /\ Even(n) /\ f[k] = e[n] /\ e[n] \in Event
        BY <1>1, <1>3, <1>4, <2>3, <3>2
      <4>2. e[n].zone \in Zones /\ e[n].ts \in Nat
        BY <4>1 DEF Event
      <4>3. pending[o].ts \in Nat /\ now \in Nat
        BY DEF ZInv, TypeOK
      <4>4. Origin(o, t) = IF t - e[n].ts <= Window THEN e[n].zone ELSE None
        <5>1. CASE pending[o].zone = e[n].zone /\ pending[o].ts = e[n].ts
          BY <1>2, <3>2, <4>2, <4>3, <5>1 DEF Origin, Prune, NoExit
        <5>2. CASE pending[o].zone = None /\ e[n].ts < now - Window
          <6>1. ~(t - e[n].ts <= Window)
            BY <1>2, <4>2, <4>3, <5>2
          <6>. QED
            BY <3>2, <5>2, <6>1 DEF Origin, Prune, NoExit
        <5>. QED
          BY <1>0, <1>1, <4>1, <5>1, <5>2 DEF Logged, LogOK
      <4>5. Crossing(f, k, a, b)
              <=> a # b /\ e[n].zone = a /\ zone[o] = b /\ t - e[n].ts <= Window
        BY <1>4, <1>7, <2>1, <2>3, <4>1 DEF Crossing
      <4>. QED
        BY <1>2, <1>7, <4>2, <4>4, <4>5 DEF Counted
    <3>. QED
      BY <3>1, <3>2
  <2>. QED
    BY <2>1, <2>2, <2>3 DEF Crossing
<1>. QED
  BY <1>5, <1>6, <1>7

LEMMA TalliedStep ==
  ASSUME ZInv, LInv, NEW zone \in [Objects -> Place], NEW t \in Nat, t >= now, t = now',
         Analyse(zone, t), frames' = frames + 1, frames \in Nat, frames' \in 0 .. MaxFrames
  PROVE  Tallied'
<1>. SUFFICES ASSUME NEW a \in Zones, NEW b \in Zones
              PROVE  transitions'[<<a, b>>] = Cardinality(Crossings(a, b)')
  BY DEF Tallied
<1>. DEFINE C     == {o \in Objects : Counted(o, zone, t) /\ <<a, b>> = <<Origin(o, t), zone[o]>>}
            D     == {<<o, Spot(o)>> : o \in C}
            spots == [o \in C |-> <<o, Spot(o)>>]
            Old   == Crossings(a, b)
            All   == Objects \X (1 .. MaxFrames * 2)
<1>1. transitions'[<<a, b>>] = transitions[<<a, b>>] + Cardinality(C)
  BY DEF Analyse
<1>2. transitions[<<a, b>>] = Cardinality(Old)
  BY DEF LInv, Tallied
<1>3. MaxFrames \in Nat /\ IsFiniteSet(Objects)
  BY TrackingAssumption
<1>4. IsFiniteSet(C)
  BY <1>3, FS_Subset
<1>5. IsFiniteSet(Old)
  <2>1. IsFiniteSet(1 .. MaxFrames * 2)
    BY <1>3, FS_Interval
  <2>2. IsFiniteSet(All)
    BY <1>3, <2>1, FS_Product
  <2>3. Old \in SUBSET All
    BY DEF Crossings
  <2>. QED
    BY <2>2, <2>3, FS_Subset
<1>6. IsFiniteSet(D) /\ Cardinality(D) = Cardinality(C)
  <2>1. spots \in [C -> D] /\ (\A x, y \in C : spots[x] = spots[y] => x = y)
        /\ \A d \in D : \E x \in C : spots[x] = d
    OBVIOUS
  <2>2. spots \in Bijection(C, D)
    BY <2>1 DEF Bijection, Injection, Surjection, IsInjective
  <2>3. ExistsBijection(C, D)
    BY <2>2 DEF ExistsBijection
  <2>. QED
    BY <1>4, <2>3, FS_Bijection
<1>7. ASSUME NEW o \in C
      PROVE  o \in Objects /\ Spot(o) \in 1 .. MaxFrames * 2 /\ ~Crossing(events[o], Spot(o), a, b)
  <2>1. o \in Objects /\ Enters(o, zone) /\ Origin(o, t) # None
    BY DEF Counted
  <2>2. Logged(o) /\ Logged(o)' /\ Len(events[o]) \in Nat
    BY <2>1, LoggedStep, LogStep DEF LInv
  <2>3. Len(events'[o]) = Spot(o) + 1 /\ Spot(o) \in {Len(events[o]), Len(events[o]) + 1}
    BY <2>1, LogStep DEF Spot
  <2>4. Spot(o) < MaxFrames * 2
    BY <1>3, <2>2, <2>3 DEF Logged, LogOK
  <2>5. Spot(o) # 0
    <3>1. Spot(o) = 0 => last_zone[o] = None /\ Len(events[o]) = 0
      BY <2>2 DEF Spot
    <3>2. Len(events[o]) = 0 => pending[o].zone = None
      BY <2>2 DEF Logged, LogOK
    <3>3. last_zone[o] = None /\ pending[o].zone = None => Origin(o, t) = None
      BY DEF Origin, Prune, NoExit
    <3>. QED
      BY <2>1, <3>1, <3>2, <3>3
  <2>. QED
    BY <1>3, <2>1, <2>2, <2>3, <2>4, <2>5 DEF Crossing
<1>8. Crossings(a, b)' = Old \cup D
  <2>1. ASSUME NEW x \in All
        PROVE  Crossing(events'[x[1]], x[2], a, b) <=> Crossing(events[x[1]], x[2], a, b) \/ x \in D
    <3>1. x[1] \in Objects /\ x[2] \in Nat /\ x[2] > 0 /\ x = <<x[1], x[2]>>
      BY <1>3
    <3>2. Crossing(events'[x[1]], x[2], a, b)
           <=> \/ Crossing(events[x[1]], x[2], a, b)
               \/ x[2] = Spot(x[1]) /\ x[1] \in C
      BY <3>1, CountedLogged DEF LInv
    <3>3. x \in D <=> x[2] = Spot(x[1]) /\ x[1] \in C
      BY <3>1
    <3>. QED
      BY <3>2, <3>3
  <2>2. D \subseteq All
    BY <1>7
  <2>. QED
    BY <2>1, <2>2 DEF Crossings
<1>9. Old \cap D = {}
  BY <1>7 DEF Crossings
<1>. QED
  <2>1. Cardinality(Old \cup D) = Cardinality(Old) + Cardinality(D) - Cardinality(Old \cap D)
    BY <1>5, <1>6, FS_Union
  <2>2. Cardinality(Old \cap D) = 0
    BY <1>9, FS_EmptySet
  <2>3. Cardinality(Old) \in Nat /\ Cardinality(D) \in Nat
    BY <1>5, <1>6, FS_CardinalityType
  <2>. QED
    BY <1>1, <1>2, <1>6, <1>8, <2>1, <2>2, <2>3

LEMMA LInit == Init => LInv
<1>. SUFFICES ASSUME Init PROVE LInv
  OBVIOUS
<1>1. ASSUME NEW o \in Objects PROVE Logged(o)
  BY TrackingAssumption, Parity DEF Init, Logged, LogOK, NoExit
<1>2. ASSUME NEW a \in Zones, NEW b \in Zones PROVE transitions[<<a, b>>] = Cardinality(Crossings(a, b))
  <2>1. Crossings(a, b) = {}
    <3>1. ASSUME NEW x \in Objects \X (1 .. MaxFrames * 2) PROVE ~Crossing(events[x[1]], x[2], a, b)
      <4>1. x[1] \in Objects /\ x[2] \in Nat /\ x[2] > 0
        BY TrackingAssumption
      <4>2. Len(events[x[1]]) = 0
        BY <4>1 DEF Init
      <4>. QED
        BY <4>1, <4>2 DEF Crossing
    <3>. QED
      BY <3>1 DEF Crossings
  <2>. QED
    BY <2>1, FS_EmptySet DEF Init
<1>. QED
  BY <1>1, <1>2 DEF LInv, Tallied

\* A step that leaves logs and totals alone keeps the invariant.
LEMMA Unlogged ==
  ASSUME ZInv, LInv, now' \in Nat, now' >= now, frames' \in Nat, frames' >= frames,
         UNCHANGED <<last_zone, pending, transitions, events>>
  PROVE  LInv'
<1>1. Tallied'
  BY DEF LInv, Tallied, Crossings
<1>2. ASSUME NEW o \in Objects PROVE Logged(o)'
  <2>1. Logged(o) /\ Len(events[o]) \in Nat /\ events[o] \in Seq(Event)
        /\ Window \in Nat /\ now \in Nat /\ frames \in Nat
    BY TrackingAssumption DEF LInv, ZInv, TypeOK
  <2>2. Len(events[o]) > 0 => events[o][Len(events[o])].ts \in Nat
    <3>1. Len(events[o]) > 0 => events[o][Len(events[o])] \in Event
      BY <2>1
    <3>. QED
      BY <3>1 DEF Event
  <2>. QED
    BY <2>1, <2>2 DEF Logged, LogOK
<1>. QED
  BY <1>1, <1>2 DEF LInv

LEMMA LStep == ASSUME ZInv, LInv, [Next]_vars PROVE LInv'
<1>1. ASSUME NEW seen \in SUBSET Objects, NEW at \in [seen -> Place], Frame(seen, at) PROVE LInv'
  <2>1. PICK zone \in [Objects -> Place], t \in Nat :
           /\ zone = place' /\ t = now' /\ t = last_ts' /\ t >= now /\ t >= last_ts
           /\ Analyse(zone, t)
    BY <1>1, FrameIs
  <2>2. frames \in Nat /\ frames' = frames + 1 /\ frames' \in 0 .. MaxFrames
    BY <1>1, Ticks DEF Frame, ZInv
  <2>3. Tallied'
    BY <2>1, <2>2, TalliedStep
  <2>4. \A o \in Objects : Logged(o)'
    BY <2>1, <2>2, LoggedStep DEF LInv
  <2>. QED
    BY <2>3, <2>4 DEF LInv
<1>2. CASE ReadError
  <2>1. now' \in Nat /\ now' >= now /\ frames' \in Nat /\ frames' >= frames
    BY <1>2, Ticks DEF ReadError, ZInv
  <2>. QED
    BY <1>2, <2>1, Unlogged DEF ReadError, analytics
<1>3. CASE Stop
  <2>1. now' \in Nat /\ now' >= now /\ frames' \in Nat /\ frames' >= frames
    BY <1>3, TrackingAssumption DEF Stop, ZInv, TypeOK
  <2>. QED
    BY <1>3, <2>1, Unlogged DEF Stop, Finalize
<1>4. CASE UNCHANGED vars
  <2>1. now' \in Nat /\ now' >= now /\ frames' \in Nat /\ frames' >= frames
    BY <1>4 DEF vars, ZInv, TypeOK
  <2>. QED
    BY <1>4, <2>1, Unlogged DEF vars, analytics
<1>. QED
  BY <1>1, <1>2, <1>3, <1>4 DEF Next

\* The transition counts are those of the event log (zone_analytics.py lines 158-175): however
\* long an object was away, it counts just if the log has its exit at most Window before.
THEOREM TransitionsAreLogged == Spec => []TransitionsAreExits
<1>1. LInv => TransitionsAreExits
  BY DEF LInv, Tallied, Crossings, Crossing, Even, TransitionsAreExits
<1>. QED
  BY <1>1, ZInit, LInit, ZStep, LStep, PTL DEF Spec

--------------------------------------------------------------------------------
(* Dwell times *)

\* Events are in the order of time, and an open visit began with the last one.
Dated(o) ==
  LET e == events[o] IN
  /\ \A j, k \in 1 .. Len(e) : j <= k => e[j].ts <= e[k].ts
  /\ \A k \in 1 .. Len(e) : e[k].ts <= last_ts
  /\ running /\ ~Even(Len(e)) => enter_ts[o] = e[Len(e)].ts

\* A visit that is over.
Visited(e, z, u) ==
  \E k \in 1 .. Len(e) - 1 : ~Even(k) /\ e[k].zone = z /\ e[k].ts <= u /\ u < e[k + 1].ts

Units(o, z) == {u \in 0 .. now : Visiting(o, z, u)}
Dwelt       == \A o \in Objects, z \in Zones : dwell[<<o, z>>] = Cardinality(Units(o, z))

DInv == (\A o \in Objects : Dated(o)) /\ Dwelt

\* The units of the visits that are over, and of the one that the export closes.
LEMMA UnitsAre ==
  ASSUME ZInv, NEW o \in Objects, Dated(o), NEW z
  PROVE  /\ running => Units(o, z) = {u \in Nat : Visited(events[o], z, u)}
         /\ ~running => Units(o, z) = {u \in Nat : Visited(events[o], z, u)}
              \cup (IF ~Even(Len(events[o])) /\ events[o][Len(events[o])].zone = z
                    THEN events[o][Len(events[o])].ts .. last_ts - 1 ELSE {})
<1>0. PICK e : e = events[o]
  OBVIOUS
<1>1. PICK n \in Nat : n = Len(e) /\ e \in Seq(Event) /\ DOMAIN e = 1 .. n
  BY <1>0 DEF ZInv, TypeOK
<1>2. /\ \A k \in 1 .. n : e[k].ts \in Nat /\ e[k].ts <= last_ts
      /\ last_ts \in Nat /\ now \in Nat /\ last_ts <= now
  <2>1. \A k \in 1 .. n : e[k] \in Event
    BY <1>1
  <2>2. \A k \in 1 .. n : e[k].ts <= last_ts
    BY <1>0, <1>1 DEF Dated
  <2>. QED
    BY <2>1, <2>2 DEF Event, ZInv, TypeOK
<1>3. \A k \in 1 .. n : k % 2 = 1 <=> ~Even(k)
  BY DEF Even
<1>4. ~Even(n) => n \in 1 .. n
  BY Parity
<1>5. ASSUME NEW u \in Nat
      PROVE  Visiting(o, z, u) <=>
               \/ Visited(e, z, u)
               \/ /\ ~running /\ ~Even(n) /\ e[n].zone = z
                  /\ e[n].ts <= u /\ u < last_ts
  <2>1. Visiting(o, z, u) <=>
          \E k \in 1 .. n : /\ ~Even(k) /\ e[k].zone = z /\ e[k].ts <= u /\ u < VisitEnd(o, k)
    BY <1>0, <1>1, <1>3 DEF Visiting
  <2>2. ASSUME NEW k \in 1 .. n
        PROVE  VisitEnd(o, k) = IF k < n THEN e[k + 1].ts ELSE IF running THEN e[k].ts ELSE last_ts
    BY <1>0, <1>1 DEF VisitEnd
  <2>3. \A k \in 1 .. n : (k \in 1 .. n - 1 <=> k < n) /\ (k = n \/ k < n)
    OBVIOUS
  <2>4. \A k \in 1 .. n - 1 : k \in 1 .. n
    OBVIOUS
  <2>5. \A k \in 1 .. n : ~(e[k].ts <= u /\ u < e[k].ts)
    BY <1>2
  <2>6. Visited(e, z, u) <=>
          \E k \in 1 .. n : k < n /\ ~Even(k) /\ e[k].zone = z /\ e[k].ts <= u /\ u < e[k + 1].ts
    BY <1>1, <2>3, <2>4 DEF Visited
  <2>7. ASSUME NEW k \in 1 .. n
        PROVE  u < VisitEnd(o, k) /\ e[k].ts <= u <=>
                 /\ e[k].ts <= u
                 /\ \/ k < n /\ u < e[k + 1].ts
                    \/ k = n /\ ~running /\ u < last_ts
    BY <2>2, <2>3, <2>5
  <2>. QED
    BY <1>4, <2>1, <2>6, <2>7
<1>6. ASSUME NEW u \in Nat, Visited(e, z, u) PROVE u \in 0 .. now
  <2>1. PICK k \in 1 .. n - 1 : u < e[k + 1].ts
    BY <1>1, <1>6 DEF Visited
  <2>2. k + 1 \in 1 .. n
    OBVIOUS
  <2>. QED
    BY <1>2, <2>1, <2>2
<1>7. \A u \in 0 .. now : u \in Nat
  BY <1>2
<1>8. CASE running
  BY <1>0, <1>5, <1>6, <1>7, <1>8 DEF Units
<1>9. CASE ~running
  <2>1. ASSUME NEW u \in Nat, ~Even(n)
        PROVE  e[n].ts <= u /\ u < last_ts <=> u \in e[n].ts .. last_ts - 1
    BY <1>2, <1>4, <2>1
  <2>2. ASSUME NEW u \in e[n].ts .. last_ts - 1, ~Even(n) PROVE u \in 0 .. now /\ u \in Nat
    BY <1>2, <1>4, <2>2
  <2>. QED
    BY <1>0, <1>1, <1>5, <1>6, <1>7, <1>9, <2>1, <2>2 DEF Units
<1>. QED
  BY <1>8, <1>9

\* That is so after a step as well.
UnitsCounted ==
  ZInv /\ (\A o \in Objects : Dated(o)) =>
    \A o \in Objects, z \in Zones :
      /\ running => Units(o, z) = {u \in Nat : Visited(events[o], z, u)}
      /\ ~running => Units(o, z) = {u \in Nat : Visited(events[o], z, u)}
           \cup (IF ~Even(Len(events[o])) /\ events[o][Len(events[o])].zone = z
                 THEN events[o][Len(events[o])].ts .. last_ts - 1 ELSE {})

LEMMA UnitsNext == UnitsCounted'
<1>1. UnitsCounted
  BY UnitsAre DEF UnitsCounted
<1>. QED
  BY <1>1, PTL

\* What is over by then lies before the open visit.
LEMMA Earlier ==
  ASSUME ZInv, NEW o \in Objects, Dated(o), NEW z, NEW u \in Nat, Visited(events[o], z, u)
  PROVE  Len(events[o]) > 0 /\ u < events[o][Len(events[o])].ts
<1>0. PICK e : e = events[o]
  OBVIOUS
<1>1. PICK n \in Nat : n = Len(e) /\ e \in Seq(Event)
  BY <1>0 DEF ZInv, TypeOK
<1>2. PICK k \in 1 .. n - 1 : u < e[k + 1].ts
  BY <1>0, <1>1 DEF Visited
<1>3. k + 1 \in 1 .. n /\ n \in 1 .. n /\ k + 1 <= n
  OBVIOUS
<1>4. e[k + 1].ts <= e[n].ts
  BY <1>0, <1>1, <1>3 DEF Dated
<1>5. e[k + 1] \in Event /\ e[n] \in Event
  BY <1>1, <1>3
<1>. QED
  BY <1>0, <1>1, <1>2, <1>3, <1>4, <1>5 DEF Event

\* A visit adds what lies between its beginning and its end.
LEMMA Longer ==
  ASSUME NEW U, IsFiniteSet(U), NEW s \in Nat, NEW t \in Nat, s <= t,
         \A u \in U : u \in Nat /\ u < s
  PROVE  Cardinality(U \cup (s .. t - 1)) = Cardinality(U) + (t - s)
<1>1. IsFiniteSet(s .. t - 1) /\ Cardinality(s .. t - 1) = t - s
  <2>1. PICK r \in Int : r = t - 1
    OBVIOUS
  <2>2. IsFiniteSet(s .. r) /\ Cardinality(s .. r) = IF s > r THEN 0 ELSE r - s + 1
    BY FS_Interval
  <2>. QED
    BY <2>1, <2>2
<1>2. U \cap (s .. t - 1) = {}
  OBVIOUS
<1>3. Cardinality(U \cup (s .. t - 1)) = Cardinality(U) + Cardinality(s .. t - 1) - Cardinality(U \cap (s .. t - 1))
  BY <1>1, FS_Union
<1>4. Cardinality(U) \in Nat /\ Cardinality(U \cap (s .. t - 1)) = 0
  BY <1>2, FS_CardinalityType, FS_EmptySet
<1>. QED
  BY <1>1, <1>3, <1>4

LEMMA UnitsFinite == ASSUME ZInv, NEW o, NEW z PROVE IsFiniteSet(Units(o, z))
<1>1. IsFiniteSet(0 .. now)
  BY FS_Interval DEF ZInv, TypeOK
<1>. QED
  BY <1>1, FS_Subset DEF Units

LEMMA DatedStep ==
  ASSUME ZInv, NEW zone \in [Objects -> Place], NEW t \in Nat, t >= last_ts, t = last_ts', running,
         Analyse(zone, t), NEW o \in Objects, Logged(o), Dated(o)
  PROVE  Dated(o)'
<1>0. PICK e, f : e = events[o] /\ f = events'[o]
  OBVIOUS
<1>1. PICK n \in Nat : n = Len(e) /\ e \in Seq(Event)
  BY <1>0, LogStep
<1>2. PICK m \in Nat : m = Len(f) /\ f \in Seq(Event)
  BY <1>0, AnalyseType
<1>3. /\ \A k \in 1 .. n : f[k] = e[k] /\ e[k].ts \in Nat /\ e[k].ts <= t
      /\ \A j, k \in 1 .. n : j <= k => e[j].ts <= e[k].ts
  <2>1. \A k \in 1 .. n : f[k] = e[k]
    BY <1>0, <1>1, LogStep
  <2>2. \A k \in 1 .. n : e[k].ts <= last_ts
    BY <1>0, <1>1 DEF Dated
  <2>3. \A k \in 1 .. n : e[k] \in Event
    BY <1>1
  <2>4. \A j, k \in 1 .. n : j <= k => e[j].ts <= e[k].ts
    BY <1>0, <1>1 DEF Dated
  <2>. QED
    BY <2>1, <2>2, <2>3, <2>4 DEF Event, ZInv, TypeOK
<1>4. \A k \in 1 .. m : k > n => f[k].ts = t
  <2>1. /\ Exits(o, zone) => f[n + 1].ts = t
        /\ Enters(o, zone) => m = Spot(o) + 1 /\ f[Spot(o) + 1].ts = t
        /\ Exits(o, zone) /\ ~Enters(o, zone) => m = n + 1
        /\ ~Exits(o, zone) /\ ~Enters(o, zone) => m = n
    <3>1. /\ Exits(o, zone) => events'[o][Len(events[o]) + 1].ts = t
          /\ Enters(o, zone) => /\ Len(events'[o]) = Spot(o) + 1 /\ events'[o][Spot(o) + 1].ts = t
          /\ Exits(o, zone) /\ ~Enters(o, zone) => Len(events'[o]) = Len(events[o]) + 1
          /\ ~Exits(o, zone) /\ ~Enters(o, zone) => Len(events'[o]) = Len(events[o])
      BY LogStep
    <3>. QED
      BY <1>0, <1>1, <1>2, <3>1
  <2>2. Enters(o, zone) => \/ Spot(o) = n /\ ~Exits(o, zone)
                           \/ Spot(o) = n + 1 /\ Exits(o, zone)
    BY <1>0, <1>1 DEF Spot, Enters, Exits
  <2>. QED
    BY <2>1, <2>2
<1>5. m >= n
  BY <1>0, <1>1, <1>2, LogStep DEF Spot
<1>6. /\ \A j, k \in 1 .. m : j <= k => f[j].ts <= f[k].ts
      /\ \A k \in 1 .. m : f[k].ts <= t
  BY <1>3, <1>4, <1>5
<1>7. ASSUME ~Even(m) PROVE enter_ts'[o] = f[m].ts
  <2>1. enter_ts'[o] = IF Enters(o, zone) THEN t ELSE IF Exits(o, zone) THEN None ELSE enter_ts[o]
    BY DEF Analyse
  <2>2. CASE Enters(o, zone)
    <3>1. m = Spot(o) + 1 /\ f[Spot(o) + 1].ts = t
      BY <1>0, <1>2, <2>2, LogStep
    <3>. QED
      BY <2>1, <2>2, <3>1
  <2>3. CASE Exits(o, zone) /\ ~Enters(o, zone)
    <3>1. m = n + 1 /\ ~Even(n)
      <4>1. last_zone[o] # None
        BY <2>3 DEF Exits
      <4>. QED
        BY <1>0, <1>1, <1>2, <2>3, <4>1, LogStep DEF Logged, LogOK
    <3>. QED
      BY <1>7, <3>1, Parity
  <2>4. CASE ~Exits(o, zone) /\ ~Enters(o, zone)
    <3>1. m = n /\ n > 0
      BY <1>0, <1>1, <1>2, <1>7, <2>4, LogStep, Parity
    <3>2. enter_ts[o] = e[n].ts
      BY <1>0, <1>1, <1>7, <3>1 DEF Dated
    <3>. QED
      BY <1>3, <2>1, <2>4, <3>1, <3>2
  <2>. QED
    BY <2>2, <2>3, <2>4
<1>. QED
  BY <1>0, <1>2, <1>6, <1>7 DEF Dated

\* A frame ends the open visit of an object that is elsewhere.
LEMMA VisitedStep ==
  ASSUME ZInv, NEW zone \in [Objects -> Place], NEW t \in Nat, Analyse(zone, t),
         NEW o \in Objects, Logged(o), NEW z, NEW u \in Nat
  PROVE  Visited(events'[o], z, u)
           <=> \/ Visited(events[o], z, u)
               \/ /\ Exits(o, zone) /\ z = last_zone[o]
                  /\ events[o][Len(events[o])].ts <= u /\ u < t
<1>0. PICK e, f : e = events[o] /\ f = events'[o]
  OBVIOUS
<1>1. PICK n \in Nat : n = Len(e) /\ e \in Seq(Event)
  BY <1>0, LogStep
<1>2. /\ Even(n) <=> last_zone[o] = None
      /\ ~Even(n) => n > 0 /\ e[n].zone = last_zone[o]
      /\ Even(n + 1) <=> ~Even(n)
  <2>1. LogOK(e, last_zone[o], pending[o], now, 2 * frames)
    BY <1>0 DEF Logged
  <2>. QED
    BY <1>1, <2>1, Parity DEF LogOK
<1>3. /\ \A k \in 1 .. n : f[k] = e[k]
      /\ Exits(o, zone) => f[n + 1].ts = t /\ (Len(f) = n + 1 \/ Len(f) = n + 2)
      /\ ~Exits(o, zone) => Len(f) = n \/ (Even(n) /\ Len(f) = n + 1)
  <2>1. /\ \A k \in 1 .. Len(events[o]) : events'[o][k] = events[o][k]
        /\ Exits(o, zone) => events'[o][Len(events[o]) + 1].ts = t
        /\ Enters(o, zone) => Len(events'[o]) = Spot(o) + 1
        /\ Exits(o, zone) /\ ~Enters(o, zone) => Len(events'[o]) = Len(events[o]) + 1
        /\ ~Exits(o, zone) /\ ~Enters(o, zone) => Len(events'[o]) = Len(events[o])
    BY LogStep
  <2>2. Enters(o, zone) => \/ Spot(o) = n /\ ~Exits(o, zone) /\ Even(n)
                           \/ Spot(o) = n + 1 /\ Exits(o, zone)
    BY <1>0, <1>1, <1>2 DEF Spot, Enters, Exits
  <2>. QED
    BY <1>0, <1>1, <2>1, <2>2
<1>. SUFFICES Visited(f, z, u)
           <=> \/ Visited(e, z, u)
               \/ Exits(o, zone) /\ z = last_zone[o] /\ e[n].ts <= u /\ u < t
  BY <1>0, <1>1
<1>4. ASSUME NEW k \in 1 .. n - 1 PROVE f[k] = e[k] /\ f[k + 1] = e[k + 1] /\ k \in 1 .. Len(f) - 1
  <2>1. k \in 1 .. n /\ k + 1 \in 1 .. n
    OBVIOUS
  <2>2. k \in 1 .. Len(f) - 1
    BY <1>3
  <2>. QED
    BY <1>3, <2>1, <2>2
<1>5. CASE Exits(o, zone)
  <2>1. ~Even(n) /\ n \in 1 .. n /\ n \in 1 .. Len(f) - 1
    BY <1>2, <1>3, <1>5 DEF Exits
  <2>2. \A k \in 1 .. Len(f) - 1 : ~Even(k) => k \in 1 .. n - 1 \/ k = n
    <3>1. \A k \in 1 .. Len(f) - 1 : k \in 1 .. n - 1 \/ k = n \/ k = n + 1
      BY <1>3, <1>5
    <3>. QED
      BY <1>2, <2>1, <3>1
  <2>3. f[n] = e[n] /\ e[n].zone = last_zone[o] /\ f[n + 1].ts = t
    BY <1>2, <1>3, <1>5, <2>1
  <2>. QED
    BY <1>1, <1>4, <1>5, <2>1, <2>2, <2>3 DEF Visited
<1>6. CASE ~Exits(o, zone)
  <2>1. \A k \in 1 .. Len(f) - 1 : ~Even(k) => k \in 1 .. n - 1
    <3>1. \A k \in 1 .. Len(f) - 1 : k \in 1 .. n - 1 \/ (k = n /\ Even(n))
      BY <1>3, <1>6
    <3>. QED
      BY <3>1
  <2>. QED
    BY <1>1, <1>4, <1>6, <2>1 DEF Visited
<1>. QED
  BY <1>5, <1>6

LEMMA DInit == Init => DInv
<1>. SUFFICES ASSUME Init PROVE DInv
  OBVIOUS
<1>1. ASSUME NEW o \in Objects PROVE Dated(o)
  BY Parity DEF Init, Dated
<1>2. ASSUME NEW o \in Objects, NEW z \in Zones PROVE Units(o, z) = {} /\ dwell[<<o, z>>] = 0
  BY DEF Init, Units, Visiting
<1>. QED
  BY <1>1, <1>2, FS_EmptySet DEF DInv, Dwelt

LEMMA DwellStep ==
  ASSUME ZInv, ZInv', DInv, running, running', NEW zone \in [Objects -> Place], NEW t \in Nat,
         t >= last_ts, Analyse(zone, t), \A o \in Objects : Dated(o) /\ Dated(o)' /\ Logged(o),
         NEW o \in Objects, NEW z \in Zones
  PROVE  dwell'[<<o, z>>] = Cardinality(Units(o, z)')
<1>0. PICK e : e = events[o]
  OBVIOUS
<1>1. PICK n \in Nat : n = Len(e) /\ e \in Seq(Event)
  BY <1>0 DEF ZInv, TypeOK
<1>2. PICK U : U = Units(o, z)
  OBVIOUS
<1>3. U = {u \in Nat : Visited(e, z, u)} /\ IsFiniteSet(U) /\ dwell[<<o, z>>] = Cardinality(U)
  BY <1>0, <1>2, UnitsAre, UnitsFinite DEF DInv, Dwelt
<1>4. PICK V : V = Units(o, z)' /\ V = {u \in Nat : Visited(events'[o], z, u)}
  BY UnitsNext DEF UnitsCounted
<1>5. \A u : u \in V <=> /\ u \in Nat
                         /\ \/ u \in U
                            \/ Exits(o, zone) /\ z = last_zone[o] /\ e[n].ts <= u /\ u < t
  <2>1. ASSUME NEW u \in Nat
        PROVE  Visited(events'[o], z, u)
                 <=> \/ Visited(e, z, u)
                     \/ Exits(o, zone) /\ z = last_zone[o] /\ e[n].ts <= u /\ u < t
    BY <1>0, <1>1, VisitedStep
  <2>2. \A u : u \in U <=> u \in Nat /\ Visited(e, z, u)
    BY <1>3
  <2>3. \A u : u \in V <=> u \in Nat /\ Visited(events'[o], z, u)
    BY <1>4
  <2>. QED
    BY <2>1, <2>2, <2>3
<1>6. dwell'[<<o, z>>] = IF Exits(o, zone) /\ z = last_zone[o]
                         THEN dwell[<<o, z>>] + Stay(o, t) ELSE dwell[<<o, z>>]
  BY DEF Analyse
<1>7. CASE Exits(o, zone) /\ z = last_zone[o]
  <2>1. ~Even(n) /\ n \in 1 .. n
    <3>1. LogOK(e, last_zone[o], pending[o], now, 2 * frames)
      BY <1>0 DEF Logged
    <3>2. ~Even(n)
      BY <1>1, <1>7, <3>1 DEF LogOK, Exits
    <3>. QED
      BY <3>2, Parity
  <2>2. PICK s \in Nat : s = e[n].ts
    <3>1. e[n] \in Event
      BY <1>1, <2>1
    <3>. QED
      BY <3>1 DEF Event
  <2>3. s <= t /\ enter_ts[o] = s
    BY <1>0, <1>1, <2>1, <2>2 DEF Dated, ZInv, TypeOK
  <2>4. Stay(o, t) = t - s
    BY <2>3, TrackingAssumption DEF Stay
  <2>5. \A u \in U : u \in Nat /\ u < s
    BY <1>0, <1>1, <1>3, <2>2, Earlier
  <2>6. V = U \cup (s .. t - 1)
    <3>1. \A u \in Nat : s <= u /\ u < t <=> u \in s .. t - 1
      OBVIOUS
    <3>2. \A u \in s .. t - 1 : u \in Nat
      OBVIOUS
    <3>. QED
      BY <1>5, <1>7, <2>2, <2>5, <3>1, <3>2
  <2>7. Cardinality(U \cup (s .. t - 1)) = Cardinality(U) + (t - s)
    BY <1>3, <2>3, <2>5, Longer
  <2>. QED
    BY <1>3, <1>4, <1>6, <1>7, <2>4, <2>6, <2>7
<1>8. CASE ~(Exits(o, zone) /\ z = last_zone[o])
  <2>1. \A u : u \in U => u \in Nat
    BY <1>3
  <2>2. V = U
    BY <1>5, <1>8, <2>1
  <2>. QED
    BY <1>3, <1>4, <1>6, <1>8, <2>2
<1>. QED
  BY <1>7, <1>8

LEMMA DFrame ==
  ASSUME ZInv, LInv, DInv, NEW seen \in SUBSET Objects, NEW at \in [seen -> Place], Frame(seen, at)
  PROVE  DInv'
<1>1. PICK zone \in [Objects -> Place], t \in Nat :
           /\ zone = place' /\ t = now' /\ t = last_ts' /\ t >= now /\ t >= last_ts
           /\ Analyse(zone, t)
  BY FrameIs
<1>2. running /\ running' = running /\ ZInv'
  BY ZFrame DEF Frame, Tick
<1>3. ASSUME NEW o \in Objects PROVE Dated(o) /\ Dated(o)' /\ Logged(o)
  BY <1>1, <1>2, DatedStep DEF LInv, DInv
<1>4. ASSUME NEW o \in Objects, NEW z \in Zones
      PROVE  dwell'[<<o, z>>] = Cardinality(Units(o, z)')
  BY <1>1, <1>2, <1>3, DwellStep
<1>. QED
  BY <1>3, <1>4 DEF DInv, Dwelt

LEMMA DStop == ASSUME ZInv, LInv, DInv, Stop PROVE DInv'
<1>1. PICK t \in Nat : t = last_ts' /\ t >= last_ts
  BY TrackingAssumption DEF Stop, ZInv, TypeOK
<1>2. /\ running /\ running' = FALSE /\ events' = events /\ ZInv'
      /\ dwell' = [k \in Objects \X Zones |->
                 IF k[2] = last_zone[k[1]] THEN dwell[k] + Stay(k[1], t) ELSE dwell[k]]
  BY <1>1, ZStop DEF Stop, Finalize
<1>3. ASSUME NEW o \in Objects PROVE Dated(o) /\ Dated(o)' /\ Logged(o)
  <2>1. \A k \in 1 .. Len(events[o]) : events[o][k].ts \in Nat /\ events[o][k].ts <= t
    <3>1. events[o] \in Seq(Event) /\ last_ts \in Nat
      BY DEF ZInv, TypeOK
    <3>2. \A k \in 1 .. Len(events[o]) : events[o][k] \in Event /\ events[o][k].ts <= last_ts
      BY <3>1 DEF DInv, Dated
    <3>. QED
      BY <1>1, <3>1, <3>2 DEF Event
  <2>. QED
    BY <1>1, <1>2, <2>1 DEF DInv, LInv, Dated
<1>4. ASSUME NEW o \in Objects, NEW z \in Zones
      PROVE  dwell'[<<o, z>>] = Cardinality(Units(o, z)')
  <2>0. PICK e : e = events[o]
    OBVIOUS
  <2>1. PICK n \in Nat : n = Len(e) /\ e \in Seq(Event)
    BY <2>0 DEF ZInv, TypeOK
  <2>2. PICK U : U = Units(o, z)
    OBVIOUS
  <2>3. U = {u \in Nat : Visited(e, z, u)} /\ IsFiniteSet(U) /\ dwell[<<o, z>>] = Cardinality(U)
    BY <1>2, <1>3, <2>0, <2>2, UnitsAre, UnitsFinite DEF DInv, Dwelt
  <2>4. Units(o, z)' = U \cup (IF ~Even(n) /\ e[n].zone = z THEN e[n].ts .. t - 1 ELSE {})
    <3>1. Units(o, z)' = {u \in Nat : Visited(events'[o], z, u)}
              \cup (IF ~Even(Len(events'[o])) /\ events'[o][Len(events'[o])].zone = z
                    THEN events'[o][Len(events'[o])].ts .. last_ts' - 1 ELSE {})
      BY <1>2, <1>3, UnitsNext DEF UnitsCounted
    <3>. QED
      BY <1>1, <1>2, <2>0, <2>1, <2>3, <3>1
  <2>5. ~Even(n) /\ e[n].zone = z <=> last_zone[o] = z
    <3>1. LogOK(e, last_zone[o], pending[o], now, 2 * frames)
      BY <1>3, <2>0 DEF Logged
    <3>. QED
      BY <2>1, <3>1, TrackingAssumption DEF LogOK
  <2>6. dwell'[<<o, z>>] = IF z = last_zone[o] THEN dwell[<<o, z>>] + Stay(o, t) ELSE dwell[<<o, z>>]
    BY <1>2
  <2>7. CASE last_zone[o] = z
    <3>1. ~Even(n) /\ n \in 1 .. n
      BY <2>1, <2>5, <2>7, Parity
    <3>2. PICK s \in Nat : s = e[n].ts
      <4>1. e[n] \in Event
        BY <2>1, <3>1
      <4>. QED
        BY <4>1 DEF Event
    <3>3. s <= t /\ enter_ts[o] = s
      BY <1>1, <1>2, <1>3, <2>0, <2>1, <3>1, <3>2 DEF Dated, ZInv, TypeOK
    <3>4. Stay(o, t) = t - s
      BY <3>3, TrackingAssumption DEF Stay
    <3>5. \A u \in U : u \in Nat /\ u < s
      BY <1>3, <2>0, <2>1, <2>3, <3>2, Earlier
    <3>7. Cardinality(U \cup (s .. t - 1)) = Cardinality(U) + (t - s)
      BY <2>3, <3>3, <3>5, Longer
    <3>. QED
      BY <2>3, <2>4, <2>5, <2>6, <2>7, <3>2, <3>4, <3>7
  <2>8. CASE last_zone[o] # z
    BY <2>3, <2>4, <2>5, <2>6, <2>8
  <2>. QED
    BY <2>7, <2>8
<1>. QED
  BY <1>3, <1>4 DEF DInv, Dwelt

LEMMA DStep == ASSUME ZInv, LInv, DInv, [Next]_vars PROVE DInv'
<1>1. CASE ReadError \/ UNCHANGED vars
  <2>1. UNCHANGED <<running, last_ts, events, dwell, enter_ts>> /\ ZInv'
        /\ (~running => now' = now)
    BY <1>1, ZStep DEF ReadError, Tick, vars, analytics, Next
  <2>2. ASSUME NEW o \in Objects PROVE Dated(o) /\ Dated(o)'
    BY <2>1 DEF DInv, Dated
  <2>3. ASSUME NEW o \in Objects, NEW z \in Zones PROVE Units(o, z)' = Units(o, z)
    <3>1. CASE running
      <4>1. Units(o, z)' = {u \in Nat : Visited(events'[o], z, u)}
        BY <2>1, <2>2, <3>1, UnitsNext DEF UnitsCounted
      <4>2. Units(o, z) = {u \in Nat : Visited(events[o], z, u)}
        BY <2>2, <3>1, UnitsAre
      <4>. QED
        BY <2>1, <4>1, <4>2
    <3>2. CASE ~running
      BY <2>1, <3>2 DEF Units, Visiting, VisitEnd
    <3>. QED
      BY <3>1, <3>2
  <2>. QED
    BY <2>1, <2>2, <2>3 DEF DInv, Dwelt
<1>. QED
  BY <1>1, DFrame, DStop DEF Next

\* The dwell times are those of the event log (zone_analytics.py lines 58-67 and 181-187):
\* each visit is charged once, to its zone, however it ends.
THEOREM DwellIsLogged == Spec => []DwellIsVisits
<1>1. DInv => DwellIsVisits
  BY DEF DInv, Dwelt, Units, DwellIsVisits
<1>. QED
  BY <1>1, ZInit, LInit, DInit, ZStep, LStep, DStep, PTL DEF Spec

================================================================================
