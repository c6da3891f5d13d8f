--------------------------- MODULE PublicationAtomic ---------------------------
(***************************************************************************)
(* What metriplane/publication.py promises its callers: a publication      *)
(* replaces a whole set of sibling artifacts, and the pointer that names   *)
(* the set, in one indivisible step, at most once per call and never       *)
(* outside a call.  A call that does not return "ok" may or may not have   *)
(* taken that step; one that returns "ok" has.  Publication.tla is shown   *)
(* to implement this module.                                               *)
(***************************************************************************)
EXTENDS Integers

CONSTANTS
  N,          \* number of sibling destinations of the publication
  Content,    \* what an artifact can hold
  None        \* no artifact, no pointer

Index      == 0 .. (N - 1)
Artifact   == Content \cup {None}
Generation == [Index -> Content]
Outcome    == {"none", "ok", "error", "blocked", "crashed"}
Request    == [gen : Generation, overwrite : BOOLEAN]

VARIABLES
  projection,  \* the public destinations, as a reader may rely on them
  current,     \* the generation named by the pointer
  call,        \* "idle", "recovering", "pending", "committed" or "failing"
  asked,       \* the request of the latest publication call
  reported     \* how the latest call ended

avars == <<projection, current, call, asked, reported>>

AInit == /\ projection \in [Index -> Artifact]
         /\ current = None
         /\ call = "idle"
         /\ asked \in Request
         /\ reported = "none"

\* A caller enters publish_transaction.
Call(r) == /\ call = "idle"
           /\ call' = "pending"
           /\ asked' = r
           /\ reported' = "none"
           /\ UNCHANGED <<projection, current>>

\* A caller enters recover_publication.
CallRecover == /\ call = "idle"
               /\ call' = "recovering"
               /\ reported' = "none"
               /\ UNCHANGED <<projection, current, asked>>

\* The one step that changes what readers see.  Without overwrite nothing may
\* have been there.
Commit == /\ call = "pending"
          /\ asked.overwrite \/ \A i \in Index : projection[i] = None
          /\ projection' = asked.gen
          /\ current' = asked.gen
          /\ call' = "committed"
          /\ UNCHANGED <<asked, reported>>

\* The call meets an error, before or after the commit, and will not report "ok".
GiveUp == /\ call \in {"pending", "committed"}
          /\ call' = "failing"
          /\ UNCHANGED <<projection, current, asked, reported>>

\* "ok" is reported for a committed publication or for a finished recovery
\* only; a failure may be reported at any moment of the call.
Finish(o) == /\ call # "idle"
             /\ o = "ok" => call \in {"committed", "recovering"}
             /\ call' = "idle"
             /\ reported' = o
             /\ UNCHANGED <<projection, current, asked>>

ANext == \/ \E r \in Request : Call(r)
         \/ CallRecover
         \/ Commit
         \/ GiveUp
         \/ \E o \in Outcome \ {"none"} : Finish(o)

ASpec == AInit /\ [][ANext]_avars
================================================================================
