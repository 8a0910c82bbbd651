---------------------------- MODULE ChunkWindow ----------------------------
(***************************************************************************)
(* What the chunk buffer promises, whatever its callers do and in whatever  *)
(* order: a window of at most Capacity chunks over an endless upload.       *)
(* Chunks enter the window in order and leave it for good.  Nothing leaves  *)
(* while the window is frozen, and once something has left nobody is        *)
(* admitted any more, so that whoever is admitted finds every chunk there.  *)
(* Why a chunk leaves is not this module's concern.                         *)
(***************************************************************************)
EXTENDS Naturals, FiniteSets

CONSTANTS Member,      \* who may be admitted
          Capacity,    \* chunks in the window
          MaxMembers   \* members at a time

VARIABLES window,   \* the chunks that can be had
          top,      \* the last chunk that entered
          frozen,   \* nothing may leave yet
          closed,   \* something has left
          members   \* who has been admitted and has not departed

vars == <<window, top, frozen, closed, members>>

Init ==
    /\ window = {}
    /\ top = 0
    /\ frozen = TRUE
    /\ closed = FALSE
    /\ members = {}

Enter ==
    /\ Cardinality(window) < Capacity
    /\ top' = top + 1
    /\ window' = window \cup {top + 1}
    /\ UNCHANGED <<frozen, closed, members>>

\* Some chunks leave; thawing may let chunks leave in the same step.
Release ==
    /\ frozen' = FALSE
    /\ window' \subseteq window
    /\ closed' = (closed \/ window' # window)
    /\ UNCHANGED <<top, members>>

Admit(m) ==
    /\ ~closed
    /\ m \notin members
    /\ Cardinality(members) < MaxMembers
    /\ members' = members \cup {m}
    /\ UNCHANGED <<window, top, frozen, closed>>

Depart(m) ==
    /\ m \in members
    /\ members' = members \ {m}
    /\ UNCHANGED <<window, top, frozen, closed>>

Next ==
    \/ Enter
    \/ Release
    \/ \E m \in Member : Admit(m) \/ Depart(m)

Spec == Init /\ [][Next]_vars

-----------------------------------------------------------------------------

\* Whoever is a member before the window closes finds all of the upload in it.
AllThereUntilClosed == ~closed => window = 1..top
=============================================================================
