------------------------------ MODULE PagePool ------------------------------
(***************************************************************************)
(* What a physical page allocator promises its clients: a page is either   *)
(* free or held by exactly one client, an allocation returns some free     *)
(* page, and it is refused only when there is no free page.  The bitmap of *)
(* memory/pm.c (module PhysMem) is the implementation.                     *)
(***************************************************************************)
CONSTANTS
  Frames,      \* the page frames the allocator knows
  InitFree,    \* the frames that are free at the start
  InitHeld     \* the frames in use before the allocator exists

VARIABLES
  free,        \* the frames nobody uses
  held,        \* the frames some client uses
  refused      \* an allocation was refused

poolVars == <<free, held, refused>>

PoolInit ==
  /\ free = InitFree
  /\ held = InitHeld
  /\ refused = FALSE

Allocate(p) ==
  /\ p \in free
  /\ free' = free \ {p}
  /\ held' = held \cup {p}
  /\ UNCHANGED refused

Refuse ==
  /\ free = {}
  /\ refused' = TRUE
  /\ UNCHANGED <<free, held>>

Return(p) ==
  /\ p \in held
  /\ free' = free \cup {p}
  /\ held' = held \ {p}
  /\ UNCHANGED refused

PoolNext ==
  \/ \E p \in Frames : Allocate(p) \/ Return(p)
  \/ Refuse

PoolSpec == PoolInit /\ [][PoolNext]_poolVars
=============================================================================
