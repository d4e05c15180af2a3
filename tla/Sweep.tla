------------------------------- MODULE Sweep --------------------------------
(***************************************************************************)
(* What SCAN promises, without its cursor arithmetic: the keys lie at      *)
(* fixed places on a line, and an iteration walks the line from one end to *)
(* the other in blocks, returning what is in each block when it gets       *)
(* there.  A block may begin before the walker (keys are then returned     *)
(* again) but never after it.                                              *)
(***************************************************************************)
EXTENDS Integers

CONSTANTS
  Keys,
  Places,   \* how long the line is
  Place     \* key -> its place

(* Every key has its place on the line.                                    *)
KeysOnLine ==
  /\ Places \in Nat \ {0}
  /\ Place \in [Keys -> 0..Places-1]

VARIABLES
  present,    \* the keys that exist
  walking,    \* is an iteration in progress?
  pos,        \* where the walker is: the places below are behind it
  steady,     \* keys that exist since the iteration began
  returned    \* keys the iteration has returned

vars == <<present, walking, pos, steady, returned>>

Init ==
  /\ present \subseteq Keys
  /\ walking = FALSE
  /\ pos = 0
  /\ steady = {}
  /\ returned = {}

(* Any writer may create and remove keys at any time.                      *)
Change ==
  /\ present' \in SUBSET Keys
  /\ steady' = steady \cap present'
  /\ UNCHANGED <<walking, pos, returned>>

Begin ==
  /\ ~walking
  /\ walking' = TRUE
  /\ steady' = present
  /\ returned' = {}
  /\ UNCHANGED <<present, pos>>

(* Return the keys present in the places lo..hi-1 and move to hi; the walk *)
(* that reaches the end of the line goes back to its beginning and stops.  *)
Walk(lo, hi) ==
  /\ walking
  /\ lo <= pos /\ pos < hi
  /\ returned' = returned \cup {k \in present : lo <= Place[k] /\ Place[k] < hi}
  /\ pos' = IF hi < Places THEN hi ELSE 0
  /\ walking' = (hi < Places)
  /\ UNCHANGED <<present, steady>>

Next ==
  \/ Change
  \/ Begin
  \/ \E lo \in 0..Places-1, hi \in 1..Places : Walk(lo, hi)

Spec == Init /\ [][Next]_vars

-----------------------------------------------------------------------------
(* The guarantee of cmd_scan: "a key present from the start of a full      *)
(* iteration to its end is returned at least once".                        *)
Complete == ~walking => steady \subseteq returned
=============================================================================
