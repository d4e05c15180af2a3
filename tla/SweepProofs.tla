---------------------------- MODULE SweepProofs -----------------------------
(***************************************************************************)
(* SCAN's guarantee, for any set of keys, any line and any interleaving of *)
(* writers with the walk.                                                  *)
(***************************************************************************)
EXTENDS Sweep, TLAPS

(* What is behind the walker, and was there all the time, has been         *)
(* returned; between iterations this holds of the whole line.              *)
Behind ==
  \A k \in steady : (walking => Place[k] < pos) => k \in returned

SweepInv ==
  /\ present \subseteq Keys
  /\ walking \in BOOLEAN
  /\ pos \in 0..Places-1
  /\ ~walking => pos = 0
  /\ steady \subseteq present
  /\ Behind

(* The inductive invariant of the walk: a block that starts at or before   *)
(* the walker leaves no gap.                                               *)
THEOREM SweepInvariant == ASSUME KeysOnLine PROVE Spec => []SweepInv
<1>1. Init => SweepInv
  <2> SUFFICES ASSUME Init PROVE SweepInv
    OBVIOUS
  <2>1. walking \in BOOLEAN /\ present \subseteq Keys /\ steady = {}
    BY Zenon DEF Init
  <2>2. pos = 0 /\ 0 \in 0..Places-1
    BY KeysOnLine DEF KeysOnLine, Init
  <2> QED BY <2>1, <2>2 DEF SweepInv, Behind
<1>2. SweepInv /\ [Next]_vars => SweepInv'
  <2> SUFFICES ASSUME SweepInv, [Next]_vars PROVE SweepInv'
    OBVIOUS
  <2>1. CASE Change
    BY <2>1 DEF SweepInv, Behind, Change
  <2>2. CASE Begin
    BY <2>2, KeysOnLine DEF SweepInv, Behind, Begin, KeysOnLine
  <2>3. ASSUME NEW lo \in 0..Places-1, NEW hi \in 1..Places, Walk(lo, hi)
        PROVE SweepInv'
    <3>1. CASE hi < Places
      <4>1. pos' = hi /\ walking' = TRUE
        BY <2>3, <3>1 DEF Walk
      <4>2. ASSUME NEW k \in steady', Place[k] < hi PROVE k \in returned'
        <5>1. k \in steady /\ k \in present /\ Place[k] \in Int
          BY <2>3, <4>2, KeysOnLine DEF Walk, SweepInv, KeysOnLine
        <5>2. CASE Place[k] < pos
          BY <2>3, <5>1, <5>2 DEF Walk, SweepInv, Behind
        <5>3. CASE ~(Place[k] < pos)
          BY <2>3, <4>2, <5>1, <5>3 DEF Walk, SweepInv
        <5> QED BY <5>2, <5>3
      <4> QED
        BY <2>3, <3>1, <4>1, <4>2, KeysOnLine DEF Walk, SweepInv, Behind, KeysOnLine
    <3>2. CASE ~(hi < Places)
      <4>1. pos' = 0 /\ ~walking' /\ hi = Places
        <5>1. ~walking'
          <6>1. walking' = (hi < Places)
            BY <2>3 DEF Walk
          <6> QED BY <3>2, <6>1
        <5> QED BY <2>3, <3>2, <5>1, KeysOnLine DEF Walk, KeysOnLine
      <4>2. ASSUME NEW k \in steady' PROVE k \in returned'
        <5>1. k \in steady /\ k \in present /\ Place[k] \in 0..Places-1
          BY <2>3, <4>2, KeysOnLine DEF Walk, SweepInv, KeysOnLine
        <5>2. CASE Place[k] < pos
          BY <2>3, <5>1, <5>2 DEF Walk, SweepInv, Behind
        <5>3. CASE ~(Place[k] < pos)
          BY <2>3, <4>1, <5>1, <5>3, KeysOnLine DEF Walk, SweepInv, KeysOnLine
        <5> QED BY <5>2, <5>3
      <4> QED
        BY <2>3, <4>1, <4>2, KeysOnLine DEF Walk, SweepInv, Behind, KeysOnLine
    <3> QED BY <3>1, <3>2
  <2>4. CASE UNCHANGED vars
    BY <2>4 DEF SweepInv, Behind, vars
  <2> QED BY <2>1, <2>2, <2>3, <2>4 DEF Next
<1> QED BY <1>1, <1>2, PTL DEF Spec

(* cmd_scan's guarantee: "a key present from the start of a full iteration *)
(* to its end is returned at least once".                                  *)
THEOREM SweepComplete == ASSUME KeysOnLine PROVE Spec => []Complete
<1>1. SweepInv => Complete
  BY DEF SweepInv, Behind, Complete
<1> QED BY <1>1, SweepInvariant, PTL
=============================================================================
