---------------------------- MODULE BoardUseProofs ------------------------------
(***************************************************************************)
(* What BoardUse promises: with the refinements of ApiServer and Sessions, *)
(* it holds of the connections and of the users of the serial ports.       *)
(***************************************************************************)
EXTENDS BoardUse, TLAPS

\* Taking, using, leaving and giving back a board keep its use exclusive.
LEMMA BoardStepIsExclusive ==
    ASSUME NEW b \in Board, busy[b] \subseteq {owner[b]}, BoardStep(b)
    PROVE  busy'[b] \subseteq {owner'[b]}
<1>1. ASSUME NEW u \in User, Take(b, u)
      PROVE  busy'[b] \subseteq {owner'[b]}
  BY <1>1 DEF Take
<1>2. ASSUME NEW u \in User, Begin(b, u)
      PROVE  busy'[b] \subseteq {owner'[b]}
  BY <1>2 DEF Begin
<1>3. ASSUME NEW u \in User, End(b, u)
      PROVE  busy'[b] \subseteq {owner'[b]}
  BY <1>3 DEF End
<1>4. ASSUME NEW u \in User, GiveBack(b, u)
      PROVE  busy'[b] \subseteq {owner'[b]}
  BY <1>4 DEF GiveBack
<1>5. QED
  BY <1>1, <1>2, <1>3, <1>4 DEF BoardStep

\* Whatever implements BoardUse never lets two users use a board at once
\* (registry/locks.py: one holder per board).
THEOREM UseIsExclusive == Spec => []Exclusive
<1>1. Init => Exclusive
  BY DEF Init, Exclusive
<1>2. Exclusive /\ [Next]_vars => Exclusive'
  BY BoardStepIsExclusive DEF Next, Exclusive, vars
<1>3. QED
  BY <1>1, <1>2, PTL DEF Spec
================================================================================
