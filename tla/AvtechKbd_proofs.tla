-------------------------- MODULE AvtechKbd_proofs --------------------------
(***************************************************************************)
(* Proofs about the keypad driver, for every set of keys: what holds of    *)
(* the release timer and of the reported key wherever the work item is     *)
(* interrupted.                                                            *)
(***************************************************************************)
EXTENDS AvtechKbd, TLAPS

\* Until the timer was restarted too late, it is armed exactly for a key that counts as
\* pressed and whose report is complete, so that it never fires during the next report.
TimerInOrder ==
  ~late =>
    /\ release => key_pressed /\ pc \notin {"report", "store", "pressed", "known", "stored"}
    /\ pc \in {"report", "store", "known"} => ~key_pressed

\* What the two stores have done so far.
StoresInOrder ==
  /\ pc \in {"known", "stored"} => lastkey = key
  /\ pc \in {"test", "extend", "report", "store", "pressed", "known", "stored"} => key # None
  /\ ~late /\ pc \in {"pressed", "stored"} => key_pressed

IInv == TypeOK /\ PressedIsTimed /\ DownIsPressed /\ TimerInOrder /\ StoresInOrder

\* The driver starts with no key and no timer.
LEMMA IInvInit == Init => IInv
  BY DEF Init, IInv, TypeOK, PressedIsTimed, DownIsPressed, Reporting, TimerInOrder, StoresInOrder

\* Every step keeps the types.
LEMMA TypeStep ==
  ASSUME TypeOK, Next
  PROVE  TypeOK'
<1> USE DEF TypeOK, state, At
<1>1. CASE Interrupt
  BY <1>1 DEF Interrupt
<1>2. CASE PressTimer
  BY <1>2 DEF PressTimer
<1>3. CASE ReleaseTimer
  BY <1>3 DEF ReleaseTimer
<1>4. CASE Check
  BY <1>4 DEF Check
<1>5. CASE ReadRegs
  BY <1>5 DEF ReadRegs
<1>6. CASE Test
  BY <1>6 DEF Test, NextStep
<1>7. CASE Extend
  BY <1>7 DEF Extend
<1>8. CASE Report
  BY <1>8 DEF Report
<1>9. CASE StorePressed
  BY <1>9 DEF StorePressed
<1>10. CASE StoreKey
  BY <1>10 DEF StoreKey
<1>11. CASE Arm
  BY <1>11 DEF Arm
<1> QED
  BY <1>1, <1>2, <1>3, <1>4, <1>5, <1>6, <1>7, <1>8, <1>9, <1>10, <1>11 DEF Next, Work

\* Every step keeps the rest of the invariant.
LEMMA OrderStep ==
  ASSUME IInv, Next
  PROVE  PressedIsTimed' /\ DownIsPressed' /\ TimerInOrder' /\ StoresInOrder'
<1> USE KbdAssumption DEF IInv, TypeOK, PressedIsTimed, DownIsPressed, Reporting, TimerInOrder,
                          StoresInOrder, state, At
<1>1. CASE Interrupt
  BY <1>1 DEF Interrupt
<1>2. CASE PressTimer
  BY <1>2 DEF PressTimer
<1>3. CASE ReleaseTimer
  BY <1>3 DEF ReleaseTimer
<1>4. CASE Check
  BY <1>4 DEF Check
<1>5. CASE ReadRegs
  BY <1>5 DEF ReadRegs
<1>6. CASE Test
  BY <1>6 DEF Test, NextStep
<1>7. CASE Extend
  BY <1>7 DEF Extend
<1>8. CASE Report
  BY <1>8 DEF Report
<1>9. CASE StorePressed
  BY <1>9 DEF StorePressed
<1>10. CASE StoreKey
  BY <1>10 DEF StoreKey
<1>11. CASE Arm
  BY <1>11 DEF Arm
<1> QED
  BY <1>1, <1>2, <1>3, <1>4, <1>5, <1>6, <1>7, <1>8, <1>9, <1>10, <1>11 DEF Next, Work

\* The inductive invariant holds in every behaviour.
THEOREM Invariance == Spec => []IInv
<1>1. IInv /\ [Next]_vars => IInv'
  <2>1. ASSUME IInv, Next PROVE IInv'
    BY <2>1, TypeStep, OrderStep DEF IInv
  <2>2. ASSUME IInv, UNCHANGED vars PROVE IInv'
    BY <2>2 DEF vars, IInv, TypeOK, PressedIsTimed, DownIsPressed, Reporting, TimerInOrder,
                StoresInOrder
  <2> QED
    BY <2>1, <2>2
<1> QED
  BY IInvInit, <1>1, PTL DEF Spec

\* The driver's variables and the input core's keys keep their types.
THEOREM TypeCorrect == Spec => []TypeOK
<1>1. IInv => TypeOK
  BY DEF IInv
<1> QED
  BY <1>1, Invariance, PTL

\* A key that counts as pressed always has a timer that will end it, whatever interrupts
\* the work item and in whichever order its stores are emitted.
THEOREM PressIsTimed == Spec => []PressedIsTimed
<1>1. IInv => PressedIsTimed
  BY DEF IInv
<1> QED
  BY <1>1, Invariance, PTL

\* Exactly the pressed key is down, until a release timer is restarted too late.
THEOREM ReportsAgree == Spec => []DownIsPressed
<1>1. IInv => DownIsPressed
  BY DEF IInv
<1> QED
  BY <1>1, Invariance, PTL
=============================================================================
