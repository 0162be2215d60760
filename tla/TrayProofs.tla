----------------------------- MODULE TrayProofs -----------------------------
(***************************************************************************)
(* Proofs about Tray, for any bound on the chained updates.                *)
(***************************************************************************)
EXTENDS Tray, TLAPS

-----------------------------------------------------------------------------
(* The inductive invariant.                                                *)

\* Something will still bring the tray to the state: the timer, a chained update or the
\* one under way, unless the state has changed since it began.
WillUpdate == timer \/ pending > 0 \/ loading = state

\* Whatever is out of date is going to be updated, or was refused.
MenuFollows == phase = "added" => menu = state \/ menuMissed \/ WillUpdate
IconFollows ==
    phase = "added" => icon = iconShapeName(state) \/ iconMissed \/ addedStale \/ WillUpdate

IndInv == TypeOK /\ MenuFollows /\ IconFollows

-----------------------------------------------------------------------------
\* A state is not mistaken for "no update under way".
LEMMA NoneIsNoState == None \notin ConnState
BY DEF None, ConnState

\* Every state has one of the three shapes.
LEMMA ShapeType == ASSUME NEW s PROVE iconShapeName(s) \in {"connected", "disconnected", "error"}
BY DEF iconShapeName

\* The tray begins empty.
LEMMA InitInd == Init => IndInv
<1> SUFFICES ASSUME Init PROVE IndInv
  OBVIOUS
<1>1. pending \in 0..MaxPending
  BY MaxPendingAssumption DEF Init
<1>2. TypeOK
  BY <1>1, Zenon DEF Init, TypeOK, ConnState
<1>3. MenuFollows /\ IconFollows
  BY DEF Init, MenuFollows, IconFollows
<1> QED BY <1>2, <1>3 DEF IndInv

\* Types, action by action.
LEMMA TypeStep == TypeOK /\ [Next]_vars => TypeOK'
<1> SUFFICES ASSUME TypeOK, [Next]_vars PROVE TypeOK'
  OBVIOUS
<1> USE MaxPendingAssumption, ShapeType DEF TypeOK
<1>1. CASE AddBegin
  BY <1>1 DEF AddBegin, shown, missed
<1>2. CASE AddEnd
  BY <1>2 DEF AddEnd
<1>3. CASE AddFails
  BY <1>3 DEF AddFails, shown, missed
<1>4. ASSUME NEW s \in ConnState, updateState(s) PROVE TypeOK'
  BY <1>4 DEF updateState, shown, missed
<1>5. CASE TimerFires
  <2>1. pending' \in 0..MaxPending
    BY <1>5 DEF TimerFires
  <2> QED BY <1>5, <2>1, Zenon DEF TimerFires, shown, missed
<1>6. CASE UpdateBegin
  BY <1>6 DEF UpdateBegin, shown, missed
<1>7. CASE UpdateGivesUp
  BY <1>7 DEF UpdateGivesUp, shown, missed
<1>8. ASSUME NEW iconOk \in BOOLEAN, NEW menuOk \in BOOLEAN, UpdateEnd(iconOk, menuOk)
      PROVE TypeOK'
  BY <1>8 DEF UpdateEnd
<1>9. CASE UNCHANGED vars
  BY <1>9 DEF vars, shown, missed
<1> QED BY <1>1, <1>2, <1>3, <1>4, <1>5, <1>6, <1>7, <1>8, <1>9 DEF Next, UpdateReturns

\* Each action either brings the tray up to date or leaves something to do it.
LEMMA FollowStep == IndInv /\ [Next]_vars => MenuFollows' /\ IconFollows'
<1> SUFFICES ASSUME IndInv, [Next]_vars PROVE MenuFollows' /\ IconFollows'
  OBVIOUS
<1> USE DEF IndInv, MenuFollows, IconFollows, WillUpdate
<1>1. CASE AddBegin
  BY <1>1 DEF AddBegin
<1>2. CASE AddEnd
  BY <1>2 DEF AddEnd
<1>3. CASE AddFails
  BY <1>3 DEF AddFails
\* The timer is set again, in case the update under way gives up.
<1>4. ASSUME NEW s \in ConnState, updateState(s) PROVE MenuFollows' /\ IconFollows'
  BY <1>4 DEF updateState, TypeOK
<1>5. CASE TimerFires
  BY <1>5 DEF TimerFires, TypeOK
\* An update begins with the state of now.
<1>6. CASE UpdateBegin
  BY <1>6 DEF UpdateBegin
\* It gives up only after the state has changed, which has left an update to come.
<1>7. CASE UpdateGivesUp
  BY <1>7, NoneIsNoState DEF UpdateGivesUp, TypeOK, shown, missed
<1>8. ASSUME NEW iconOk \in BOOLEAN, NEW menuOk \in BOOLEAN, UpdateEnd(iconOk, menuOk)
      PROVE MenuFollows' /\ IconFollows'
  BY <1>8 DEF UpdateEnd
<1>9. CASE UNCHANGED vars
  BY <1>9 DEF vars, shown, missed
<1> QED BY <1>1, <1>2, <1>3, <1>4, <1>5, <1>6, <1>7, <1>8, <1>9 DEF Next, UpdateReturns

-----------------------------------------------------------------------------
(* Theorems.                                                               *)

\* The strengthening holds in every reachable state.
THEOREM Inductive == Spec => []IndInv
<1>1. IndInv /\ [Next]_vars => IndInv'
  BY TypeStep, FollowStep DEF IndInv
<1> QED BY <1>1, InitInd, PTL DEF Spec

\* Every variable keeps its type: the chain of updates stays within its bound.
THEOREM TypeCorrect == Spec => []TypeOK
<1>1. IndInv => TypeOK
  BY DEF IndInv
<1> QED BY <1>1, Inductive, PTL

\* When nothing is left to run, the menu is that of the last state (updateState's debounce,
\* the chain of doUpdateState and its giving up in StatusBarManager.ets).
THEOREM MenuIsFinal == Spec => []MenuShowsFinalState
<1>1. IndInv => MenuShowsFinalState
  BY NoneIsNoState DEF IndInv, TypeOK, MenuFollows, WillUpdate, MenuShowsFinalState, Quiet
<1> QED BY <1>1, Inductive, PTL

\* So is the icon, but for a state change that add() overlooked.
THEOREM IconIsFinal == Spec => []UpdatedIconShowsFinalState
<1>1. IndInv => UpdatedIconShowsFinalState
  BY NoneIsNoState DEF IndInv, TypeOK, IconFollows, WillUpdate, UpdatedIconShowsFinalState, Quiet
<1> QED BY <1>1, Inductive, PTL
=============================================================================
