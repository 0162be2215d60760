-------------------------------- MODULE Tray --------------------------------
(***************************************************************************)
(* StatusBarManager.ets: the tray icon and its right-click menu.  The page *)
(* calls updateState whenever the connection state changes; icons are      *)
(* loaded asynchronously, so each of add() and doUpdateState() is cut in   *)
(* two at its await, and other callbacks of the JS thread run in between.  *)
(*                                                                         *)
(* The system's status bar is external: addToStatusBar, updateStatusBar-   *)
(* Icon and updateStatusBarMenu may each throw (1010710003 and others),    *)
(* and an icon may fail to load.  remove() has no caller and is left out.  *)
(***************************************************************************)
EXTENDS Integers

CONSTANT MaxPending   \* bound on the updates queued in updateChain

ASSUME MaxPendingAssumption == MaxPending \in Nat \ {0}

ConnState == {"DISCONNECTED", "CONNECTING", "CONNECTED", "ERROR"}
None == "none"

VARIABLES
    state,       \* this.state
    phase,       \* add(): "absent", "loading" (at its await) or "added"
    loading,     \* the state whose icons add() or doUpdateState() has asked for
    timer,       \* debounceTimer !== -1
    pending,     \* updates chained but not begun
    icon,        \* status bar: the shape shown
    menu,        \* status bar: the state whose menu and title are shown
    iconMissed,  \* history: the last attempt to change the icon failed
    menuMissed,  \* history: the last attempt to change the menu failed
    addedStale   \* history: the state changed during add(), the icon not yet since

shown == <<icon, menu>>
missed == <<iconMissed, menuMissed, addedStale>>
vars == <<state, phase, loading, timer, pending, shown, missed>>

iconShapeName(s) ==
    CASE s = "CONNECTED" -> "connected" [] s = "ERROR" -> "error" [] OTHER -> "disconnected"

Init ==
    /\ state = "DISCONNECTED"
    /\ phase = "absent" /\ loading = None
    /\ timer = FALSE /\ pending = 0
    /\ icon = None /\ menu = None
    /\ iconMissed = FALSE /\ menuMissed = FALSE /\ addedStale = FALSE

\* add(), up to await loadIcons(this.state).
AddBegin ==
    /\ phase = "absent"
    /\ phase' = "loading"
    /\ loading' = state
    /\ UNCHANGED <<state, timer, pending, shown, missed>>

\* The icons are those of the state add() began with, the menu is that of the state now.
AddEnd ==
    /\ phase = "loading"
    /\ phase' = "added"
    /\ icon' = iconShapeName(loading)
    /\ menu' = state
    /\ loading' = None
    /\ addedStale' = (loading # state)
    /\ UNCHANGED <<state, timer, pending, iconMissed, menuMissed>>

\* No icons, or addToStatusBar throws: the next onCreate may try again.
AddFails ==
    /\ phase = "loading"
    /\ phase' = "absent"
    /\ loading' = None
    /\ UNCHANGED <<state, timer, pending, shown, missed>>

\* Mutant: no timer is set while an update is under way.
UpdateStateUnlessBusy(s) ==
    /\ state' = s
    /\ timer' = (timer \/ (phase = "added" /\ loading = None))
    /\ UNCHANGED <<phase, loading, pending, shown, missed>>

\* Remembers the state; restarts the timer once the icon is in the tray.
updateState(s) ==
    /\ state' = s
    /\ timer' = (timer \/ phase = "added")
    /\ UNCHANGED <<phase, loading, pending, shown, missed>>

\* Mutant: the update is dropped when another one is queued or under way.
TimerDropsWhenBusy ==
    /\ timer /\ pending < MaxPending
    /\ timer' = FALSE
    /\ pending' = IF pending > 0 \/ loading # None THEN pending ELSE 1
    /\ UNCHANGED <<state, phase, loading, shown, missed>>

\* The debounce time has passed: one more update is chained.
TimerFires ==
    /\ timer /\ pending < MaxPending
    /\ timer' = FALSE
    /\ pending' = pending + 1
    /\ UNCHANGED <<state, phase, loading, shown, missed>>

\* Mutant: an update begins though none was chained.
UpdateBeginUnchained ==
    /\ phase = "added" /\ loading = None
    /\ pending' = pending - 1
    /\ loading' = state
    /\ UNCHANGED <<state, phase, timer, shown, missed>>

\* doUpdateState(), up to await loadIcons(state); the chain runs one at a time.
UpdateBegin ==
    /\ phase = "added" /\ pending > 0 /\ loading = None
    /\ pending' = pending - 1
    /\ loading' = state
    /\ UNCHANGED <<state, phase, timer, shown, missed>>

\* The state changed meanwhile: give up, a later update is on its way.
UpdateGivesUp ==
    /\ phase = "added" /\ loading # None
    /\ state # loading
    /\ loading' = None
    /\ UNCHANGED <<state, phase, timer, pending, shown, missed>>

\* Mutant: without icons the menu is left alone too.
UpdateEndNeedsIcons(iconOk, menuOk) ==
    /\ phase = "added" /\ loading # None
    /\ state = loading
    /\ icon' = IF iconOk THEN iconShapeName(loading) ELSE icon
    /\ iconMissed' = ~iconOk
    /\ menu' = IF iconOk /\ menuOk THEN loading ELSE menu
    /\ menuMissed' = ~menuOk
    /\ addedStale' = (addedStale /\ ~iconOk)
    /\ loading' = None
    /\ UNCHANGED <<state, phase, timer, pending>>

\* Icon and menu are changed, each on its own.
UpdateEnd(iconOk, menuOk) ==
    /\ phase = "added" /\ loading # None
    /\ state = loading
    /\ icon' = IF iconOk THEN iconShapeName(loading) ELSE icon
    /\ iconMissed' = ~iconOk
    /\ menu' = IF menuOk THEN loading ELSE menu
    /\ menuMissed' = ~menuOk
    /\ addedStale' = (addedStale /\ ~iconOk)
    /\ loading' = None
    /\ UNCHANGED <<state, phase, timer, pending>>

UpdateReturns == UpdateGivesUp \/ \E iconOk, menuOk \in BOOLEAN : UpdateEnd(iconOk, menuOk)

Next ==
    \/ AddBegin \/ AddEnd \/ AddFails
    \/ \E s \in ConnState : updateState(s)
    \/ TimerFires \/ UpdateBegin \/ UpdateReturns

Spec == Init /\ [][Next]_vars

\* Promises are settled and timers fire.  The last needs the state to stand still for the
\* 500 ms of the debounce now and then: a page that keeps calling updateState faster than
\* that postpones the update for ever.
FairSpec == Spec /\ WF_vars(TimerFires) /\ WF_vars(UpdateBegin) /\ WF_vars(UpdateReturns)

-----------------------------------------------------------------------------
(* Properties.                                                             *)

TypeOK ==
    /\ state \in ConnState
    /\ phase \in {"absent", "loading", "added"}
    /\ loading \in ConnState \cup {None}
    /\ timer \in BOOLEAN /\ pending \in 0..MaxPending
    /\ icon \in {None, "connected", "disconnected", "error"}
    /\ menu \in ConnState \cup {None}
    /\ iconMissed \in BOOLEAN /\ menuMissed \in BOOLEAN /\ addedStale \in BOOLEAN

\* Nothing is going to change the tray.
Quiet == phase = "added" /\ ~timer /\ pending = 0 /\ loading = None

\* When all timers and promises have run, the menu is that of the last state, whatever
\* updates were merged, overtaken and given up on the way and even if the icon of that
\* state could not be loaded; unless the system refused the menu itself.
MenuShowsFinalState == Quiet /\ ~menuMissed => menu = state

\* So is the icon, once it has been updated: but for a state change that add() overlooked
\* and a refusal of the system, the two never end up telling different stories.
UpdatedIconShowsFinalState ==
    Quiet /\ ~iconMissed /\ ~addedStale => icon = iconShapeName(state)

\* A state that stays is shown in the end: giving up an update never loses the state.
TrayCatchesUp ==
    \A s \in ConnState :
        (phase = "added" /\ state = s) ~> (state # s \/ menu = s \/ menuMissed)

\* "The final state takes effect", which the code claims of the icon as well.
IconShowsFinalState == Quiet /\ ~iconMissed => icon = iconShapeName(state)
=============================================================================
