------------------------- MODULE InputSessionProofs -------------------------
(***************************************************************************)
(* Proofs about InputSession, for any screen of at least 2 x 2, any mouse, *)
(* any of the modelled keys and whenever injection is authorised.          *)
(***************************************************************************)
EXTENDS InputSession, TLAPS

-----------------------------------------------------------------------------
(* The inductive invariant.                                                *)

\* What is down on this machine is known to be, and nothing is before authorisation.
ButtonBook ==
    /\ HeldButtonsAreKnown
    /\ ~auth => heldButtons = {}
    /\ ~m_active => m_mouseButtonsDown = {}
    /\ here => m_active

FlagsOK ==
    /\ auth \in BOOLEAN /\ m_active \in BOOLEAN /\ connected \in BOOLEAN /\ here \in BOOLEAN
    /\ pressed \subseteq Button /\ typed \subseteq PhysKey /\ abandoned \subseteq PhysKey

\* The same for keys, of any state of the keyboard on the way through a handler.
KeyBook(kb) ==
    /\ kb.states \subseteq Keysyms
    /\ kb.held \subseteq Nat
    /\ kb.held \subseteq {keysymToKeycode(k) : k \in kb.states}
    /\ ~auth => kb.held = {}

IndInv == MouseOK /\ FlagsOK /\ ButtonBook /\ EdgesAreUsable /\ KeyBook(Keyboard)

-----------------------------------------------------------------------------
(* Keysyms and keycodes.                                                   *)

\* Projection of a pair, for sets the provers had better not look into.
LEMMA Second == ASSUME NEW S, NEW T, NEW p \in S \X T PROVE p[2] \in T
OBVIOUS

\* The low half of a keysym is a number.
LEMMA LowHalf == ASSUME NEW k \in Keysyms PROVE k[2] \in Nat
<1>1. Half \subseteq Nat
  BY DEF Half
<1> QED BY <1>1, Second DEF Keysyms

\* What the offset rows compute are numbers.
LEMMA OffsetRows ==
    ASSUME NEW n \in Nat
    PROVE  /\ 2017 + (n % 32) - 1 \in Int /\ 2000 + (n - 48) \in Int
           /\ 2090 + (n - \hEFBE) \in Int /\ 2103 + (n - \hEFB0) \in Int
OBVIOUS

\* Every row of the switch is a number.
LEMMA KeyRowType == ASSUME NEW k PROVE KeyRow(k) \in Int
BY DEF KeyRow

\* keysymToKeycode returns an int32, for every keysym.
LEMMA KeycodeType == ASSUME NEW k \in Keysyms PROVE keysymToKeycode(k) \in Int
BY OffsetRows, KeyRowType, LowHalf DEF keysymToKeycode

\* The keysyms syncModifiers uses are keysyms.
LEMMA ModifierKeysym == ASSUME NEW bit \in kModBits PROVE maskModifierKeysym(bit) \in Keysyms
<1>1. /\ 0 \in Half /\ \hEFE1 \in Half /\ \hEFE3 \in Half /\ \hEFE9 \in Half
      /\ \hEFE7 \in Half /\ \hEFEB \in Half /\ \hEFEA \in Half
  BY DEF Half
<1> QED BY <1>1 DEF maskModifierKeysym, Keysym, Keysyms, kModBits

\* So are those that come over the wire.
LEMMA WireKeysym == ASSUME NEW key \in PhysKey PROVE FromWire(KeyID(key)) \in Keysyms
<1>1. /\ 0 \in Half /\ \hFFFF \in Half /\ 65 \in Half /\ 97 \in Half /\ \hEF0D \in Half
      /\ \hEFE1 \in Half /\ \hEFE2 \in Half /\ \hEFE3 \in Half /\ \hEFEB \in Half
  BY DEF Half
<1>2. KeyID(key) \in Half
  BY <1>1, KeyAssumption DEF KeyID
<1> QED BY <1>1, <1>2 DEF FromWire, Keysyms

-----------------------------------------------------------------------------
(* The keyboard.                                                           *)

\* Pressing a key enters it in both books.
LEMMA KeyDownKeeps ==
    ASSUME NEW kb, KeyBook(kb), NEW k \in Keysyms
    PROVE  KeyBook(KeyDownEvent(kb, k))
BY KeycodeType DEF KeyBook, KeyDownEvent, Injectable

\* Releasing a key takes its keycode off the device, whatever other keysym pressed it.
LEMMA KeyUpKeeps ==
    ASSUME NEW kb, KeyBook(kb), NEW k \in Keysyms
    PROVE  KeyBook(KeyUpEvent(kb, k))
<1> DEFINE up == KeyUpEvent(kb, k)
<1>1. /\ up.states = kb.states \ {k}
      /\ up.held \subseteq kb.held
      /\ keysymToKeycode(k) \notin up.held
  BY KeycodeType DEF KeyBook, KeyUpEvent, Injectable
<1>2. KeyBook(up)
  <2> HIDE DEF up
  <2>1. up.held \subseteq {keysymToKeycode(j) : j \in up.states}
    BY <1>1 DEF KeyBook
  <2> QED BY <1>1, <2>1 DEF KeyBook
<1> QED BY <1>2

\* One modifier of syncModifiers.
LEMMA SyncKeeps ==
    ASSUME NEW kb, KeyBook(kb), NEW bit \in kModBits, NEW mask
    PROVE  KeyBook(SyncModifier(kb, bit, mask))
BY KeyDownKeeps, KeyUpKeeps, ModifierKeysym DEF SyncModifier

\* All six.
LEMMA SyncAllKeeps ==
    ASSUME NEW kb, KeyBook(kb), NEW mask
    PROVE  KeyBook(syncModifiers(kb, mask))
<1> DEFINE s1 == SyncModifier(kb, 1, mask)
           s2 == SyncModifier(s1, 2, mask)
           s3 == SyncModifier(s2, 4, mask)
           s4 == SyncModifier(s3, 8, mask)
           s5 == SyncModifier(s4, 16, mask)
           s6 == SyncModifier(s5, 32, mask)
<1>0. 1 \in kModBits /\ 2 \in kModBits /\ 4 \in kModBits /\ 8 \in kModBits
        /\ 16 \in kModBits /\ 32 \in kModBits
  BY DEF kModBits
<1>7. syncModifiers(kb, mask) = s6
  BY DEF syncModifiers
<1>1. KeyBook(s1)
  BY <1>0, SyncKeeps
<1> HIDE DEF s1
<1>2. KeyBook(s2)
  BY <1>0, <1>1, SyncKeeps
<1> HIDE DEF s2
<1>3. KeyBook(s3)
  BY <1>0, <1>2, SyncKeeps
<1> HIDE DEF s3
<1>4. KeyBook(s4)
  BY <1>0, <1>3, SyncKeeps
<1> HIDE DEF s4
<1>5. KeyBook(s5)
  BY <1>0, <1>4, SyncKeeps
<1> HIDE DEF s5
<1>6. KeyBook(s6)
  BY <1>0, <1>5, SyncKeeps
<1> HIDE DEF s6
<1> QED BY <1>6, <1>7

\* Storing a keyboard that is in order leaves the variables in order.
LEMMA StoreKeeps ==
    ASSUME NEW kb, KeyBook(kb), SetKeyboard(kb), auth' = auth
    PROVE  KeyBook(Keyboard)'
BY DEF KeyBook, SetKeyboard, Keyboard

\* DKDN, DKRP, DKDL and DKUP.
LEMMA KeyMessageKeeps ==
    ASSUME KeyBook(Keyboard), NEW key \in PhysKey, NEW mask, auth' = auth,
           KeyDownMessage(KeyID(key), mask) \/ KeyUpMessage(KeyID(key), mask)
    PROVE  KeyBook(Keyboard)'
<1> DEFINE kb == syncModifiers(Keyboard, mask)
           k == FromWire(KeyID(key))
<1>1. KeyBook(kb) /\ k \in Keysyms
  BY SyncAllKeeps, WireKeysym
<1>2. SetKeyboard(kb) \/ SetKeyboard(KeyDownEvent(kb, k)) \/ SetKeyboard(KeyUpEvent(kb, k))
  BY DEF KeyDownMessage, KeyUpMessage
<1> HIDE DEF kb, k
<1> QED BY <1>1, <1>2, StoreKeeps, KeyDownKeeps, KeyUpKeeps

-----------------------------------------------------------------------------
(* The mouse.                                                              *)

\* A clamped position is never refused for its coordinates.
LEMMA InsideIsUsable ==
    ASSUME NEW p \in Int \X Int
    PROVE  Inject(Inside(p)) = IF auth THEN "success" ELSE "unauthorised"
<1>1. Inside(p)[1] >= 1 /\ Inside(p)[2] >= 1 /\ Inside(p)[1] \in Int /\ Inside(p)[2] \in Int
  BY ScreenAssumption DEF Inside, ClampTo
<1> QED BY <1>1 DEF Inject

\* The HarmonyOS name of a button the client can have marked as pressed.
LEMMA ButtonNames ==
    /\ \A b : buttonToHarmony(b) \in HarmonyButton \cup {"none"}
    /\ \A b : buttonToHarmony(b) # "none" <=> b \in 1..3
    /\ \A b \in 1..3 : buttonToHarmony(b) \in HarmonyButton
    /\ \A b, c \in 1..3 : buttonToHarmony(b) = buttonToHarmony(c) => b = c
<1>1. 1..3 = {1, 2, 3}
  OBVIOUS
<1>2. \A b : buttonToHarmony(b) \in HarmonyButton \cup {"none"}
  BY DEF buttonToHarmony, HarmonyButton
<1>3. \A b : buttonToHarmony(b) # "none" <=> b \in {1, 2, 3}
  BY DEF buttonToHarmony
<1>4. \A b \in {1, 2, 3} : buttonToHarmony(b) \in HarmonyButton
  BY <1>2, <1>3
<1>5. \A b, c \in {1, 2, 3} : buttonToHarmony(b) = buttonToHarmony(c) => b = c
  BY DEF buttonToHarmony
<1> QED BY <1>1, <1>2, <1>3, <1>4, <1>5

\* An event whose position is clamped is well typed and not "invalid".
LEMMA EventType ==
    ASSUME NEW action \in {"move", "down", "up"}, NEW button \in HarmonyButton \cup {"none"},
           NEW p \in Int \X Int, event' = MouseEvent(action, button, Inside(p))
    PROVE  /\ event' \in [action : {"none", "move", "axis", "down", "up"},
                          button : HarmonyButton \cup {"none"},
                          result : {"none", "unauthorised", "invalid", "success"}]
           /\ EdgesAreUsable'
BY InsideIsUsable DEF MouseEvent, EdgesAreUsable

\* A motion carries a button's name or none.
LEMMA CarriedType == CarriedButton \in HarmonyButton \cup {"none"}
BY ButtonNames DEF CarriedButton

\* What the wheel injects is well typed; EdgesAreUsable does not speak of it.
LEMMA WheelType ==
    ASSUME injectMouseWheel
    PROVE  /\ event' \in [action : {"none", "move", "axis", "down", "up"},
                          button : HarmonyButton \cup {"none"},
                          result : {"none", "unauthorised", "invalid", "success"}]
           /\ EdgesAreUsable'
BY DEF injectMouseWheel, MouseEvent, Inject, EdgesAreUsable

\* A position on the screen is a pair of integers.
LEMMA ScreenInt == ASSUME NEW p \in Screen PROVE p \in Int \X Int
BY ScreenAssumption DEF Screen

\* Clamping to the screen yields a position on it.
LEMMA ClampedOnScreen ==
    ASSUME NEW x \in Int, NEW y \in Int
    PROVE  <<ClampTo(0, W - 1, x), ClampTo(0, H - 1, y)>> \in Screen
BY ScreenAssumption DEF ClampTo, Screen

\* DMDN and DMUP: the two books stay in step, since a release is never refused.
LEMMA ButtonKeeps ==
    ASSUME MouseOK, ButtonBook, EdgesAreUsable, auth \in BOOLEAN, here,
           NEW b \in Button, NEW down \in BOOLEAN, injectMouseButton(b, down),
           UNCHANGED <<auth, m_pointer, m_active, connected, here>>
    PROVE  (MouseOK /\ ButtonBook /\ EdgesAreUsable)'
<1>1. CASE buttonToHarmony(b) # "none"
  <2> DEFINE action == IF down THEN "down" ELSE "up"
             name == buttonToHarmony(b)
             e == MouseEvent(action, name, Inside(m_pointer))
  <2>1. b \in 1..3 /\ name \in HarmonyButton
    BY <1>1, ButtonNames
  <2>2. m_pointer \in Int \X Int
    BY ScreenInt DEF MouseOK
  <2>3. e.button = name /\ e.result = IF auth THEN "success" ELSE "unauthorised"
    BY <2>2, InsideIsUsable DEF MouseEvent
  <2>4. /\ event' = e
        /\ m_mouseButtonsDown' = IF down THEN m_mouseButtonsDown \cup {b}
                                 ELSE m_mouseButtonsDown \ {b}
        /\ heldButtons' = IF ~auth THEN heldButtons
                          ELSE IF down THEN heldButtons \cup {name} ELSE heldButtons \ {name}
        /\ unheard' = IF down /\ ~auth THEN unheard \cup {b} ELSE unheard \ {b}
    BY <1>1, <2>3 DEF injectMouseButton
  <2>5. EdgesAreUsable' /\ event' \in [action : {"none", "move", "axis", "down", "up"},
                          button : HarmonyButton \cup {"none"},
                          result : {"none", "unauthorised", "invalid", "success"}]
    BY <2>1, <2>2, <2>4, EventType
  <2>6. MouseOK'
    BY <2>1, <2>4, <2>5 DEF MouseOK
  <2>7. ButtonBook'
    <3> HIDE DEF e, action
    <3> DEFINE heard == m_mouseButtonsDown \ unheard
    <3>1. heard \subseteq 1..3 /\ heldButtons = NamesOf(heard)
      BY DEF MouseOK, ButtonBook, HeldButtonsAreKnown
    <3>2. CASE auth /\ down
      <4>1. heard' = heard \cup {b}
        BY <2>4, <3>2
      <4> HIDE DEF heard
      <4> QED BY <2>4, <3>1, <3>2, <4>1 DEF heard, NamesOf, ButtonBook, HeldButtonsAreKnown
    <3>3. CASE auth /\ ~down
      <4>1. heard' = heard \ {b}
        BY <2>4, <3>3
      <4>2. NamesOf(heard \ {b}) = NamesOf(heard) \ {name}
        BY <2>1, <3>1, ButtonNames DEF NamesOf
      <4> QED BY <2>4, <3>1, <3>3, <4>1, <4>2 DEF ButtonBook, HeldButtonsAreKnown
    <3>4. CASE ~auth
      <4>1. heldButtons = {}
        BY <3>4 DEF ButtonBook
      <4>1a. ASSUME NEW c \in heard PROVE FALSE
        BY <3>1, <4>1 DEF NamesOf
      <4>2. heldButtons' = {} /\ heard' = {}
        BY <2>4, <3>4, <4>1, <4>1a
      <4>3. NamesOf({}) = {}
        BY DEF NamesOf
      <4> QED BY <2>4, <3>4, <4>2, <4>3 DEF ButtonBook, HeldButtonsAreKnown
    <3> QED BY <3>2, <3>3, <3>4
  <2> QED BY <2>5, <2>6, <2>7
<1>2. CASE buttonToHarmony(b) = "none"
  <2>1. injectMouseWheel /\ UNCHANGED buttons
    BY <1>2 DEF injectMouseButton
  <2> QED BY <2>1, WheelType DEF buttons, MouseOK, ButtonBook, HeldButtonsAreKnown
<1> QED BY <1>1, <1>2

\* A motion only changes the pointer and the event.
LEMMA MotionKeeps ==
    ASSUME MouseOK, ButtonBook, NEW p \in Screen, injectMouseMove(p),
           m_pointer' \in Screen, UNCHANGED buttons
    PROVE  (MouseOK /\ EdgesAreUsable)'
BY EventType, CarriedType, ScreenInt DEF injectMouseMove, MouseOK, buttons

\* COUT releases all that is held.
LEMMA LeaveKeeps ==
    ASSUME MouseOK, ButtonBook, EdgesAreUsable, auth \in BOOLEAN, COUT
    PROVE  (MouseOK /\ ButtonBook /\ EdgesAreUsable)'
<1> DEFINE e == MouseEvent("up", CarriedButton, Inside(m_pointer))
<1>1. m_pointer \in Int \X Int
  BY ScreenInt DEF MouseOK
<1>2. e.result = IF auth THEN "success" ELSE "unauthorised"
  BY <1>1, InsideIsUsable DEF MouseEvent
<1>3. /\ event' = event \/ event' = e
      /\ m_mouseButtonsDown' = {} /\ unheard' = {}
      /\ heldButtons' = IF auth THEN heldButtons \ NamesOf(m_mouseButtonsDown)
                        ELSE heldButtons
      /\ UNCHANGED <<auth, m_pointer>> /\ m_active' = FALSE /\ here' = FALSE
  BY <1>2 DEF COUT, ReleaseButtons
<1>4. heldButtons' = {} /\ NamesOf({}) = {}
  <2> HIDE DEF e
  <2> QED BY <1>3 DEF ButtonBook, HeldButtonsAreKnown, NamesOf
<1>5. EdgesAreUsable' /\ event' \in [action : {"none", "move", "axis", "down", "up"},
                          button : HarmonyButton \cup {"none"},
                          result : {"none", "unauthorised", "invalid", "success"}]
  <2>1. CASE event' = event
    BY <2>1 DEF MouseOK, EdgesAreUsable
  <2>2. CASE event' = e
    BY <1>1, <2>2, EventType, CarriedType
  <2> QED BY <1>3, <2>1, <2>2
<1>6. MouseOK'
  BY <1>3, <1>4, <1>5 DEF MouseOK
<1>7. ButtonBook'
  <2> HIDE DEF e
  <2> QED BY <1>3, <1>4 DEF ButtonBook, HeldButtonsAreKnown
<1> QED BY <1>5, <1>6, <1>7

-----------------------------------------------------------------------------
(* The invariant is inductive.                                             *)

\* It holds of a client that has never been connected.
LEMMA InitInd == Init => IndInv
<1> SUFFICES ASSUME Init PROVE IndInv
  OBVIOUS
<1>1. <<0, 0>> \in Screen
  BY ScreenAssumption DEF Screen
<1>2. MouseOK /\ EdgesAreUsable
  BY <1>1 DEF Init, MouseOK, NoEvent, EdgesAreUsable
<1>3. FlagsOK /\ ButtonBook
  BY AuthAssumption DEF Init, FlagsOK, ButtonBook, HeldButtonsAreKnown, NamesOf
<1>4. KeyBook(Keyboard)
  BY DEF Init, KeyBook, Keyboard
<1> QED BY <1>2, <1>3, <1>4 DEF IndInv

\* Nothing that is spoken of changes.
LEMMA MouseSame ==
    ASSUME MouseOK, ButtonBook, EdgesAreUsable,
           UNCHANGED <<auth, mouse, m_active>>, here' => here
    PROVE  (MouseOK /\ ButtonBook /\ EdgesAreUsable)'
BY DEF mouse, buttons, MouseOK, ButtonBook, HeldButtonsAreKnown, EdgesAreUsable

\* The same for the keyboard.
LEMMA KeyboardSame ==
    ASSUME KeyBook(Keyboard), UNCHANGED <<auth, keyboard>>
    PROVE  KeyBook(Keyboard)'
BY DEF keyboard, KeyBook, Keyboard

\* One step per action, as in Next.
LEMMA NextInd == IndInv /\ [Next]_vars => IndInv'
<1> SUFFICES ASSUME IndInv, [Next]_vars PROVE IndInv'
  OBVIOUS
<1> USE DEF IndInv
<1>1. ASSUME Connect PROVE IndInv'
  BY <1>1, MouseSame, KeyboardSame DEF Connect, FlagsOK
<1>2. ASSUME Authorised PROVE IndInv'
  <2>1. FlagsOK' /\ MouseOK' /\ EdgesAreUsable'
    BY <1>2 DEF Authorised, FlagsOK, mouse, buttons, server, MouseOK, EdgesAreUsable
  <2>2. ButtonBook' /\ KeyBook(Keyboard)'
    BY <1>2 DEF Authorised, ButtonBook, HeldButtonsAreKnown, mouse, buttons, server, keyboard,
                KeyBook, Keyboard
  <2> QED BY <2>1, <2>2
<1>3. ASSUME ConnectionLost PROVE IndInv'
  <2>1. FlagsOK'
    BY <1>3 DEF ConnectionLost, FlagsOK
  <2> QED BY <1>3, <2>1, MouseSame, KeyboardSame DEF ConnectionLost
<1>4. ASSUME NEW p \in Target \cup {<<-1, -1>>}, NEW mask, CINN(p, mask) PROVE IndInv'
  <2>1. FlagsOK'
    BY <1>4 DEF CINN, FlagsOK
  <2>2. ButtonBook'
    BY <1>4 DEF CINN, buttons, ButtonBook, HeldButtonsAreKnown, FlagsOK
  <2>3. KeyBook(Keyboard)'
    BY <1>4, SyncAllKeeps, StoreKeeps DEF CINN
  <2>4. (MouseOK /\ EdgesAreUsable)'
    <3>1. CASE p[1] >= 0 /\ p[2] >= 0
      <4>1. p \in Screen
        BY <3>1, TargetAssumption
      <4> QED BY <1>4, <3>1, <4>1, MotionKeeps DEF CINN
    <3>2. CASE ~(p[1] >= 0 /\ p[2] >= 0)
      BY <1>4, <3>2 DEF CINN, buttons, MouseOK, EdgesAreUsable
    <3> QED BY <3>1, <3>2
  <2> QED BY <2>1, <2>2, <2>3, <2>4
<1>5. ASSUME COUT PROVE IndInv'
  <2>1. FlagsOK' /\ KeyBook(Keyboard)'
    BY <1>5, KeyboardSame DEF COUT, FlagsOK
  <2>2. (MouseOK /\ ButtonBook /\ EdgesAreUsable)'
    BY <1>5, LeaveKeeps DEF FlagsOK
  <2> QED BY <2>1, <2>2
<1>6. ASSUME NEW p \in Target, DMMV(p) PROVE IndInv'
  <2>1. FlagsOK' /\ KeyBook(Keyboard)' /\ ButtonBook'
    BY <1>6, KeyboardSame DEF DMMV, FlagsOK, server, buttons, ButtonBook, HeldButtonsAreKnown
  <2>2. (MouseOK /\ EdgesAreUsable)'
    BY <1>6, TargetAssumption, MotionKeeps DEF DMMV
  <2> QED BY <2>1, <2>2
<1>7. ASSUME NEW dx \in Delta, NEW dy \in Delta, DMRM(dx, dy) PROVE IndInv'
  <2>1. FlagsOK' /\ KeyBook(Keyboard)' /\ ButtonBook'
    BY <1>7, KeyboardSame DEF DMRM, FlagsOK, server, buttons, ButtonBook, HeldButtonsAreKnown
  <2>2. m_pointer' \in Screen
    <3>1. m_pointer[1] + dx \in Int /\ m_pointer[2] + dy \in Int
      BY DeltaAssumption, ScreenInt DEF MouseOK
    <3> QED BY <1>7, <3>1, ClampedOnScreen DEF DMRM
  <2>3. injectMouseMove(m_pointer') /\ UNCHANGED buttons
    BY <1>7 DEF DMRM
  <2>4. (MouseOK /\ EdgesAreUsable)'
    BY <2>2, <2>3, MotionKeeps
  <2> QED BY <2>1, <2>4
<1>8. ASSUME NEW b \in Button, DMDN(b) \/ DMUP(b) PROVE IndInv'
  <2>1. FlagsOK' /\ KeyBook(Keyboard)'
    BY <1>8, KeyboardSame DEF DMDN, DMUP, FlagsOK, server
  <2>2. (MouseOK /\ ButtonBook /\ EdgesAreUsable)'
    BY <1>8, ButtonKeeps DEF DMDN, DMUP, FlagsOK, server
  <2> QED BY <2>1, <2>2
<1>9. ASSUME DMWM PROVE IndInv'
  <2>1. FlagsOK' /\ KeyBook(Keyboard)' /\ ButtonBook'
    BY <1>9, KeyboardSame DEF DMWM, FlagsOK, server, buttons, ButtonBook, HeldButtonsAreKnown
  <2>2. (MouseOK /\ EdgesAreUsable)'
    BY <1>9, WheelType DEF DMWM, buttons, MouseOK
  <2> QED BY <2>1, <2>2
<1>10. ASSUME NEW key \in PhysKey, DKDN(key) \/ DKRP(key) \/ DKUP(key) PROVE IndInv'
  <2>1. FlagsOK'
    BY <1>10 DEF DKDN, DKRP, DKUP, FlagsOK, server
  <2>2. (MouseOK /\ ButtonBook /\ EdgesAreUsable)'
    BY <1>10, MouseSame DEF DKDN, DKRP, DKUP, server
  <2>3. PICK mask : KeyDownMessage(KeyID(key), mask) \/ KeyUpMessage(KeyID(key), mask)
    BY <1>10 DEF DKDN, DKRP, DKUP
  <2>4. KeyBook(Keyboard)'
    BY <1>10, <2>3, KeyMessageKeeps DEF DKDN, DKRP, DKUP
  <2> QED BY <2>1, <2>2, <2>4
<1>11. ASSUME NEW key \in PhysKey, TypedElsewhere(key) PROVE IndInv'
  <2>1. FlagsOK'
    BY <1>11 DEF TypedElsewhere, FlagsOK, server
  <2> QED BY <1>11, <2>1, MouseSame, KeyboardSame DEF TypedElsewhere, server
<1>12. ASSUME UNCHANGED vars PROVE IndInv'
  <2>1. FlagsOK'
    BY <1>12 DEF vars, FlagsOK, server
  <2> QED BY <1>12, <2>1, MouseSame, KeyboardSame DEF vars, server
<1> QED BY <1>1, <1>2, <1>3, <1>4, <1>5, <1>6, <1>7, <1>8, <1>9, <1>10, <1>11, <1>12
        DEF Next, ScreenMessage, MouseMessage, KeyMessage

-----------------------------------------------------------------------------
(* A drag stays a drag.                                                    *)

\* Of the pressed buttons there is a first one, which has a HarmonyOS name.
LEMMA CarriedIsPressed ==
    ASSUME MouseOK, m_mouseButtonsDown # {}
    PROVE  \E b \in m_mouseButtonsDown : CarriedButton = buttonToHarmony(b) /\ CarriedButton # "none"
<1> DEFINE IsFirst(b) == \A c \in m_mouseButtonsDown : b <= c
<1>1. m_mouseButtonsDown \subseteq 1..3
  BY DEF MouseOK
<1>2. \E b \in m_mouseButtonsDown : IsFirst(b)
  <2>1. CASE 1 \in m_mouseButtonsDown
    BY <1>1, <2>1
  <2>2. CASE 1 \notin m_mouseButtonsDown /\ 2 \in m_mouseButtonsDown
    BY <1>1, <2>2
  <2>3. CASE 1 \notin m_mouseButtonsDown /\ 2 \notin m_mouseButtonsDown
    <3>1. \A c \in m_mouseButtonsDown : c = 3
      BY <1>1, <2>3
    <3> QED BY <3>1
  <2> QED BY <2>1, <2>2, <2>3
<1>3. (CHOOSE b \in m_mouseButtonsDown : IsFirst(b)) \in m_mouseButtonsDown
  BY <1>2
<1>4. CarriedButton = buttonToHarmony(CHOOSE b \in m_mouseButtonsDown : IsFirst(b))
  BY DEF CarriedButton
<1> HIDE DEF IsFirst
<1> QED BY <1>1, <1>3, <1>4, ButtonNames

\* What a motion carries is a button that is pressed, if any is, and down unless unheard.
LEMMA MotionCarries ==
    ASSUME MouseOK, ButtonBook, NEW p \in Screen, injectMouseMove(p), UNCHANGED buttons
    PROVE  DragCarriesHeldButton'
<1>1. event'.button = CarriedButton
  BY DEF injectMouseMove, MouseEvent
<1>2. /\ unheard \subseteq m_mouseButtonsDown
      /\ heldButtons = NamesOf(m_mouseButtonsDown \ unheard)
      /\ heldButtons' = heldButtons /\ unheard' = unheard
  BY DEF MouseOK, ButtonBook, HeldButtonsAreKnown, buttons
<1>3. CASE m_mouseButtonsDown = {}
  <2>1. CarriedButton = "none" /\ heldButtons = {}
    BY <1>2, <1>3 DEF CarriedButton, NamesOf
  <2> QED BY <1>1, <1>2, <2>1 DEF DragCarriesHeldButton
<1>4. CASE m_mouseButtonsDown # {}
  <2>1. PICK b \in m_mouseButtonsDown :
            CarriedButton = buttonToHarmony(b) /\ CarriedButton # "none"
    BY <1>4, CarriedIsPressed
  <2>2. CarriedButton \in heldButtons \cup NamesOf(unheard)
    BY <1>2, <2>1 DEF NamesOf
  <2> QED BY <1>1, <1>2, <2>1, <2>2 DEF DragCarriesHeldButton
<1> QED BY <1>3, <1>4

\* Buttons change only with an event of their own.
LEMMA DragStep == IndInv /\ DragCarriesHeldButton /\ [Next]_vars => DragCarriesHeldButton'
<1> SUFFICES ASSUME IndInv, DragCarriesHeldButton, [Next]_vars PROVE DragCarriesHeldButton'
  OBVIOUS
<1> USE DEF IndInv
<1>1. ASSUME UNCHANGED <<event, heldButtons, unheard>> PROVE DragCarriesHeldButton'
  BY <1>1 DEF DragCarriesHeldButton
<1>2. CASE Connect \/ Authorised \/ ConnectionLost \/ UNCHANGED vars
  BY <1>1, <1>2 DEF Connect, Authorised, ConnectionLost, vars, mouse, buttons
<1>3. ASSUME NEW p \in Target \cup {<<-1, -1>>}, NEW mask, CINN(p, mask)
      PROVE  DragCarriesHeldButton'
  <2>1. CASE p[1] >= 0 /\ p[2] >= 0
    <3>1. p \in Screen
      BY <2>1, TargetAssumption
    <3> QED BY <1>3, <2>1, <3>1, MotionCarries DEF CINN
  <2>2. CASE ~(p[1] >= 0 /\ p[2] >= 0)
    BY <1>1, <1>3, <2>2 DEF CINN, buttons
  <2> QED BY <2>1, <2>2
<1>4. CASE COUT
  <2> DEFINE e == MouseEvent("up", CarriedButton, Inside(m_pointer))
  <2>1. CASE m_mouseButtonsDown = {}
    <3>1. NamesOf(m_mouseButtonsDown) = {} /\ unheard = {}
      BY <2>1 DEF NamesOf, MouseOK
    <3>2. UNCHANGED <<event, heldButtons, unheard>>
      BY <1>4, <2>1, <3>1 DEF COUT, ReleaseButtons
    <3> QED BY <1>1, <3>2
  <2>2. CASE m_mouseButtonsDown # {}
    <3>1. event' = e /\ e.action = "up"
      BY <1>4, <2>2 DEF COUT, ReleaseButtons, MouseEvent
    <3> QED BY <3>1 DEF DragCarriesHeldButton
  <2> QED BY <2>1, <2>2
<1>5. ASSUME NEW p \in Target, DMMV(p) PROVE DragCarriesHeldButton'
  BY <1>5, TargetAssumption, MotionCarries DEF DMMV
<1>6. ASSUME NEW dx \in Delta, NEW dy \in Delta, DMRM(dx, dy) PROVE DragCarriesHeldButton'
  <2>1. m_pointer[1] + dx \in Int /\ m_pointer[2] + dy \in Int
    BY DeltaAssumption, ScreenInt DEF MouseOK
  <2>2. m_pointer' \in Screen
    BY <1>6, <2>1, ClampedOnScreen DEF DMRM
  <2> QED BY <1>6, <2>2, MotionCarries DEF DMRM
<1>7. ASSUME NEW b \in Button, DMDN(b) \/ DMUP(b) PROVE DragCarriesHeldButton'
  <2>1. PICK down \in BOOLEAN : injectMouseButton(b, down)
    BY <1>7 DEF DMDN, DMUP
  <2>2. event'.action \in {"down", "up", "axis"}
    BY <2>1 DEF injectMouseButton, injectMouseWheel, MouseEvent
  <2> QED BY <2>2 DEF DragCarriesHeldButton
<1>8. CASE DMWM
  BY <1>8 DEF DMWM, injectMouseWheel, MouseEvent, DragCarriesHeldButton
<1>9. ASSUME NEW key \in PhysKey, DKDN(key) \/ DKRP(key) \/ DKUP(key) \/ TypedElsewhere(key)
      PROVE  DragCarriesHeldButton'
  BY <1>1, <1>9 DEF DKDN, DKRP, DKUP, TypedElsewhere, mouse, buttons
<1> QED BY <1>2, <1>3, <1>4, <1>5, <1>6, <1>7, <1>8, <1>9
        DEF Next, ScreenMessage, MouseMessage, KeyMessage

-----------------------------------------------------------------------------
(* Keys that stick.                                                        *)

\* The keysym and the keycode of a plain key.
Sym(key) == FromWire(KeyID(key))
Code(key) == keysymToKeycode(Sym(key))

\* What a keyboard state says of a plain key.
SameFor(key, kb1, kb2) ==
    /\ Sym(key) \in kb1.states <=> Sym(key) \in kb2.states
    /\ Code(key) \in kb1.held <=> Code(key) \in kb2.held

\* No plain key is down under another keysym than its own, and one that is known to be
\* down is still held or was abandoned.
PlainBook ==
    \A key \in PlainKey :
        /\ Code(key) \in heldKeys => Sym(key) \in m_keyStates
        /\ Sym(key) \in m_keyStates => key \in abandoned \/ (here /\ key \in typed)

\* The codes of keysyms, as far as a keyboard has them.
LEMMA CodeValues ==
    /\ \A high : keysymToKeycode(<<high, \hEF0D>>) = 2054
    /\ \A high, low : low \in {\hEFE1, \hEFE2, \hEFE3, \hEFE7, \hEFE9, \hEFEA, \hEFEB}
          => keysymToKeycode(<<high, low>>) # 2054
    /\ \A high, low : low \in {65, 97} => keysymToKeycode(<<high, low>>) # 2054
<1> USE DEF keysymToKeycode, IsLetter, IsDigit, IsFunctionKey, IsKeypadDigit
<1>1. ASSUME NEW high PROVE keysymToKeycode(<<high, \hEF0D>>) = 2054
  BY DEF KeyRow
<1>2. ASSUME NEW high, NEW low \in {\hEFE1, \hEFE2, \hEFE3, \hEFE7, \hEFE9, \hEFEA, \hEFEB}
      PROVE  keysymToKeycode(<<high, low>>) # 2054
  BY <1>2 DEF KeyRow
<1>3. ASSUME NEW high, NEW low \in {65, 97} PROVE keysymToKeycode(<<high, low>>) # 2054
  <2>1. low \in Nat /\ low % 32 \in 0..31
    BY <1>3
  <2> QED BY <1>3, <2>1
<1> QED BY <1>1, <1>2, <1>3

\* Return has a code that no modifier and no other key has.
LEMMA PlainIsOwn ==
    ASSUME NEW key \in PlainKey
    PROVE  /\ \A bit \in kModBits : /\ maskModifierKeysym(bit) # Sym(key)
                                    /\ keysymToKeycode(maskModifierKeysym(bit)) # Code(key)
           /\ \A other \in PhysKey : other # key =>
                 Sym(other) # Sym(key) /\ Code(other) # Code(key)
<1>1. key = "Return" /\ Sym(key) = <<\hFFFF, \hEF0D>> /\ Code(key) = 2054
  BY CodeValues DEF PlainKey, Sym, Code, FromWire, KeyID
<1>2. ASSUME NEW bit \in kModBits
      PROVE  /\ maskModifierKeysym(bit) # Sym(key)
             /\ keysymToKeycode(maskModifierKeysym(bit)) # Code(key)
  <2>1. PICK low \in {\hEFE1, \hEFE3, \hEFE7, \hEFE9, \hEFEA, \hEFEB} :
            maskModifierKeysym(bit) = <<0, low>>
    BY DEF kModBits, maskModifierKeysym, Keysym
  <2> QED BY <1>1, <2>1, CodeValues
<1>3. ASSUME NEW other \in PhysKey, other # key
      PROVE  Sym(other) # Sym(key) /\ Code(other) # Code(key)
  <2>1. KeyID(other) \in {65, 97, \hEFE1, \hEFE2, \hEFE3, \hEFEB}
    BY <1>1, <1>3, KeyAssumption DEF KeyID
  <2>2. PICK high : Sym(other) = <<high, KeyID(other)>>
    BY DEF Sym, FromWire
  <2>3. Code(other) # 2054
    BY <2>1, <2>2, CodeValues DEF Code
  <2> QED BY <1>1, <2>3 DEF Code
<1> QED BY <1>2, <1>3

\* Events of one key leave what another one has.
LEMMA EventSame ==
    ASSUME NEW key \in PlainKey, NEW kb, NEW k, k # Sym(key), keysymToKeycode(k) # Code(key)
    PROVE  SameFor(key, KeyDownEvent(kb, k), kb) /\ SameFor(key, KeyUpEvent(kb, k), kb)
BY DEF SameFor, KeyDownEvent, KeyUpEvent

\* The synchronisation of the modifiers does not touch a plain key.
LEMMA SyncSame ==
    ASSUME NEW key \in PlainKey, NEW kb, NEW mask
    PROVE  SameFor(key, syncModifiers(kb, mask), kb)
<1>1. ASSUME NEW kb1, NEW bit \in kModBits, SameFor(key, kb1, kb)
      PROVE  SameFor(key, SyncModifier(kb1, bit, mask), kb)
  <2> DEFINE k == maskModifierKeysym(bit)
  <2>1. SameFor(key, KeyDownEvent(kb1, k), kb1) /\ SameFor(key, KeyUpEvent(kb1, k), kb1)
    BY PlainIsOwn, EventSame
  <2>2. SyncModifier(kb1, bit, mask) \in {kb1, KeyDownEvent(kb1, k), KeyUpEvent(kb1, k)}
    BY DEF SyncModifier
  <2> HIDE DEF k
  <2> QED BY <1>1, <2>1, <2>2 DEF SameFor
<1> DEFINE s1 == SyncModifier(kb, 1, mask)
           s2 == SyncModifier(s1, 2, mask)
           s3 == SyncModifier(s2, 4, mask)
           s4 == SyncModifier(s3, 8, mask)
           s5 == SyncModifier(s4, 16, mask)
           s6 == SyncModifier(s5, 32, mask)
<1>2. 1 \in kModBits /\ 2 \in kModBits /\ 4 \in kModBits /\ 8 \in kModBits
        /\ 16 \in kModBits /\ 32 \in kModBits
  BY DEF kModBits
<1>3. syncModifiers(kb, mask) = s6
  BY DEF syncModifiers
<1>4. SameFor(key, kb, kb)
  BY DEF SameFor
<1>5. SameFor(key, s1, kb)
  BY <1>1, <1>2, <1>4
<1> HIDE DEF s1
<1>6. SameFor(key, s2, kb)
  BY <1>1, <1>2, <1>5
<1> HIDE DEF s2
<1>7. SameFor(key, s3, kb)
  BY <1>1, <1>2, <1>6
<1> HIDE DEF s3
<1>8. SameFor(key, s4, kb)
  BY <1>1, <1>2, <1>7
<1> HIDE DEF s4
<1>9. SameFor(key, s5, kb)
  BY <1>1, <1>2, <1>8
<1> HIDE DEF s5
<1>10. SameFor(key, s6, kb)
  BY <1>1, <1>2, <1>9
<1> HIDE DEF s6
<1> QED BY <1>3, <1>10

\* A message about another key leaves a plain key as it is.
LEMMA OtherKeySame ==
    ASSUME NEW key \in PlainKey, NEW other \in PhysKey, other # key, NEW mask,
           KeyDownMessage(KeyID(other), mask) \/ KeyUpMessage(KeyID(other), mask)
    PROVE  SameFor(key, Keyboard', Keyboard)
<1> DEFINE kb == syncModifiers(Keyboard, mask)
           k == Sym(other)
<1>1. SameFor(key, kb, Keyboard)
  BY SyncSame
<1>2. SameFor(key, KeyDownEvent(kb, k), kb) /\ SameFor(key, KeyUpEvent(kb, k), kb)
  BY PlainIsOwn, EventSame DEF Code
<1>3. PICK kb2 \in {kb, KeyDownEvent(kb, k), KeyUpEvent(kb, k)} : SetKeyboard(kb2)
  BY DEF KeyDownMessage, KeyUpMessage, Sym
<1>4. SameFor(key, kb2, Keyboard)
  <2> HIDE DEF kb, k
  <2> QED BY <1>1, <1>2, <1>3 DEF SameFor
<1> QED BY <1>3, <1>4 DEF SetKeyboard, Keyboard, SameFor

\* What a message does to the book of the plain key it is about.
LEMMA OwnKeyDown ==
    ASSUME PlainBook, NEW key \in PlainKey, NEW mask, KeyDownMessage(KeyID(key), mask)
    PROVE  Code(key) \in heldKeys' => Sym(key) \in m_keyStates'
<1> DEFINE kb == syncModifiers(Keyboard, mask)
<1>1. SameFor(key, kb, Keyboard)
  BY SyncSame
<1>2. SetKeyboard(IF Sym(key) \in kb.states THEN kb ELSE KeyDownEvent(kb, Sym(key)))
  BY DEF KeyDownMessage, Sym
<1>3. Sym(key) \in KeyDownEvent(kb, Sym(key)).states
  BY DEF KeyDownEvent
<1> HIDE DEF kb
<1> QED BY <1>1, <1>2, <1>3 DEF SetKeyboard, PlainBook, SameFor, Keyboard

\* A release takes the key off both books.
LEMMA OwnKeyUp ==
    ASSUME IndInv, PlainBook, NEW key \in PlainKey, NEW mask, KeyUpMessage(KeyID(key), mask)
    PROVE  Code(key) \notin heldKeys' /\ Sym(key) \notin m_keyStates'
<1> DEFINE kb == syncModifiers(Keyboard, mask)
<1>1. SameFor(key, kb, Keyboard) /\ KeyBook(kb)
  BY SyncSame, SyncAllKeeps DEF IndInv
<1>2. SetKeyboard(IF Sym(key) \in kb.states THEN KeyUpEvent(kb, Sym(key)) ELSE kb)
  BY DEF KeyUpMessage, Sym
<1>3. Code(key) = 2054
  BY CodeValues DEF PlainKey, Sym, Code, FromWire, KeyID
<1>4. /\ Sym(key) \notin KeyUpEvent(kb, Sym(key)).states
      /\ Code(key) \notin KeyUpEvent(kb, Sym(key)).held
  BY <1>1, <1>3 DEF KeyUpEvent, Injectable, KeyBook, Code
<1>5. Sym(key) \notin kb.states => Code(key) \notin kb.held
  BY <1>1 DEF PlainBook, SameFor, Keyboard
<1> HIDE DEF kb
<1> QED BY <1>2, <1>4, <1>5 DEF SetKeyboard

\* While the keyboard is left alone, a plain key stays what it is, if whoever held it is
\* still there or has been remembered.
LEMMA PlainSame ==
    ASSUME PlainBook,
           \A key \in PlainKey :
              /\ SameFor(key, Keyboard', Keyboard)
              /\ key \in abandoned \/ (here /\ key \in typed)
                    => key \in abandoned' \/ (here' /\ key \in typed')
    PROVE  PlainBook'
<1> SUFFICES ASSUME NEW key \in PlainKey
             PROVE  /\ Code(key)' \in heldKeys' => Sym(key)' \in m_keyStates'
                    /\ Sym(key)' \in m_keyStates'
                          => key \in abandoned' \/ (here' /\ key \in typed')
  BY DEF PlainBook
<1>1. Sym(key)' = Sym(key) /\ Code(key)' = Code(key)
  BY CodeValues DEF PlainKey, Sym, Code, FromWire, KeyID
<1> QED BY <1>1 DEF PlainBook, SameFor, Keyboard

\* The book of a plain key, action by action.
LEMMA PlainStep == IndInv /\ PlainBook /\ [Next]_vars => PlainBook'
<1> SUFFICES ASSUME IndInv, PlainBook, [Next]_vars PROVE PlainBook'
  OBVIOUS
\* Steps that leave the keyboard alone: the key is remembered when its user goes away.
<1>0. ASSUME UNCHANGED keyboard PROVE \A key \in PlainKey : SameFor(key, Keyboard', Keyboard)
  BY <1>0 DEF keyboard, Keyboard, SameFor
<1>1. CASE Connect \/ Authorised
  BY <1>0, <1>1, PlainSame DEF Connect, Authorised, server
<1>2. CASE ConnectionLost
  BY <1>0, <1>2, PlainSame DEF ConnectionLost
<1>3. CASE COUT
  BY <1>0, <1>3, PlainSame DEF COUT
<1>4. CASE MouseMessage
  <2>1. UNCHANGED <<keyboard, here, typed, abandoned>>
    BY <1>4 DEF MouseMessage, DMMV, DMRM, DMDN, DMUP, DMWM, server
  <2> QED BY <1>0, <2>1, PlainSame
<1>5. ASSUME NEW key \in PhysKey, TypedElsewhere(key) PROVE PlainBook'
  BY <1>0, <1>5, PlainSame DEF TypedElsewhere, server
<1>6. CASE UNCHANGED vars
  BY <1>0, <1>6, PlainSame DEF vars, server
<1>7. ASSUME NEW p, NEW mask, CINN(p, mask) PROVE PlainBook'
  <2>1. \A key \in PlainKey : SameFor(key, Keyboard', Keyboard)
    <3>1. SetKeyboard(syncModifiers(Keyboard, mask))
      BY <1>7 DEF CINN
    <3>2. \A key \in PlainKey : SameFor(key, syncModifiers(Keyboard, mask), Keyboard)
      BY SyncSame
    <3> QED BY <3>1, <3>2 DEF SetKeyboard, Keyboard, SameFor
  <2> QED BY <1>7, <2>1, PlainSame DEF CINN
\* Messages about a key.
<1>8. ASSUME NEW other \in PhysKey, NEW key \in PlainKey,
             DKDN(other) \/ DKRP(other) \/ DKUP(other)
      PROVE  /\ Code(key) \in heldKeys' => Sym(key) \in m_keyStates'
             /\ Sym(key) \in m_keyStates' => key \in abandoned' \/ (here' /\ key \in typed')
  <2>0. /\ Code(key) \in heldKeys => Sym(key) \in m_keyStates
        /\ Sym(key) \in m_keyStates => key \in abandoned \/ (here /\ key \in typed)
    BY DEF PlainBook
  <2>1. CASE other = key /\ (DKDN(key) \/ DKRP(key))
    <3>1. here' /\ key \in typed'
      BY <2>1 DEF DKDN, DKRP, server
    <3>2. \E mask : KeyDownMessage(KeyID(key), mask)
      BY <2>1 DEF DKDN, DKRP
    <3> QED BY <3>1, <3>2, OwnKeyDown
  <2>2. CASE other = key /\ DKUP(key)
    <3>1. \E mask : KeyUpMessage(KeyID(key), mask)
      BY <2>2 DEF DKUP
    <3> QED BY <3>1, OwnKeyUp
  <2>3. CASE other # key
    <3>1. \E mask : KeyDownMessage(KeyID(other), mask) \/ KeyUpMessage(KeyID(other), mask)
      BY <1>8 DEF DKDN, DKRP, DKUP
    <3>2. SameFor(key, Keyboard', Keyboard)
      BY <2>3, <3>1, OtherKeySame
    <3>3. /\ Code(key) \in heldKeys' <=> Code(key) \in heldKeys
          /\ Sym(key) \in m_keyStates' <=> Sym(key) \in m_keyStates
      BY <3>2 DEF SameFor, Keyboard
    <3>4. key \in abandoned \/ (here /\ key \in typed)
            => key \in abandoned' \/ (here' /\ key \in typed')
      BY <1>8, <2>3 DEF DKDN, DKRP, DKUP, server
    <3> QED BY <2>0, <3>3, <3>4
  <2> QED BY <1>8, <2>1, <2>2, <2>3
<1>9. CASE KeyMessage
  <2>1. PICK other \in PhysKey : DKDN(other) \/ DKRP(other) \/ DKUP(other)
    BY <1>9 DEF KeyMessage
  <2> SUFFICES ASSUME NEW key \in PlainKey
               PROVE  /\ Code(key)' \in heldKeys' => Sym(key)' \in m_keyStates'
                      /\ Sym(key)' \in m_keyStates'
                            => key \in abandoned' \/ (here' /\ key \in typed')
    BY DEF PlainBook
  <2>2. Sym(key)' = Sym(key) /\ Code(key)' = Code(key)
    BY CodeValues DEF PlainKey, Sym, Code, FromWire, KeyID
  <2> QED BY <1>8, <2>1, <2>2
<1> QED BY <1>1, <1>2, <1>3, <1>4, <1>5, <1>6, <1>7, <1>9 DEF Next, ScreenMessage

-----------------------------------------------------------------------------
(* Theorems.                                                               *)

\* The strengthening holds in every reachable state.
THEOREM Inductive == Spec => []IndInv
BY InitInd, NextInd, PTL DEF Spec

\* Every variable keeps its type: the pointer stays on the screen, and only buttons and
\* keysyms that exist are entered as pressed.
THEOREM TypeCorrect == Spec => []TypeOK
<1>1. IndInv => TypeOK
  BY DEF IndInv, FlagsOK, TypeOK, KeyBook, Keyboard
<1> QED BY <1>1, Inductive, PTL

\* The buttons recorded as pressed are the buttons down on this machine, and those pressed
\* before the authorisation: no lost connection and no edge of the screen parts the two.
THEOREM ButtonsKnown == Spec => []HeldButtonsAreKnown
<1>1. IndInv => HeldButtonsAreKnown
  BY DEF IndInv, ButtonBook
<1> QED BY <1>1, Inductive, PTL

\* Once the pointer has left, no button is down here.
THEOREM LeavingReleases == Spec => []NoButtonLeftBehind
<1>1. IndInv => NoButtonLeftBehind
  BY DEF IndInv, ButtonBook, HeldButtonsAreKnown, NamesOf, NoButtonLeftBehind
<1> QED BY <1>1, Inductive, PTL

\* No motion and no button is refused because it is at the edge of the screen.
THEOREM EdgesUsable == Spec => []EdgesAreUsable
<1>1. IndInv => EdgesAreUsable
  BY DEF IndInv
<1> QED BY <1>1, Inductive, PTL

\* A key that is down on this machine is one the client has entered as pressed.
THEOREM KeysKnown == Spec => []HeldKeysAreKnown
<1>1. IndInv => HeldKeysAreKnown
  BY DEF IndInv, KeyBook, Keyboard, HeldKeysAreKnown
<1> QED BY <1>1, Inductive, PTL

\* A drag stays a drag: a MOVE carries a button if one is down, and the one it carries is
\* down or was pressed before the authorisation (injectMouseMove takes the first of
\* m_mouseButtonsDown, whether its press was injected or not).
THEOREM DragsStayDrags == Spec => []DragCarriesHeldButton
<1>1. Init => DragCarriesHeldButton
  BY DEF Init, NoEvent, DragCarriesHeldButton
<1> QED BY <1>1, Inductive, DragStep, PTL DEF Spec

\* A plain key is down here without its user only if the release happened where the server
\* does not tell of it: DKDN, DKRP, DKUP and syncModifiers keep m_keyStates and the device
\* together, and nothing else presses it.
THEOREM OnlyAbandonedStick == Spec => []OnlyAbandonedKeysStick
<1>1. Init => PlainBook
  BY DEF Init, PlainBook
<1>2. IndInv /\ PlainBook => OnlyAbandonedKeysStick
  BY DEF PlainBook, OnlyAbandonedKeysStick, Sym, Code
<1> QED BY <1>1, <1>2, Inductive, PlainStep, PTL DEF Spec
=============================================================================
