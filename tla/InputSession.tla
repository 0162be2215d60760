---------------------------- MODULE InputSession ----------------------------
(***************************************************************************)
(* What the client does with the input messages of a server: handleMessage *)
(* from CINN to DKDL, syncModifiers and the four injection primitives of   *)
(* deskflow_client.cpp.  They all run on the worker thread, one message    *)
(* after the other; their state survives the connection, so several        *)
(* connections of one client are modelled.                                 *)
(*                                                                         *)
(* Two external parties surround them:                                     *)
(*   - the user at the server's keyboard and mouse.  The server sends the  *)
(*     user's input while the pointer is on this screen and nothing of     *)
(*     what happens elsewhere;                                             *)
(*   - the input subsystem of HarmonyOS: it ignores injections until it    *)
(*     has authorised them (handshake requests that, the answer comes      *)
(*     later; nothing the app does withdraws it) and refuses mouse events  *)
(*     at a coordinate 0, as deskflow_client.cpp:900-902 records.          *)
(***************************************************************************)
EXTENDS Integers

CONSTANTS
    W, H,         \* m_screenW, m_screenH
    Target,       \* absolute positions the server sends
    Delta,        \* what one relative motion can add to a coordinate
    Button,       \* protocol button ids the user's mouse has
    PhysKey,      \* keys the user's keyboard has (see KeyID)
    InitialAuth   \* is injection authorised before the first connection?

Screen == (0..W-1) \X (0..H-1)

ASSUME ScreenAssumption == W \in Nat /\ H \in Nat /\ W >= 2 /\ H >= 2
ASSUME TargetAssumption == Target \subseteq Screen
ASSUME DeltaAssumption == Delta \subseteq Int
ASSUME ButtonAssumption == Button \subseteq 1..5
ASSUME KeyAssumption ==
    PhysKey \subseteq {"A", "Return", "ShiftL", "ShiftR", "ControlL", "SuperL"}
ASSUME AuthAssumption == InitialAuth \subseteq BOOLEAN

VARIABLES
    auth,                \* HarmonyOS: injections are authorised
    heldButtons,         \* HarmonyOS: mouse buttons that are down
    heldKeys,            \* HarmonyOS: keycodes that are down
    event,               \* the last mouse event injected, and what became of it
    m_active,
    m_pointer,           \* <<m_pointerX, m_pointerY>>
    m_mouseButtonsDown,  \* the ids mapped to true
    m_keyStates,         \* the keysyms mapped to true
    connected,           \* the message loop of a connection is running
    here,                \* server: the pointer is on this screen
    pressed,             \* server: buttons pressed since it came here
    typed,               \* user: keys held on the server's keyboard
    abandoned,           \* history: keys that were held when the pointer or the
                         \* connection went away, until they are released here
    unheard              \* history: recorded buttons whose press came before the
                         \* authorisation

buttons  == <<heldButtons, m_mouseButtonsDown, unheard>>
mouse    == <<buttons, event, m_pointer>>
keyboard == <<heldKeys, m_keyStates>>
server   == <<connected, here>>
vars == <<auth, mouse, keyboard, m_active, server, pressed, typed, abandoned>>

-----------------------------------------------------------------------------
(* Mouse injection.                                                        *)

buttonToHarmony(b) == CASE b = 1 -> "left" [] b = 2 -> "middle" [] b = 3 -> "right"
                        [] OTHER -> "none"

NamesOf(ids) == {buttonToHarmony(b) : b \in ids}

NoEvent == [action |-> "none", button |-> "none", result |-> "none"]

\* OH_Input_InjectMouseEventGlobal: error 401 for a coordinate on the edge 0.
Inject(p) == IF ~auth THEN "unauthorised"
             ELSE IF p[1] = 0 \/ p[2] = 0 THEN "invalid" ELSE "success"

MouseEvent(action, button, p) == [action |-> action, button |-> button, result |-> Inject(p)]

ClampTo(lo, hi, v) == IF v < lo THEN lo ELSE IF v > hi THEN hi ELSE v
\* Mutant: the position is injected as it is.
InsideUnclamped(p) == p

\* Mutant: clamped to the screen, edge included.
InsideFromZero(p) == <<ClampTo(0, W - 1, p[1]), ClampTo(0, H - 1, p[2])>>

Inside(p) == <<ClampTo(1, W - 1, p[1]), ClampTo(1, H - 1, p[2])>>

\* Mutant: a MOVE does not say which button is pressed.
CarriedNone == "none"

\* The first pressed button of the (ordered) map, which a MOVE has to carry.
CarriedButton ==
    IF m_mouseButtonsDown = {} THEN "none"
    ELSE buttonToHarmony(CHOOSE b \in m_mouseButtonsDown : \A c \in m_mouseButtonsDown : b <= c)

injectMouseMove(p) == event' = MouseEvent("move", CarriedButton, Inside(p))

\* BEGIN, UPDATE, END at the unclamped pointer: the first failure ends the sequence.
injectMouseWheel == event' = MouseEvent("axis", "none", m_pointer)

injectMouseButton(b, down) ==
    IF buttonToHarmony(b) # "none"
    THEN LET e == MouseEvent(IF down THEN "down" ELSE "up", buttonToHarmony(b), Inside(m_pointer))
         IN  /\ m_mouseButtonsDown' = IF down THEN m_mouseButtonsDown \cup {b}
                                      ELSE m_mouseButtonsDown \ {b}
             /\ event' = e
             /\ heldButtons' = IF e.result # "success" THEN heldButtons
                               ELSE IF down THEN heldButtons \cup {e.button}
                               ELSE heldButtons \ {e.button}
             /\ unheard' = IF down /\ ~auth THEN unheard \cup {b} ELSE unheard \ {b}
    ELSE injectMouseWheel /\ UNCHANGED buttons

\* Mutant: the buttons are forgotten, not released.
ForgetButtons ==
    /\ m_mouseButtonsDown' = {} /\ unheard' = {}
    /\ UNCHANGED <<event, heldButtons>>

\* COUT: every pressed button is released.
ReleaseButtons ==
    LET e == MouseEvent("up", CarriedButton, Inside(m_pointer))
    IN  /\ event' = IF m_mouseButtonsDown = {} THEN event ELSE e
        /\ heldButtons' = IF e.result # "success" THEN heldButtons
                          ELSE heldButtons \ NamesOf(m_mouseButtonsDown)
        /\ m_mouseButtonsDown' = {} /\ unheard' = {}

-----------------------------------------------------------------------------
(* Key injection.  A keysym is a uint32, here <<high, low>> half.          *)

Keysym(low) == <<0, low>>

\* static_cast<uint32_t>(int16_t): ids from 0x8000 on are sign extended.
FromWire(id) == <<IF id >= \h8000 THEN \hFFFF ELSE 0, id>>

\* The switch's modifier rows (AltGr is the right Alt, Super is Meta) and a few of its
\* editing rows; the rows left out are for keys no keyboard of this model has.
KeyRow(k) ==
    CASE k = \hEF08 -> 2055 [] k = \hEF09 -> 2049 [] k = \hEF0D -> 2054 [] k = \hEF1B -> 2070
      [] k = \hEFE1 -> 2047 [] k = \hEFE2 -> 2048
      [] k = \hEFE3 -> 2072 [] k = \hEFE4 -> 2073
      [] k = \hEFE9 -> 2045 [] k \in {\hEFEA, \hEF7E} -> 2046
      [] k \in {\hEFE7, \hEFEB} -> 2076 [] k \in {\hEFE8, \hEFEC} -> 2077
      [] OTHER -> -1

IsLetter(k) == k \in 97..122 \/ k \in 65..90
IsDigit(k) == k \in 48..57
IsFunctionKey(k) == k \in \hEFBE..\hEFD5
IsKeypadDigit(k) == k \in \hEFB0..\hEFB9

\* Letters (of either case), digits, function keys and keypad digits go by offset, the
\* rest by row; -1 for none.  keysym & 0xFFFF is the low half.
keysymToKeycode(keysym) ==
    LET k == keysym[2] IN
    IF IsLetter(k) THEN 2017 + (k % 32) - 1
    ELSE IF IsDigit(k) THEN 2000 + (k - 48)
    ELSE IF IsFunctionKey(k) THEN 2090 + (k - \hEFBE)
    ELSE IF IsKeypadDigit(k) THEN 2103 + (k - \hEFB0)
    ELSE KeyRow(k)

\* A keyboard state pairs the client's book with the device's.
Keyboard == [states |-> m_keyStates, held |-> heldKeys]
SetKeyboard(kb) == m_keyStates' = kb.states /\ heldKeys' = kb.held

Injectable(k) == auth /\ keysymToKeycode(k) >= 0

\* injectKeyEvent(k, down), whatever it returns, and m_keyStates[k] = down.
KeyDownEvent(kb, k) ==
    [states |-> kb.states \cup {k},
     held |-> IF Injectable(k) THEN kb.held \cup {keysymToKeycode(k)} ELSE kb.held]
KeyUpEvent(kb, k) ==
    [states |-> kb.states \ {k},
     held |-> IF Injectable(k) THEN kb.held \ {keysymToKeycode(k)} ELSE kb.held]

\* The modifier masks; a mask is the set of its bits.
kModBits == {1, 2, 4, 8, 16, 32}

maskModifierKeysym(bit) ==
    Keysym(CASE bit = 1 -> \hEFE1 [] bit = 2 -> \hEFE3 [] bit = 4 -> \hEFE9
             [] bit = 8 -> \hEFE7 [] bit = 16 -> \hEFEB [] bit = 32 -> \hEFEA)

SyncModifier(kb, bit, mask) ==
    LET k == maskModifierKeysym(bit) IN
    IF bit \in mask /\ k \notin kb.states THEN KeyDownEvent(kb, k)
    ELSE IF bit \notin mask /\ k \in kb.states THEN KeyUpEvent(kb, k)
    ELSE kb

\* Shift, Control, Alt, Meta, Super and AltGr, in this order.
syncModifiers(kb, mask) ==
    LET sync(s, bit) == SyncModifier(s, bit, mask)
    IN  sync(sync(sync(sync(sync(sync(kb, 1), 2), 4), 8), 16), 32)

\* DKDN, DKRP and DKDL: the key goes down unless the client believes it is.
KeyDownMessage(id, mask) ==
    LET kb == syncModifiers(Keyboard, mask)
        k == FromWire(id)
    IN  SetKeyboard(IF k \in kb.states THEN kb ELSE KeyDownEvent(kb, k))

\* Mutant: the id is not sign extended as it was when the key went down.
KeyUpUnsigned(id, mask) ==
    LET kb == syncModifiers(Keyboard, mask)
        k == Keysym(id)
    IN  SetKeyboard(IF k \in kb.states THEN KeyUpEvent(kb, k) ELSE kb)

\* DKUP: the key goes up if the client believes it is down.
KeyUpMessage(id, mask) ==
    LET kb == syncModifiers(Keyboard, mask)
        k == FromWire(id)
    IN  SetKeyboard(IF k \in kb.states THEN KeyUpEvent(kb, k) ELSE kb)

-----------------------------------------------------------------------------
(* The keyboard of the server's user.  A key's id may depend on Shift;     *)
(* servers differ in whether the mask of a modifier's own message already  *)
(* shows it, and in whether CINN has the modifiers or only the lock keys.  *)

Shifted == typed \cap {"ShiftL", "ShiftR"} # {}

KeyID(key) ==
    CASE key = "A" -> IF Shifted THEN 65 ELSE 97
      [] key = "Return" -> \hEF0D
      [] key = "ShiftL" -> \hEFE1
      [] key = "ShiftR" -> \hEFE2
      [] key = "ControlL" -> \hEFE3
      [] key = "SuperL" -> \hEFEB

BitOf(key) == CASE key \in {"ShiftL", "ShiftR"} -> {1} [] key = "ControlL" -> {2}
                [] key = "SuperL" -> {16} [] OTHER -> {}

Mask(keys) == UNION {BitOf(key) : key \in keys}

\* Keys with one id, which syncModifiers does not touch.
PlainKey == PhysKey \cap {"Return"}

-----------------------------------------------------------------------------
Init ==
    /\ auth \in InitialAuth
    /\ heldButtons = {} /\ heldKeys = {} /\ event = NoEvent
    /\ m_active = FALSE
    /\ m_pointer = <<0, 0>>
    /\ m_mouseButtonsDown = {} /\ m_keyStates = {}
    /\ connected = FALSE /\ here = FALSE
    /\ pressed = {} /\ typed = {} /\ abandoned = {} /\ unheard = {}

\* Mutant: a new connection starts with an empty book of keys.
ConnectForgetsKeys ==
    /\ ~connected
    /\ connected' = TRUE
    /\ m_keyStates' = {}
    /\ UNCHANGED <<auth, mouse, heldKeys, m_active, here, pressed, typed, abandoned>>

\* The handshake is done.  Nothing of the session state above is reset.
Connect ==
    /\ ~connected
    /\ connected' = TRUE
    /\ UNCHANGED <<auth, mouse, keyboard, m_active, here, pressed, typed, abandoned>>

\* The answer to OH_Input_RequestInjection; authorisation outlives the connection.
Authorised ==
    /\ connected /\ ~auth
    /\ auth' = TRUE
    /\ UNCHANGED <<mouse, keyboard, m_active, server, pressed, typed, abandoned>>

ConnectionLost ==
    /\ connected
    /\ connected' = FALSE /\ here' = FALSE
    /\ pressed' = {}
    /\ abandoned' = IF here THEN abandoned \cup typed ELSE abandoned
    /\ UNCHANGED <<auth, mouse, keyboard, m_active, typed>>

\* The pointer comes to p; <<-1, -1>> is a CINN that only brings the mask.
CINN(p, mask) ==
    /\ connected /\ ~here
    /\ here' = TRUE
    /\ m_active' = TRUE
    /\ IF p[1] >= 0 /\ p[2] >= 0
       THEN m_pointer' = p /\ injectMouseMove(p)
       ELSE UNCHANGED <<m_pointer, event>>
    /\ SetKeyboard(syncModifiers(Keyboard, mask))
    /\ UNCHANGED <<auth, buttons, connected, pressed, typed, abandoned>>

COUT ==
    /\ here
    /\ here' = FALSE
    /\ m_active' = FALSE
    /\ ReleaseButtons
    /\ pressed' = {}
    /\ abandoned' = abandoned \cup typed
    /\ UNCHANGED <<auth, keyboard, m_pointer, connected, typed>>

DMMV(p) ==
    /\ here
    /\ m_pointer' = p
    /\ injectMouseMove(p)
    /\ UNCHANGED <<auth, buttons, keyboard, m_active, server, pressed, typed, abandoned>>

\* Mutant: if (x > m_screenW) x = m_screenW, and for y.
DMRMOffByOne(dx, dy) ==
    /\ here
    /\ m_pointer' = <<ClampTo(0, W, m_pointer[1] + dx), ClampTo(0, H, m_pointer[2] + dy)>>
    /\ injectMouseMove(m_pointer')
    /\ UNCHANGED <<auth, buttons, keyboard, m_active, server, pressed, typed, abandoned>>

DMRM(dx, dy) ==
    /\ here
    /\ m_pointer' = <<ClampTo(0, W - 1, m_pointer[1] + dx), ClampTo(0, H - 1, m_pointer[2] + dy)>>
    /\ injectMouseMove(m_pointer')
    /\ UNCHANGED <<auth, buttons, keyboard, m_active, server, pressed, typed, abandoned>>

DMDN(b) ==
    /\ here /\ b \notin pressed
    /\ pressed' = pressed \cup {b}
    /\ injectMouseButton(b, TRUE)
    /\ UNCHANGED <<auth, m_pointer, keyboard, m_active, server, typed, abandoned>>

DMUP(b) ==
    /\ here /\ b \in pressed
    /\ pressed' = pressed \ {b}
    /\ injectMouseButton(b, FALSE)
    /\ UNCHANGED <<auth, m_pointer, keyboard, m_active, server, typed, abandoned>>

DMWM ==
    /\ here
    /\ injectMouseWheel
    /\ UNCHANGED <<auth, buttons, m_pointer, keyboard, m_active, server, pressed, typed,
                   abandoned>>

\* DKDN, or DKDL when the server knows the language.
DKDN(key) ==
    /\ here /\ key \notin typed
    /\ typed' = typed \cup {key}
    /\ \E mask \in {Mask(typed), Mask(typed')} : KeyDownMessage(KeyID(key), mask)
    /\ UNCHANGED <<auth, mouse, m_active, server, pressed, abandoned>>

DKRP(key) ==
    /\ here /\ key \in typed
    /\ KeyDownMessage(KeyID(key), Mask(typed))
    /\ UNCHANGED <<auth, mouse, m_active, server, pressed, typed, abandoned>>

DKUP(key) ==
    /\ here /\ key \in typed
    /\ typed' = typed \ {key}
    /\ \E mask \in {Mask(typed), Mask(typed')} : KeyUpMessage(KeyID(key), mask)
    /\ abandoned' = abandoned \ {key}
    /\ UNCHANGED <<auth, mouse, m_active, server, pressed>>

\* Typing on the server itself or on another of its screens.
TypedElsewhere(key) ==
    /\ ~here
    /\ typed' = IF key \in typed THEN typed \ {key} ELSE typed \cup {key}
    /\ UNCHANGED <<auth, mouse, keyboard, m_active, server, pressed, abandoned>>

MouseMessage ==
    \/ \E p \in Target : DMMV(p)
    \/ \E dx, dy \in Delta : DMRM(dx, dy)
    \/ \E b \in Button : DMDN(b) \/ DMUP(b)
    \/ DMWM

KeyMessage == \E key \in PhysKey : DKDN(key) \/ DKRP(key) \/ DKUP(key)

ScreenMessage ==
    \/ \E p \in Target \cup {<<-1, -1>>} : \E mask \in {{}, Mask(typed)} : CINN(p, mask)
    \/ COUT

Next ==
    \/ Connect \/ Authorised \/ ConnectionLost
    \/ ScreenMessage \/ MouseMessage \/ KeyMessage
    \/ \E key \in PhysKey : TypedElsewhere(key)

Spec == Init /\ [][Next]_vars

-----------------------------------------------------------------------------
(* Properties.                                                             *)

HarmonyButton == {"left", "middle", "right"}
Half == 0..\hFFFF
Keysyms == Half \X Half

MouseOK ==
    /\ heldButtons \subseteq HarmonyButton
    /\ event \in [action : {"none", "move", "axis", "down", "up"},
                  button : HarmonyButton \cup {"none"},
                  result : {"none", "unauthorised", "invalid", "success"}]
    /\ m_pointer \in Screen
    /\ m_mouseButtonsDown \subseteq 1..3
    /\ unheard \subseteq m_mouseButtonsDown

TypeOK ==
    /\ MouseOK
    /\ auth \in BOOLEAN /\ m_active \in BOOLEAN /\ connected \in BOOLEAN /\ here \in BOOLEAN
    /\ heldKeys \subseteq Nat /\ m_keyStates \subseteq Keysyms
    /\ pressed \subseteq Button /\ typed \subseteq PhysKey /\ abandoned \subseteq PhysKey

\* m_mouseButtonsDown is the true state of the buttons of this machine, over lost
\* connections and at the edges of the screen, but for those whose press came before the
\* authorisation; these are taken for pressed until they are pressed again or released,
\* by the user or by COUT.
HeldButtonsAreKnown == heldButtons = NamesOf(m_mouseButtonsDown \ unheard)

\* Once the pointer has been moved away, no button is left pressed: neither one held when
\* it left nor one left over from a connection that broke in the middle of a drag.
NoButtonLeftBehind == ~m_active => heldButtons = {} /\ m_mouseButtonsDown = {}

\* HarmonyOS never refuses a motion or a button because of its coordinates, wherever the
\* server or a run of relative motions takes the pointer.
EdgesAreUsable == event.action # "axis" => event.result # "invalid"

\* A drag stays a drag: a MOVE carries a button whenever one is down here; and the button
\* it carries is really down, or else was pressed before the authorisation and not taken
\* back since (it then hides the one being dragged, if it comes first in the map).
DragCarriesHeldButton ==
    event.action = "move" /\ event.result = "success" =>
        /\ heldButtons # {} => event.button # "none"
        /\ event.button \in {"none"} \cup heldButtons \cup NamesOf(unheard)

\* A keycode that is down on this machine is one the client knows to have pressed, under
\* one of the keysyms it can have (two cases, sign extended or not, Super or Meta).
HeldKeysAreKnown == heldKeys \subseteq {keysymToKeycode(k) : k \in m_keyStates}

\* A plain key is down without the user holding it only if its release happened after the
\* pointer or the connection had gone: while they stay, no key sticks or is forgotten.
OnlyAbandonedKeysStick ==
    \A key \in PlainKey :
        here /\ key \notin typed /\ key \notin abandoned
            => /\ FromWire(KeyID(key)) \notin m_keyStates
               /\ keysymToKeycode(FromWire(KeyID(key))) \notin heldKeys

(* What comments and documents say of the client, and it does not do.      *)

\* m_mouseButtonsDown is the true state of the buttons, late authorisation or not.
ButtonsAreTrueState == heldButtons = NamesOf(m_mouseButtonsDown)

\* COUT clears what is held "to prevent sticky keys and buttons".
NoKeyLeftBehind == ~m_active => heldKeys = {}

\* syncModifiers makes the modifiers held here agree with the mask of the CINN.
HeldModifiers == {bit \in kModBits :
                     keysymToKeycode(maskModifierKeysym(bit)) \in heldKeys}
CinnSyncsModifiers ==
    [][\A p \in Target \cup {<<-1, -1>>}, mask \in {{}, Mask(typed)} :
          CINN(p, mask) /\ auth => HeldModifiers' = mask]_vars

\* Both cases of a letter are one physical key: releasing the key releases it.
LettersAreReleased ==
    here /\ "A" \notin typed \cup abandoned => keysymToKeycode(Keysym(97)) \notin heldKeys

\* No mouse event is injected at the coordinates HarmonyOS refuses.
WheelWorksAtEdges == event.result # "invalid"
=============================================================================
