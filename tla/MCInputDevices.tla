--------------------------- MODULE MCInputDevices ---------------------------
(***************************************************************************)
(* InputSession with one device in use.  No handler of a mouse message     *)
(* touches the keys and none of a key message the mouse; CINN and COUT     *)
(* alone do both.  So the user chooses a device at the beginning and stays *)
(* with it, instead of multiplying the states of the two.                  *)
(***************************************************************************)
EXTENDS MCInputSession

VARIABLE device

DeviceInit == Init /\ device \in {"mouse", "keys"}

MouseNext ==
    /\ device = "mouse"
    /\ MouseMessage \/ \E p \in Target \cup {<<-1, -1>>} : CINN(p, {})

KeysNext ==
    /\ device = "keys"
    /\ \/ KeyMessage
       \/ \E mask \in {{}, Mask(typed)} : CINN(<<-1, -1>>, mask)
       \/ \E key \in PhysKey : TypedElsewhere(key)

DeviceNext ==
    /\ Connect \/ Authorised \/ ConnectionLost \/ COUT \/ MouseNext \/ KeysNext
    /\ UNCHANGED device

DeviceSpec == DeviceInit /\ [][DeviceNext]_<<vars, device>>
=============================================================================
