--------------------------- MODULE ClientLifecycle ---------------------------
(***************************************************************************)
(* What the protocol client promises to its callers, without threads,      *)
(* descriptors or flags: a client that is off, on, or on its way to off,   *)
(* with at most one link to the server.  It dials only while it is on and  *)
(* has not been refused; it is off only when the link is down; and it      *)
(* never goes from stopping back to on without having been off.            *)
(* DeskflowClient is shown to implement this specification.                *)
(***************************************************************************)
VARIABLES
    phase,    \* "off", "on" or "stopping"
    link,     \* "down", "dialling" or "up"
    refused   \* the server turned this run away (CBYE, EICV, wrong Hello)

lifecycle == <<phase, link, refused>>

LifecycleInit == phase = "off" /\ link = "down" /\ refused = FALSE

Start == /\ phase = "off" /\ link = "down"
         /\ phase' = "on"
         /\ refused' = FALSE
         /\ UNCHANGED link

Stop == /\ phase = "on"
        /\ phase' = "stopping"
        /\ UNCHANGED <<link, refused>>

Dial == /\ phase = "on" /\ link = "down" /\ ~refused
        /\ link' = "dialling"
        /\ UNCHANGED <<phase, refused>>

LinkUp == /\ link = "dialling"
          /\ link' = "up"
          /\ UNCHANGED <<phase, refused>>

LinkDown == /\ link \in {"dialling", "up"}
            /\ link' = "down"
            /\ UNCHANGED <<phase, refused>>

Refuse == /\ link = "up"
          /\ refused' = TRUE
          /\ UNCHANGED <<phase, link>>

Off == /\ phase \in {"on", "stopping"} /\ link = "down"
       /\ phase' = "off"
       /\ refused' = FALSE
       /\ UNCHANGED link

LifecycleNext == Start \/ Stop \/ Dial \/ LinkUp \/ LinkDown \/ Refuse \/ Off

LifecycleSpec == LifecycleInit /\ [][LifecycleNext]_lifecycle
=============================================================================
