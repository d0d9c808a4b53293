------------------------------ MODULE PushSlot ------------------------------
(***************************************************************************)
(* What the dev server promises about widget-driven pushes: there is one   *)
(* in-flight slot per process; a push holds it at most once, is turned     *)
(* away only while another push holds it, and gives it back eventually.    *)
(* WidgetPush, the detailed model of host_push_v2.rs, implements this.     *)
(***************************************************************************)
CONSTANTS
    Pushes,     \* the pushes that may be started
    NoPush      \* the value of a slot nobody holds

VARIABLES
    holder,     \* the push that holds the slot, or NoPush
    released,   \* pushes that held the slot and gave it back
    refused     \* pushes answered AlreadyRunning

slotVars == <<holder, released, refused>>

Init ==
    /\ holder = NoPush
    /\ released = {}
    /\ refused = {}

Unserved(p) == p \notin released \union refused \union {holder}

Claim(p) ==
    /\ holder = NoPush
    /\ Unserved(p)
    /\ holder' = p
    /\ UNCHANGED <<released, refused>>

Release ==
    /\ holder # NoPush
    /\ released' = released \union {holder}
    /\ holder' = NoPush
    /\ UNCHANGED refused

Refuse(p) ==
    /\ holder # NoPush
    /\ Unserved(p)
    /\ refused' = refused \union {p}
    /\ UNCHANGED <<holder, released>>

Next ==
    \/ Release
    \/ \E p \in Pushes : Claim(p) \/ Refuse(p)

SafeSpec == Init /\ [][Next]_slotVars

Spec == SafeSpec /\ WF_slotVars(Release)
=============================================================================
