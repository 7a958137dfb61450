---------------------------- MODULE BootPromise ----------------------------
(***************************************************************************)
(* What a boot ROM promises: after every reset it starts at most one       *)
(* image, and that image is one the medium offers at that moment.  How it  *)
(* is found and loaded, and that the ROM may give up, is left open.        *)
(***************************************************************************)
CONSTANTS Media,       \* what may be in the slot
          Bootable(_)  \* images that may be started from a medium

VARIABLES medium,  \* what is in the slot since the last reset
          running  \* the images started since then

Init == medium \in Media /\ running = {}

Launch ==
    /\ running = {}
    /\ \E image \in Bootable(medium) : running' = {image}
    /\ UNCHANGED medium

Reset == medium' \in Media /\ running' = {}

Next == Launch \/ Reset

Spec == Init /\ [][Next]_<<medium, running>>
=============================================================================
