----------------------------- MODULE WorldStore -----------------------------
(***************************************************************************)
(* What the chunk store promises to the game: the world is a map from      *)
(* chunks to the edits made to them; a save covers the whole world; when   *)
(* the server stops, however it stops, edits may be undone, but none that  *)
(* a save covered and none while it runs.  Loading, generating, caching    *)
(* and unloading chunks are invisible.                                     *)
(***************************************************************************)
CONSTANTS Chunks, Edits

VARIABLES world, saved, up

Init == /\ world = [c \in Chunks |-> {}]
        /\ saved = [c \in Chunks |-> {}]
        /\ up = TRUE

Edit(c, e) ==
    /\ up /\ e \notin world[c]
    /\ world' = [world EXCEPT ![c] = @ \cup {e}]
    /\ UNCHANGED <<saved, up>>

Save == up /\ saved' = world /\ UNCHANGED <<world, up>>

Stop ==
    /\ up /\ up' = FALSE
    /\ world' \in [Chunks -> SUBSET Edits]
    /\ \A c \in Chunks : /\ saved[c] \subseteq world'[c]
                         /\ world'[c] \subseteq world[c]
    /\ UNCHANGED saved

Start == ~up /\ up' = TRUE /\ UNCHANGED <<world, saved>>

Next == \/ \E c \in Chunks, e \in Edits : Edit(c, e)
        \/ Save \/ Stop \/ Start

Spec == Init /\ [][Next]_<<world, saved, up>>
=============================================================================
