------------------------------ MODULE FuncSet ------------------------------
(***************************************************************************)
(* What the function tree promises to checkasm_check_key(): whoever asks     *)
(* for a name gets the one node of that name, until all of them are freed.  *)
(***************************************************************************)
VARIABLES
    known,  \* the names that have a node
    asked,  \* the name that was asked for last
    got     \* the name of the node returned for it

Init == known = {} /\ asked = <<>> /\ got = <<>>

(* Whatever name is asked for, the node returned is the one of that name.    *)
Get ==
    /\ asked' # <<>>
    /\ got' = asked'
    /\ known' = known \cup {asked'}

Uninit == known' = {} /\ asked' = <<>> /\ got' = <<>>

Next == Get \/ Uninit

Spec == Init /\ [][Next]_<<known, asked, got>>
=============================================================================
