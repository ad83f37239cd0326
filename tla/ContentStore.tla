---------------------------- MODULE ContentStore ----------------------------
(***************************************************************************)
(* What a content-addressed store promises: what is kept under a digest is *)
(* the content that has this digest, for good.                             *)
(***************************************************************************)
CONSTANTS Digests, Content(_)   \* the content a digest is the digest of
VARIABLE layers                 \* digest -> bytes

Init == layers = [d \in {} |-> <<>>]

Put(d) == layers' = [x \in DOMAIN layers \cup {d} |->
                        IF x = d THEN Content(d) ELSE layers[x]]

Next == \E d \in Digests \ DOMAIN layers : Put(d)

Spec == Init /\ [][Next]_layers
=============================================================================
