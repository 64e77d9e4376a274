---------------------------- MODULE MCSourceBundle ----------------------------
(* A small instance of SourceBundle: a replay in the export's root, another  *)
(* replay and one message export in a subdirectory.                          *)
EXTENDS SourceBundle

CONSTANTS r1, r2, json, top, sub

MCOrder == <<r1, r2, json>>
MCWalk == <<top, sub>>
MCDirOf == (r1 :> top) @@ (r2 :> sub) @@ (json :> sub)

\* Two replays with bytes of their own, or the same ones.
MCOriginals ==
    {[r \in {1, 2} |-> (r1 :> 3*r - 2) @@ (r2 :> second[r]) @@ (json :> 3*r)] :
        second \in {<<2, 5>>, <<1, 5>>}}

\* Two reports, one of them found in two versions.
MCPosted ==
    3 :> <<[id |-> 1, time |-> 1, text |-> 1], [id |-> 1, time |-> 1, text |-> 2],
           [id |-> 2, time |-> 1, text |-> 3]>>

Ev(name, size, minutes) == [name |-> name, size |-> size, minutes |-> minutes]

MCEvidences ==
    LET none == Ev("none", FALSE, 0)
        weak == Ev("hashed", FALSE, 3)
        strong == Ev("exact", TRUE, 1)
    IN {(r1 :> <<weak, strong, none>>) @@ (r2 :> <<weak, none, strong>>),
        (r1 :> <<strong, weak, weak>>) @@ (r2 :> <<strong, none, weak>>)}
=============================================================================
