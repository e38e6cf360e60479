---------------------------- MODULE MCSubmission ----------------------------
(* A plain job a, two jobs b and c with one dedup key of which c depends   *)
(* on a, and a batch m; or a map_reduce job p with the map jobs x and y    *)
(* and the reduce job z.  For the claim about dedup keys: one key for all. *)
EXTENDS Submission

CONSTANTS a, b, c, m, k, p, x, y, z

MCKey  == [r \in Requests |-> IF r \in {b, c} THEN k ELSE NoKey]
MCDeps == [r \in Requests |-> CASE r = c -> {a} [] r = z -> {x, y} [] OTHER -> {}]
MCFan  == <<x, y, z>>
MCScenarios == {{a, b, c, m}, {p}}

All    == {Requests}
NoFan  == << >>
OneKey == [r \in Requests |-> k]
NoDeps == [r \in Requests |-> {}]
=============================================================================
