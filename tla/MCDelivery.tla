----------------------------- MODULE MCDelivery -----------------------------
(***************************************************************************)
(* Instances of Delivery for TLC.  Events are about two source rows of one *)
(* entity; the fan-out is station (allocated ids) then school (generated   *)
(* keys, foreign key to station), with psgc (reference) before them or a   *)
(* second generated table after them.                                      *)
(***************************************************************************)
EXTENDS Delivery, TLC

CONSTANTS r1, r2, n1, w1, w2

OneEntity == r1 :> n1 @@ r2 :> n1

\* Events alternate between the two rows, or are all about one of them.
AlternateRefs == [e \in EventIds |-> IF e % 2 = 1 THEN r1 ELSE r2]
OneRef        == [e \in EventIds |-> r1]
CrossedRefs   == [e \in EventIds |-> IF e \in {1, 4, 5} THEN r1 ELSE r2]

\* All payloads differ, or the first two carry the same values.
DistinctPayloads == [e \in EventIds |-> e]
SharedPayload    == [e \in EventIds |-> IF e \in {1, 2} THEN 1 ELSE e]
MCValues         == 0..MaxEvents

KindStationSchool      == <<"app", "auto">>
ParentStationSchool    == <<0, 1>>
KindPsgcStationSchool == <<"ref", "app", "auto">>
ParentPsgcStationSchool == <<0, 1, 2>>
KindStationSchoolBeis  == <<"app", "auto", "auto">>
ParentStationSchoolBeis == <<0, 1, 1>>
KindSchool             == <<"auto">>
ParentSchool           == <<0>>
KindSchoolBeis         == <<"auto", "auto">>
ParentSchoolBeis       == <<0, 0>>

Symmetry == Permutations(Workers)
=============================================================================
