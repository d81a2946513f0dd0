------------------------------ MODULE MCMatview ------------------------------
(* Two views of the catalogue: person_actif reads core.mandate (and others), *)
(* mandate_actif reads core.mandate and mv.person_actif.                     *)
EXTENDS Matview

MCReads == [person_actif |-> {"mandate"}, mandate_actif |-> {"mandate", "person_actif"}]

\* The catalogue as it is, and one that has forgotten a view.
MCDeclarations == {MCReads, [MCReads EXCEPT !.mandate_actif = {"mandate"}]}
=============================================================================
