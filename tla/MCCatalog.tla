------------------------------ MODULE MCCatalog ------------------------------
(***************************************************************************)
(* Model-checks the catalog and its pages on two repositories.             *)
(***************************************************************************)
EXTENDS CatalogPages

\* a and a/b, two below a, two apart, and one two levels below the other.
MCLayouts == {<< <<1>>, <<1, 2>> >>, << <<1, 1>>, <<1, 2>> >>,
              << <<1>>, <<2>> >>, << <<1, 2, 1>>, <<1>> >>}

MCTagCount == <<1, 2>>
=============================================================================
