------------------------------ MODULE MCApiTest ------------------------------
(***************************************************************************)
(* All API test programs of src/simpleapi and src/simplethreadapi.         *)
(***************************************************************************)
EXTENDS ApiTest, ApiPrograms
=============================================================================
