---------------------------- MODULE MCDefinitions ----------------------------
(* A field of 1 in one document does not go with a field of 2 in another;  *)
(* what is wrong or rough is so by a field and the rest together, so that  *)
(* an override, or an edit under one, makes a document wrong or mends it.  *)
EXTENDS Definitions

CONSTANTS Items, Techs

MCOrder == <<Items, Techs, Balance, Extra>>
MCWrong == {[field |-> 1, rest |-> "odd"]}
MCRough == {[field |-> 2, rest |-> "odd"]}
MCClashes == {{[field |-> 1, rest |-> "plain"], [field |-> 2, rest |-> "plain"]}}
=============================================================================
