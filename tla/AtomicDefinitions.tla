-------------------------- MODULE AtomicDefinitions --------------------------
(***************************************************************************)
(* What the definition registry and the administrator's overlay promise:   *)
(* definitions change as a whole, to a set of documents that was accepted  *)
(* as a whole, and an override is written together with the definitions    *)
(* it belongs to or not at all.  Two things go astray: the process stops   *)
(* in the middle of a write, or an error nobody expected ends the command. *)
(* An override names a definition of a document; it is in force while the  *)
(* document holds that definition, and changes nothing while it does not.  *)
(***************************************************************************)
EXTENDS Integers

CONSTANTS Docs, Required, Fields, NoEntry, Values, None, Snapshots

VARIABLES
    live,       \* the definitions in force; None: nothing loaded
    overrides,  \* what the overlay says
    astray      \* an unexpected error has left an override behind

absvars == <<live, overrides, astray>>

Empty == [d \in Docs |-> None]
Agrees(s, o) ==
    \A d \in Required : o[d] # None /\ s[d].field # NoEntry => s[d].field = o[d]
Edited(o) == \E d \in Required, v \in Fields \cup {None} : o = [overrides EXCEPT ![d] = v]

Init ==
    /\ live = Empty
    /\ overrides = [d \in Required |-> None]
    /\ astray = FALSE

(* A start or a reload. *)
Load ==
    /\ live' \in Snapshots /\ Agrees(live', overrides)
    /\ astray' = FALSE
    /\ UNCHANGED overrides

(* `def set', `def reset'. *)
Write ==
    /\ Edited(overrides')
    /\ live' \in Snapshots /\ Agrees(live', overrides')
    /\ astray' = FALSE

(* The process stops; the override of a write that was cut may stay. *)
Halt == live' = Empty /\ (Edited(overrides') \/ UNCHANGED overrides) /\ UNCHANGED astray

(* A start that fails leaves a part of the definitions in force. *)
LoadPart ==
    /\ live = Empty
    /\ live' \in [Docs -> Values \cup {None}] /\ \E d \in Docs : live'[d] = None
    /\ UNCHANGED <<overrides, astray>>

Stray == Edited(overrides') /\ astray' = TRUE /\ UNCHANGED live

Next == Load \/ Write \/ Halt \/ LoadPart \/ Stray
Spec == Init /\ [][Next]_absvars
=============================================================================
