----------------------------- MODULE Definitions -----------------------------
(***************************************************************************)
(* The definition registry (world/data_registry.py), its hot reload, and   *)
(* the overlay an administrator writes (world/admin/overlay_store.py,      *)
(* def_write.py), over files that an operator edits meanwhile.             *)
(*                                                                         *)
(* The game runs in one thread under OVERLAY_RELOAD_LOCK: commands do not  *)
(* interleave with each other, but a load reads one file after another     *)
(* while the operator saves new ones, and a crash may fall between any two *)
(* steps.  A document says what the field of its overridable definition    *)
(* is, or holds no such definition, and says the rest; what the schemas,   *)
(* the cross-validation and the loaders make of that are the sets Wrong,   *)
(* Clashes and Rough.  Left out: missing files, an overlay that does not   *)
(* parse or is edited by hand, more than one override of a document.       *)
(***************************************************************************)
EXTENDS Integers, Sequences

CONSTANTS
    Required,      \* _REQUIRED_FILES, the documents an override is merged into
    Balance,       \* balance.yaml, read after them
    Extra,         \* an optional catalog, read after cross-validation
    Order,         \* the order in which they are read
    Fields,        \* what the overridden field of a definition may say
    NoEntry,       \* the document does not hold that definition
    Rests,         \* what else a document may say
    None,          \* nothing: no override, the defaults of an empty registry
    NotBuilt,      \* no curve yet
    Wrong,         \* contents a validator refuses
    Rough,         \* contents that make a validator or a loader raise something else
    Clashes,       \* contents that cross-validation refuses together
    MaxEdits, MaxCrashes   \* bounds

Docs == Required \cup {Balance, Extra}
Values == [field : Fields \cup {NoEntry}, rest : Rests]
Last == Order[Len(Order) - 2]  \* the last of the required documents

ASSUME DefinitionsAssumption ==
    /\ Balance \notin Required /\ Extra \notin Required /\ Balance # Extra
    /\ Order \in Seq(Docs) /\ Len(Order) > 2
    /\ \A i \in 1..Len(Order) - 2 : Order[i] \in Required
    /\ \A d \in Required : \E i \in 1..Len(Order) - 2 : Order[i] = d
    /\ Order[Len(Order) - 1] = Balance /\ Order[Len(Order)] = Extra
    /\ None \notin Values \cup Fields /\ NotBuilt \notin Values \cup {None}
    /\ NoEntry \notin Fields
    /\ Wrong \subseteq Values /\ Rough \subseteq Values \ Wrong
    /\ Clashes \subseteq SUBSET Values
    /\ MaxEdits \in Nat /\ MaxCrashes \in Nat

VARIABLES
    base,      \* the YAML files
    overlay,   \* definitions_overrides.yaml, the field for a document or None
    before,    \* OverlayStore._snapshot
    job,       \* what is running
    at,        \* how many documents the running load has read
    raw,       \* the registry it fills
    live,      \* the registry in force
    curve,     \* progression._level_thresholds: the balance it was built from
    astray,    \* history: a command ended between its write and its rollback
    edits, crashes

files == <<base, overlay, before>>
reading == <<job, at, raw>>
vars == <<files, reading, live, curve, astray, edits, crashes>>

Contents == Values \cup {None}
Overrides == [Required -> Fields \cup {None}]
Empty == [d \in Docs |-> None]

TypeOK ==
    /\ base \in [Docs -> Values]
    /\ overlay \in Overrides /\ before \in Overrides
    /\ job \in {"down", "idle", "start", "reload", "write", "rollback"}
    /\ at \in 0..Len(Order) - 1
    /\ raw \in [Docs -> Contents] /\ live \in [Docs -> Contents]
    /\ curve \in Contents \cup {NotBuilt}
    /\ astray \in BOOLEAN
    /\ edits \in 0..MaxEdits /\ crashes \in 0..MaxCrashes

Init ==
    /\ base \in {[d \in Docs |-> v] : v \in Values \ (Wrong \cup Rough)}
    /\ overlay = [d \in Required |-> None] /\ before = overlay
    /\ job = "down" /\ at = 0 /\ raw = Empty
    /\ live = Empty /\ curve = NotBuilt
    /\ astray = FALSE /\ edits = 0 /\ crashes = 0

(* merge_into: an override replaces the field of its definition and leaves *)
(* the rest of the document; without that definition it is not applied.    *)
Merged(d) ==
    IF d \in Required /\ overlay[d] # None /\ base[d].field # NoEntry
      THEN [base[d] EXCEPT !.field = overlay[d]]
      ELSE base[d]

(* cross_validate, over what has been populated by then.                   *)
Clashing(r) == \E c \in Clashes : c \subseteq {r[d] : d \in Docs \ {Extra}}

(* What load_all accepts as a whole.                                       *)
Accepted(r) ==
    /\ \A d \in Docs : r[d] \in Values \ (Wrong \cup Rough)
    /\ ~Clashing(r)
-----------------------------------------------------------------------------
(* The operator saves a file.                                              *)
Edit(d, v) ==
    /\ edits < MaxEdits /\ base[d] # v
    /\ base' = [base EXCEPT ![d] = v]
    /\ edits' = edits + 1
    /\ UNCHANGED <<overlay, before, reading, live, curve, astray, crashes>>

Begin(kind) ==
    /\ job' = kind /\ at' = 0 /\ raw' = Empty
    /\ UNCHANGED <<base, live, curve, astray, edits, crashes>>

(* initialize_game.                                                        *)
Start == job = "down" /\ Begin("start") /\ UNCHANGED <<overlay, before>>

(* @reboot.                                                                *)
Reload == job = "idle" /\ Begin("reload") /\ UNCHANGED <<overlay, before>>

(* DefWriteTransaction.run up to the reload, for `def set' and `def        *)
(* reset': the definition is looked up in the registry, whatever the file  *)
(* says by now; the overlay is read, kept and replaced in one piece.       *)
Mutate(d, v) ==
    /\ job = "idle" /\ live[d] # None /\ live[d].field # NoEntry
    /\ v = None => overlay[d] # None
    /\ before' = overlay
    /\ overlay' = [overlay EXCEPT ![d] = v]
    /\ Begin("write")

Loading == job \in {"start", "reload", "write"} /\ at < Len(Order)
Doc == Order[at + 1]
Got == [raw EXCEPT ![Doc] = Merged(Doc)]

(* The validator that runs when Doc has been read refuses it.              *)
Refused ==
    \/ Doc = Last /\ \E d \in Required : Got[d] \in Wrong
    \/ Doc = Balance /\ Got[Balance] \in Wrong
    \/ Doc = Balance /\ Got[Balance] \notin Rough /\ Clashing(Got)
    \/ Doc = Extra /\ Got[Extra] \in Wrong

(* A validator or a loader raises something else on the way.               *)
Trips ==
    \/ Doc = Last /\ \E d \in Required : Got[d] \in Rough
    \/ Doc \in {Balance, Extra} /\ Got[Doc] \in Rough

(* What a load that is refused here has put into the registry: the schemas *)
(* come before the population, cross-validation after it.                  *)
Populated ==
    IF Doc \in Required THEN Empty
    ELSE IF Doc = Extra \/ Got[Balance] \in Wrong \cup Rough THEN raw ELSE Got

(* What a load that trips here may have put there: the required documents  *)
(* are populated one after another.                                        *)
PopulatedPart ==
    IF Doc \in Required
      THEN {[d \in Docs |-> IF d \in Required /\ d \in {Order[i] : i \in 1..n}
                              THEN Got[d] ELSE None] : n \in 0..at}
      ELSE {Populated}

(* Mutant: the catalog after cross-validation is read and nothing swapped. *)
ReadOn ==
    /\ Loading /\ ~Refused /\ ~Trips
    /\ raw' = Got /\ at' = at + 1
    /\ UNCHANGED <<files, job, live, curve, astray, edits, crashes>>

Read ==
    /\ Loading /\ ~Refused /\ ~Trips /\ Doc # Extra
    /\ raw' = Got /\ at' = at + 1
    /\ UNCHANGED <<files, job, live, curve, astray, edits, crashes>>

(* The load is complete: swap, and the curve is built anew.  At a start    *)
(* the registry is not the singleton yet when the curve looks for its      *)
(* balance, so the defaults are taken.                                     *)
Done ==
    /\ Loading /\ Doc = Extra /\ ~Refused /\ ~Trips
    /\ live' = Got
    /\ curve' = IF job = "start" THEN None ELSE Got[Balance]
    /\ job' = "idle" /\ at' = 0 /\ raw' = Empty /\ astray' = FALSE
    /\ UNCHANGED <<files, edits, crashes>>

(* Mutant: the outcome is reported and the overlay left as written.        *)
RefuseForgets ==
    /\ Loading /\ Refused
    /\ live' = IF job = "start" THEN Populated ELSE live
    /\ job' = "idle" /\ at' = 0 /\ raw' = Empty
    /\ UNCHANGED <<files, curve, astray, edits, crashes>>

(* A refused start goes on with what there is; a refused reload changes    *)
(* nothing; a refused write has its overlay to restore.                    *)
Refuse ==
    /\ Loading /\ Refused
    /\ live' = IF job = "start" THEN Populated ELSE live
    /\ job' = IF job = "write" THEN "rollback" ELSE "idle"
    /\ at' = 0 /\ raw' = Empty
    /\ UNCHANGED <<files, curve, astray, edits, crashes>>

(* An exception that is not a DataRegistryError: the start goes on here    *)
(* too; a command ends with it.                                            *)
Trip ==
    /\ Loading /\ Trips
    /\ live' \in IF job = "start" THEN PopulatedPart ELSE {live}
    /\ astray' = (astray \/ job = "write")
    /\ job' = "idle" /\ at' = 0 /\ raw' = Empty
    /\ UNCHANGED <<files, curve, edits, crashes>>

(* restore_snapshot. *)
Rollback ==
    /\ job = "rollback" /\ job' = "idle"
    /\ overlay' = before
    /\ UNCHANGED <<base, before, at, raw, live, curve, astray, edits, crashes>>

(* _ensure_initialized: after a start that failed the first use builds it. *)
BuildLazily ==
    /\ job = "idle" /\ curve = NotBuilt
    /\ curve' = live[Balance]
    /\ UNCHANGED <<files, reading, live, astray, edits, crashes>>

Crash ==
    /\ job # "down" /\ crashes < MaxCrashes
    /\ job' = "down" /\ at' = 0 /\ raw' = Empty
    /\ live' = Empty /\ curve' = NotBuilt
    /\ crashes' = crashes + 1
    /\ UNCHANGED <<files, astray, edits>>

Next ==
    \/ \E d \in Docs, v \in Values : Edit(d, v)
    \/ Start \/ Reload \/ (\E d \in Required, v \in Fields \cup {None} : Mutate(d, v))
    \/ Read \/ Done \/ Refuse \/ Trip \/ Rollback \/ BuildLazily \/ Crash

Spec == Init /\ [][Next]_vars
-----------------------------------------------------------------------------
(* The overlay as a command leaves it: a write that runs is not there yet. *)
Settled == IF job \in {"write", "rollback"} THEN before ELSE overlay

Atomic ==
    INSTANCE AtomicDefinitions WITH
        Snapshots <- {r \in [Docs -> Values] : Accepted(r)},
        overrides <- Settled

(* What is in force is one set of documents, accepted together, and an     *)
(* override is in force, wherever the operator has left its definition,    *)
(* and in the file, or in neither: commands are atomic although they write *)
(* a file, read many while they are edited, and may have to take the file  *)
(* back.                                                                   *)
(* (DefWriteTransaction.run, DataRegistry.reload_all)                      *)
WritesAreAtomic == Atomic!Spec

(* Whoever asks for a level gets the curve of the balance in force.        *)
(* (progression.build_thresholds)                                          *)
CurveFollowsBalance == job = "idle" /\ curve # NotBuilt => curve = live[Balance]
=============================================================================
