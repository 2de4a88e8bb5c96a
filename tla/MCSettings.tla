------------------------------ MODULE MCSettings -----------------------------
(***************************************************************************)
(* An inverter's settings, as the server reads and writes them, as the     *)
(* form of the web app edits them, as the register map turns them into     *)
(* words, and as the words cross the logger's wire.  The form meets the    *)
(* service only by its answers, the map is fixed once loaded, and a frame  *)
(* is one request's, so a run takes one of them, picked by the initial     *)
(* state, and the others rest.                                             *)
(***************************************************************************)
EXTENDS SettingsService, TLC, SettingsForm, Registers, LoggerWire

\* The calls are interchangeable.
OpSymmetry == Permutations(Ops)

\* The first setting is written as 2, which the rule allows or refuses by the
\* second.
OneChange == {<<2, 0>>}

\* Values within, at and past the ends of every type's words.
EdgeValues == {-4, -3, 0, 2, 3, 4, 8, 15}

\* Every layout of three registers, in the order of their addresses; and a
\* register of every type and scale beside two plain ones.
Plain == {d \in Definition : d.type # "int16" /\ d.scale = 1}
Layouts == {m \in [Names -> Plain] : \A i, j \in Names : i < j => m[i].address <= m[j].address}
Word(at) == [address |-> at, type |-> "uint16", group |-> "settings", verified |-> TRUE, scale |-> 1]
Typed == {[n \in Names |-> IF n = 1 THEN d ELSE Word(2 * n - 2)] :
             d \in {e \in Definition : e.address = 0 /\ e.group = "settings"}}
LayoutsAndTypes == Layouts \union Typed

\* Changes on the way to the inverter: calls of apply, and edits on its panel.
ChangesMade ==
    Cardinality({o \in Ops : kind[o] = "apply"})
    + Len(SelectSeq(device[1] \o device[2], LAMBDA v : v.by = Panel)) - 2
MaxChanges == 2

VARIABLE part

SettingsInit ==
    /\ part \in {"service", "form", "registers", "wire"}
    /\ Init
    /\ (part # "form" => held = [low |-> 1, high |-> 2]) /\ InitForm
    /\ (part # "registers" => map = CHOOSE m \in Maps : TRUE) /\ RegistersInit
    /\ WireInit

SettingsNext ==
    /\ UNCHANGED part
    /\ \/ part = "service" /\ Next /\ ChangesMade' <= MaxChanges
             /\ UNCHANGED <<formVars, registerVars, wireVars>>
       \/ part = "form" /\ FormNext /\ UNCHANGED <<vars, registerVars, wireVars>>
       \/ part = "registers" /\ RegistersNext /\ UNCHANGED <<vars, formVars, wireVars>>
       \/ part = "wire" /\ WireNext /\ UNCHANGED <<vars, formVars, registerVars>>

SettingsSpec ==
    SettingsInit /\ [][SettingsNext]_<<part, vars, formVars, registerVars, wireVars>>

(* The form writes only what the user typed since it was last put back, and *)
(* its review lets through only what the server takes, though readings come *)
(* in at any time; the map reads back what it wrote, with the fewest reads; *)
(* and what a client takes from the wire is what the logger's bank held     *)
(* (InverterSettings.tsx:180-229, settingsRules.ts:66-107,                  *)
(* register-map.ts:138-321, logger-frame.ts:77-253).                        *)
EnteredIsWritten ==
    /\ part = "form" => FormTypeOK /\ NothingUnasked /\ MirrorsServer
    /\ part = "registers" => RegistersKept
    /\ part = "wire" => WireKept
==============================================================================
