--------------------------- MODULE MCSettingsPages ---------------------------
(* Two tabs; users clear a list in the form or switch the theme.  Between    *)
(* the two environments every variable is once set and once not, and there   *)
(* is a blank in a list, a list of blanks, and a switch that does not parse. *)
EXTENDS SettingsPages, TLC

CONSTANTS n1, sys

MCEnvironments ==
  {[included |-> {n1, Blank}, excluded |-> Unset, completed |-> Junk, internal |-> TRUE,
    theme |-> "dark"],
   [included |-> Unset, excluded |-> {Blank}, completed |-> TRUE, internal |-> Unset,
    theme |-> Unset]}
MCEdits == {[field |-> "included", value |-> {}]}
Symmetry == Permutations(Tabs)
=============================================================================
