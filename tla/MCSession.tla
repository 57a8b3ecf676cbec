------------------------------ MODULE MCSession ------------------------------
(* One or two windows on a small terminal, and a letter whose key sends    *)
(* two bytes, more than the terminal's queue takes at once.                *)
EXTENDS Session

E_acute == [key |-> "eacute", character |-> 233, control |-> FALSE, alt |-> FALSE]
Letters == {E_acute}
NoKeys == {}

Small == <<2, 3>>
Default == <<24, 80>>
TwoSizes == {Default, Small}
OneSize == {Default}

Either == BOOLEAN
HungUp == {FALSE}
=============================================================================
