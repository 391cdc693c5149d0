-------------------------------- MODULE Market --------------------------------
(***************************************************************************)
(* The retailers' side of the process: the catalogue with the click-outs   *)
(* over it, and the calls the adapters make to their networks.  The two    *)
(* share no state; a call brings the pages an import reads, and the budget *)
(* of a beginning says which of the two is exercised.                      *)
(***************************************************************************)
EXTENDS ClickOut, NetworkCalls

storeVars == <<catalogueVars, clickVars>>
vars == <<storeVars, callVars>>

Init == ClickOutInit /\ CallsInit

Next ==
    \/ ClickOutNext /\ UNCHANGED callVars
    \/ budget["calls"] = 1 /\ CallsNext /\ UNCHANGED storeVars

Spec == Init /\ [][Next]_vars
==============================================================================
