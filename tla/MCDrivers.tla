------------------------------ MODULE MCDrivers ------------------------------
(* The two device drivers, one at a time: they share no state.             *)
(*                                                                         *)
(* The keyboard has the keys R and X (which Ctrl turns into DC2 and CAN),  *)
(* both Shifts, the right Ctrl with its 0xE0 prefix, and tables that are 0 *)
(* for other codes.  The screen has three rows and two columns, characters *)
(* "a" and a space, newlines, two colours, and strings that wrap and       *)
(* scroll within one call.                                                 *)
EXTENDS Keyboard, Vga

MCScanCode ==
  [k \in Key |-> CASE k = "LShift" -> 42 [] k = "RShift" -> 54
                   [] k = "RCtrl" -> 29 [] k = "r" -> 19 [] k = "x" -> 45]

MCTable(r, x) ==
  [code \in 0 .. 127 |-> CASE code = 19 -> r [] code = 45 -> x [] OTHER -> "NUL"]

MCnormal == MCTable("r", "x")
MCshifted == MCTable("R", "X")

MCString == {<<"a", "a", "a">>, <<"a", "nl", "nl">>, <<" ", "a">>}

VARIABLE driver   \* "keyboard" or "terminal"

driversVars == <<vars, vgaVars, driver>>

DriversInit ==
  /\ driver \in {"keyboard", "terminal"}
  /\ Init
  /\ VgaInit

DriversNext ==
  /\ \/ driver = "keyboard" /\ Next /\ UNCHANGED vgaVars
     \/ driver = "terminal" /\ VgaNext /\ UNCHANGED vars
  /\ UNCHANGED driver

DriversSpec ==
  DriversInit /\ [][DriversNext]_driversVars
    /\ WF_driversVars(Poll /\ UNCHANGED <<vgaVars, driver>>)
=============================================================================
