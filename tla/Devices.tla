------------------------------ MODULE Devices ------------------------------
(***************************************************************************)
(* The screens of the web client, one at a time: a screen shares nothing   *)
(* with another but the server, which each module allows to answer in any  *)
(* way the others could bring about.  The initial state picks the screen.  *)
(***************************************************************************)
EXTENDS MarketView, Phone, Till, Scanner, Panel

VARIABLE device

vars == <<device, viewVars, phoneVars, tillVars, scannerVars, panelVars>>

Init ==
  /\ device \in {"prices", "phone", "till", "scanner", "panel"}
  /\ ViewInit /\ PhoneInit /\ TillInit /\ ScannerInit /\ PanelInit

Next ==
  /\ UNCHANGED device
  /\ \/ device = "prices" /\ ViewNext /\ UNCHANGED <<phoneVars, tillVars, scannerVars, panelVars>>
     \/ device = "phone" /\ PhoneNext /\ UNCHANGED <<viewVars, tillVars, scannerVars, panelVars>>
     \/ device = "till" /\ TillNext /\ UNCHANGED <<viewVars, phoneVars, scannerVars, panelVars>>
     \/ device = "scanner" /\ ScannerNext /\ UNCHANGED <<viewVars, phoneVars, tillVars, panelVars>>
     \/ device = "panel" /\ PanelNext /\ UNCHANGED <<viewVars, phoneVars, tillVars, scannerVars>>

Spec == Init /\ [][Next]_vars /\ PhoneFairness

-----------------------------------------------------------------------------
\* Alcohol never leaves the bar before somebody confirmed the age check (L5): at
\* the scanner on a screen about that very voucher, at the till since it was last
\* cleared or a sale was last finished there.
AlcoholAfterAgeCheck == TillAgeChecked /\ ScannerAgeChecked

=============================================================================
