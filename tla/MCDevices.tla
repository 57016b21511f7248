----------------------------- MODULE MCDevices -----------------------------
(***************************************************************************)
(* Devices at a party with a beer, a soft drink, and two vouchers.         *)
(***************************************************************************)
EXTENDS Devices

\* Every guest bought one of each.
MCBought == [v \in Voucher |-> Drink]

MCParams == [dial \in Dial |-> 0]

=============================================================================
