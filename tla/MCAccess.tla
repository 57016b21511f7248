------------------------------ MODULE MCAccess ------------------------------
(***************************************************************************)
(* Requests at a party of two phones and one terminal, at which the        *)
(* organiser stands in.                                                    *)
(***************************************************************************)
EXTENDS Requests

MCRole == [s \in Staff |-> "ADMIN"]

=============================================================================
