---------------------------- MODULE MCInvoicing ----------------------------
(* Invoicing of three sales in batches of two, so that an invoice may have  *)
(* to wait for a batch that others fill.                                    *)
EXTENDS Invoicing

CONSTANTS o1, o2, o3, w1, w2
=============================================================================
