--------------------------- MODULE MCInvoiceUtils ---------------------------
(* Model-checking instance of InvoiceUtils; the constants are set in the cfg. *)
EXTENDS InvoiceUtils
=============================================================================
