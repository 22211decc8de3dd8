------------------------- MODULE MCExportHandshake -------------------------
(* ExportHandshake on a small instance. *)
EXTENDS ExportHandshake
=============================================================================
