---------------------------- MODULE MCP2KCounter ----------------------------
(* Small instances of P2KCounter for TLC.                                     *)
EXTENDS P2KCounter
=============================================================================
