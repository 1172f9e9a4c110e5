------------------------- MODULE MCDiagnosticsPage -------------------------
(* Small instances of DiagnosticsPage for TLC. *)
EXTENDS DiagnosticsPage

\* One command of either lane, sent by the host itself.
NativeRequests ==
    {[subject |-> "native_menu", id |-> "a", command |-> "restart"],
     [subject |-> "tray", id |-> "b", command |-> "refresh"]}
=============================================================================
