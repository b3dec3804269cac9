---------------------------- MODULE MCPcMetrics ----------------------------
(* One PC with a drive besides that of Windows; the values of the constants *)
(* are set by the configuration.                                           *)
EXTENDS PcMetrics
=============================================================================
