------------------------------ MODULE MCMonitor ------------------------------
(* Small instances of PluginMonitor, each given by its configuration.        *)
EXTENDS PluginMonitor
=============================================================================
