--------------------------- MODULE MCRunSupervisor ---------------------------
EXTENDS RunSupervisor
=============================================================================
