-------------------------- MODULE MCPythonProcessor --------------------------
(* PythonProcessor with one or two handlers.                               *)
EXTENDS PythonProcessor

CONSTANTS intkey, xo, p

OneHandler == << xo >>
TwoHandlers == << intkey, xo >>
XoOrPing == {xo, "ping"}
AnyKind == {xo, "ping", "other"}
=============================================================================
