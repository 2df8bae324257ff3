----------------------------- MODULE MCDispatcher -----------------------------
(* Small instances of Dispatcher for TLC.  OneShot, Download and Upload are sets *)
(* of model values; the three special ones are model values of their own.        *)
EXTENDS Dispatcher
===============================================================================
