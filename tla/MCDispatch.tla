------------------------------ MODULE MCDispatch ------------------------------
(* Small instances of Dispatch.                                              *)
EXTENDS Dispatch

Chain    == <<"guard", "timeout", "guard">>
NoneOrTwo == {0, 2}
=============================================================================
