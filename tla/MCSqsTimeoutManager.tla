------------------------ MODULE MCSqsTimeoutManager ------------------------
(***************************************************************************)
(* SqsTimeoutManager with the constants of the code; the .cfg files give   *)
(* them their values.                                                      *)
(***************************************************************************)
EXTENDS SqsTimeoutManager
=============================================================================
