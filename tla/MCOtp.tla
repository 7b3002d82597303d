------------------------------- MODULE MCOtp -------------------------------
(* One number on an app or in a browser; two requests may be under way, of  *)
(* one visit of the screen or of two.  The service sees requests only, so   *)
(* two visits stand for two devices.                                        *)
EXTENDS OtpEntry
=============================================================================
