---------------------------- MODULE MCFtpAccessor ----------------------------
(* FtpAccessor for TLC: a small file, a big one and one the server lacks. *)
EXTENDS FtpAccessor
=============================================================================
