---------------------------- MODULE MCCommandPath ----------------------------
(***************************************************************************)
(* CommandPath with a server buffer of three bytes and a client buffer of  *)
(* four, so that a line may be too long for the one and not for the other. *)
(* Another peer sends up to eight bytes: an overlong line can be skipped   *)
(* over several buffers and be followed by a line that is taken.           *)
(***************************************************************************)
EXTENDS CommandPath

MCBytes == {"a", CR, LF}
=============================================================================
