----------------------------- MODULE LogoutUser -----------------------------
(***************************************************************************)
(* The LogoutUser command (src/sdk/src/users/logout_user.rs): a command    *)
(* with no payload.  It serializes to no bytes and parses only from an     *)
(* empty buffer.                                                           *)
(***************************************************************************)
EXTENDS WirePrimitives

\* The unit struct LogoutUser {}.
LogoutUserCmd == [command |-> "LogoutUser"]

LogoutUserValidate == Ok("()")

LogoutUserAsBytes == <<>>

LogoutUserFromBytes(b) ==
    IF b # <<>> THEN Err("InvalidCommand")
    ELSE IF ~IsOk(LogoutUserValidate) THEN LogoutUserValidate
    ELSE Ok(LogoutUserCmd)

=============================================================================
