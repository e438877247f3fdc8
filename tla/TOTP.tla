-------------------------------- MODULE TOTP --------------------------------
(***************************************************************************)
(* The codes of a second factor (mfa/totp/verify.go).  A code is made from *)
(* a secret and the number of a 30 second interval; two different pairs    *)
(* are taken to make different codes, so the code is the pair.  A secret   *)
(* that base32 cannot decode makes no code but an error.                   *)
(***************************************************************************)
EXTENDS Integers

INTERVAL == 30

GetToken(secret, interval) == <<secret, interval>>

\* At a login only the code of the interval that has begun last is right.
Verify(secret, code, now) == code = GetToken(secret, now \div INTERVAL)
=============================================================================
