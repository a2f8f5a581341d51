----------------------------- MODULE ServerPart -----------------------------
(***************************************************************************)
(* What the groups of parts have in common: the part of the server that a  *)
(* behaviour exercises, and the requests.                                  *)
(***************************************************************************)
CONSTANTS
    None,       \* no value
    Requests

VARIABLE part   \* the part exercised, chosen at the start
=============================================================================
