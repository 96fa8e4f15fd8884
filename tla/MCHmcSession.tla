----------------------------- MODULE MCHmcSession -----------------------------
(* Small instances of HmcSession for TLC. *)
EXTENDS HmcSession

CONSTANTS h1, h2

Hosts    == {h1, h2}
OneHost  == {<<h1>>}
OneOrTwo == {<<h1>>, <<h1, h2>>}
================================================================================
