------------------------------ MODULE ClientCalls ------------------------------
(***************************************************************************)
(* What the modules of the mock HMC have in common: the calls of several   *)
(* clients to their objects, one after the other or interleaved.           *)
(***************************************************************************)
EXTENDS Naturals

CONSTANTS
    Client,     \* the users of the library
    MaxCalls    \* bound: the calls of all clients together

ASSUME CallsAssumption == MaxCalls \in Nat

VARIABLE calls  \* the number of calls so far

Begin == calls < MaxCalls /\ calls' = calls + 1

\* What may be absent: a set with at most one member.
OneOf(S) == {{}} \cup {{x} : x \in S}
================================================================================
