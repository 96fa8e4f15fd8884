----------------------- MODULE MCAutoUpdatedResource -----------------------
(* Small instances of AutoUpdatedResource for TLC. *)
EXTENDS AutoUpdatedResource

CONSTANTS status, name

MCProp  == {status, name}
MCNames == {{name}}
MCListed == {name}
MCWritable == {name}
MCQuery == {"supported", "ignored", "rejected", "not_used"}
=============================================================================
