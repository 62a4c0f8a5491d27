---------------------------- MODULE MCConnections ----------------------------
(***************************************************************************)
(* Instance of Connections for TLC.  Every kind of connection and every    *)
(* type of credentials appears; a connection changes between postgres and  *)
(* s3, or between the flavours of iceberg.                                 *)
(***************************************************************************)
EXTENDS Connections, TLC

CONSTANTS r1, r2, w1, c1, c2, v1, v2

World(kinds, auths, values) == [kinds |-> kinds, auths |-> auths, values |-> values]

MCWorlds ==
  {World({kind}, Schema(kind).auths, {v1, v2}) :
     kind \in ConnectionType \ {"postgres", "s3", "iceberg"}}
  \union
  {World({"postgres", "s3"}, {"basic", "s3"}, {v1, v2}),
   World({"iceberg_rest_s3_direct"},
         {"iceberg_rest_oauth2_client_credentials_s3_basic"}, {v1, v2}),
   World({"iceberg_rest_s3_delegated"}, {"iceberg_rest_bearer"}, {v1, v2}),
   World(IcebergKinds,
         {"iceberg_rest_bearer_s3_basic", "iceberg_rest_oauth2_client_credentials"}, {v1})}

Symmetry == Permutations({r1, r2}) \union Permutations({c1, c2}) \union Permutations({v1, v2})
=============================================================================
