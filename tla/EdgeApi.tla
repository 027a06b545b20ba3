------------------------------ MODULE EdgeApi ------------------------------
(***************************************************************************)
(* The lambdas behind the API gateway that serve the web console, and what *)
(* grapl-cdk lets each of them do, as <<action, resource>>.  Their routes  *)
(* are where the console looks for them.                                   *)
(***************************************************************************)

\* SchemaDb, of both of its tables.
allowReadFromRole == {<<"read", "schema-table">>}
allowReadWriteFromRole == {<<"read", "schema-table">>, <<"write", "schema-table">>}

GraphQLEndpoint ==
  {<<"connect", "dgraph">>, <<"read", "jwt-secret">>} \union allowReadFromRole

\* The bucket's grantReadWrite lets it delete, too, and grantDelete says so again.
ModelPluginDeployer ==
  {<<"connect", "dgraph">>, <<"read", "jwt-secret">>, <<"read", "user-auth-table">>} \union
  allowReadWriteFromRole \union
  {<<action, "model-plugins-bucket">> : action \in {"list", "get", "put", "delete"}}

EngagementEdge ==
  {<<"connect", "dgraph">>, <<"read", "jwt-secret">>, <<"read", "user-auth-table">>}

-----------------------------------------------------------------------------
\* What they need.  All three check the cookie with the secret.
canAuthenticate(lambda) == <<"read", "jwt-secret">> \in lambda

\* The GraphQL endpoint scans the schemas, and asks Dgraph.
canGetSchemas == <<"read", "schema-table">> \in GraphQLEndpoint
canQuery == <<"connect", "dgraph">> \in GraphQLEndpoint

\* The engagement edge looks the user up.
canLogin == canAuthenticate(EngagementEdge) /\ <<"read", "user-auth-table">> \in EngagementEdge

\* A route of the deployer lists the bucket, puts to it, or lists it and deletes.
canReach(actions) ==
  /\ canAuthenticate(ModelPluginDeployer)
  /\ \A action \in actions : <<action, "model-plugins-bucket">> \in ModelPluginDeployer
=============================================================================
