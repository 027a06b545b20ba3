---------------------------- MODULE Deployment ----------------------------
(***************************************************************************)
(* The pipeline as grapl-cdk deploys it: services that read from a bucket  *)
(* of their own and write to the next one's, each in two roles, "default"  *)
(* for its queue and "retry" for its retry queue, and what IAM policies    *)
(* and security groups allow to either.  A bucket has the name of the      *)
(* service that reads it.  What is open to every address (Redis), or is    *)
(* allowed to both roles by the library (their queues), is left out.       *)
(***************************************************************************)
EXTENDS Integers, FiniteSets, Sequences

Generators == {"sysmon-generator", "osquery-generator"}

FargateServices == Generators \union
  {"node-identifier", "graph-merger", "analyzer-dispatcher", "analyzer-executor"}

Services == FargateServices \union {"engagement-creator"}

\* grapl-cdk-stack.ts: who writes to whose bucket.
writesTo ==
  [s \in FargateServices |->
     CASE s \in Generators -> "node-identifier"
       [] s = "node-identifier" -> "graph-merger"
       [] s = "graph-merger" -> "analyzer-dispatcher"
       [] s = "analyzer-dispatcher" -> "analyzer-executor"
       [] s = "analyzer-executor" -> "engagement-creator"]

\* The services built on sqs-executor.
Executors == FargateServices \ {"analyzer-executor"}

-----------------------------------------------------------------------------
\* The grants, as <<service, role, action, resource>>.
both(s, action, resource) ==
  {<<s, role, action, resource>> : role \in {"default", "retry"}}

\* FargateService's helpers add policies to the task role of "service", and to that
\* of "retryService" they add none.
readsFromBucket(s, bucket) == {<<s, "default", "get", bucket>>}
writesToBucket(s, bucket) == {<<s, "default", "put", bucket>>}

FargateService(s) == readsFromBucket(s, s) \union writesToBucket(s, writesTo[s])

\* Service's lambdas share a role.
readsFrom(s, bucket) == both(s, "get", bucket)
publishesToTopic(s, topic) == both(s, "publish", topic)

\* HistoryDb.allowReadWrite2 and SchemaDb.allowRead.
allowReadWrite2(s) == {<<s, "default", "write", "history-db">>}
allowRead(s) == both(s, "read", "schema-table")

SysmonGraphGenerator == FargateService("sysmon-generator")
OSQueryGraphGenerator == FargateService("osquery-generator")
NodeIdentifier == FargateService("node-identifier") \union allowReadWrite2("node-identifier")
GraphMerger ==
  FargateService("graph-merger") \union allowRead("graph-merger") \union
  both("graph-merger", "connect", "dgraph")
AnalyzerDispatch ==
  FargateService("analyzer-dispatcher") \union
  both("analyzer-dispatcher", "get", "analyzers-bucket")
\* (AnalyzerExecutorBare: a mutant that may not read the plugins of the model.)
AnalyzerExecutorBare ==
  FargateService("analyzer-executor") \union both("analyzer-executor", "connect", "dgraph") \union
  UNION {readsFromBucket("analyzer-executor", bucket) :
           bucket \in {"analyzers-bucket", "engagement-creator"}}
AnalyzerExecutor ==
  FargateService("analyzer-executor") \union both("analyzer-executor", "connect", "dgraph") \union
  UNION {readsFromBucket("analyzer-executor", bucket) :
           bucket \in {"analyzers-bucket", "model-plugins-bucket", "engagement-creator"}}

\* The lambda that retries has a security group of its own, which the swarm's does
\* not know.
EngagementCreator ==
  readsFrom("engagement-creator", "engagement-creator") \union
  publishesToTopic("engagement-creator", "engagements-created-topic") \union
  {<<"engagement-creator", "default", "connect", "dgraph">>}

Grants ==
  UNION {SysmonGraphGenerator, OSQueryGraphGenerator, NodeIdentifier, GraphMerger,
         AnalyzerDispatch, AnalyzerExecutor, EngagementCreator}

\* What the code of a service does while it handles a message.
uses ==
  {<<"node-identifier", "write", "history-db">>, <<"graph-merger", "read", "schema-table">>,
   <<"analyzer-dispatcher", "get", "analyzers-bucket">>,
   <<"analyzer-executor", "get", "analyzers-bucket">>,
   <<"analyzer-executor", "get", "model-plugins-bucket">>} \union
  ({"graph-merger", "analyzer-executor", "engagement-creator"} \X {"connect"} \X {"dgraph"})

Needs(s) ==
  {<<"get", s>>} \union {<<"put", writesTo[t]>> : t \in FargateServices \intersect {s}} \union
  {<<use[2], use[3]>> : use \in {u \in uses : u[1] = s}}

Allowed(s, role) == \A need \in Needs(s) : <<s, role, need[1], need[2]>> \in Grants
=============================================================================
