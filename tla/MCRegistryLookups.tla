-------------------------- MODULE MCRegistryLookups --------------------------
(* Three images for two workers: a pinned version of the internal registry   *)
(* run by three records, on amd64 nodes with the digest of the platform or    *)
(* that of the index and on an arm64 node; a bare name of Docker Hub, whose  *)
(* index cannot be read, run by a record with a digest and one without; a    *)
(* tag of Quay pinned to a digest as well.  Quay has a repository of the     *)
(* internal image's name, and a route to the console is listed first.        *)
EXTENDS RegistryLookups, TLC

CONSTANTS r1, r2, r3, r4, r5, r6, internal, hub, pinned,
          arm, amd, index, plain, foreign

Service == [name |-> "image-registry.openshift-image-registry.svc", port |-> "5000"]
Quay == [name |-> "quay.io", port |-> None]
Route == [name |-> "default-route-openshift-image-registry.apps", port |-> None]

MCHosts == {Service, Quay, Route}
MCJobOf == [r \in Recs |-> CASE r \in {r1, r2, r3} -> internal
                              [] r \in {r4, r5} -> hub
                              [] r = r6 -> pinned]
MCRunningDigest == [r \in Recs |-> CASE r \in {r1, r4} -> amd [] r = r2 -> index
                                      [] r = r3 -> arm [] r = r5 -> None [] r = r6 -> plain]
MCTagKind == [j \in Jobs |-> IF j = hub THEN "plain" ELSE "version"]
MCImage == [j \in Jobs |->
  CASE j = internal -> [host |-> Service, path |-> <<"ns", "app">>, tag |-> "1.2", digest |-> None]
    [] j = hub -> [host |-> None, path |-> <<"nginx">>, tag |-> None, digest |-> None]
    [] j = pinned -> [host |-> Quay, path |-> <<"org", "app">>, tag |-> "1.0", digest |-> plain]]

Entries == <<[platform |-> "linux/arm64", digest |-> arm],
             [platform |-> "linux/amd64", digest |-> amd]>>
MCContents == [d \in Digests |->
  IF d \in {index, foreign}
    THEN [index |-> TRUE, readable |-> d = index, entries |-> Entries]
    ELSE [index |-> FALSE, readable |-> TRUE, entries |-> <<>>]]
MCRegistryAt == (Service :> "internal" @@ Route :> "internal" @@ Quay :> "quay"
                 @@ DockerHub :> "docker")
MCStartTags ==
  <<"internal", <<"ns", "app">>, "1.2">> :> index @@
  <<"quay", <<"ns", "app">>, "1.2">> :> foreign @@
  <<"docker", <<"library", "nginx">>, "latest">> :> foreign @@
  <<"quay", <<"org", "app">>, "1.0">> :> foreign

NoRoutes == [ok |-> FALSE, routes |-> <<>>]
MCRouteAnswers ==
  {[get |-> [ok |-> TRUE, host |-> Route], list |-> NoRoutes],
   [get |-> [ok |-> TRUE, host |-> None], list |-> NoRoutes],
   [get |-> [ok |-> FALSE, host |-> None], list |-> NoRoutes],
   [get |-> [ok |-> FALSE, host |-> None],
    list |-> [ok |-> TRUE, routes |-> <<[service |-> "console", host |-> Quay],
                                       [service |-> "image-registry", host |-> Route]>>]]}
MCDockerConfig == "docker.io" :> FALSE @@ "index.docker.io" :> TRUE @@ "quay.io" :> TRUE
=============================================================================
