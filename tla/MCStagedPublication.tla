------------------------- MODULE MCStagedPublication -------------------------
(* Two dependencies, for TLC: `api` is in public signatures, `impl` is not, *)
(* and Android has `api` under the name of a target artifact, `jvm`.  A     *)
(* file is right, missing, or has one thing wrong with it.                  *)
EXTENDS StagedPublication, TLC

CONSTANTS api, impl, jvm

Asked(n, edge, v) ==
  [expected |-> (api :> 1 @@ impl :> v), pomName |-> (api :> n @@ impl :> impl),
   apiName |-> (api :> edge)]

\* With the right mapping, without one, with an ambiguous one, with another
\* one for the API edge, and with a version that is a range.
MCRequests ==
  {Asked(jvm, jvm, 1), Asked(api, jvm, 1), Asked(impl, jvm, 1), Asked(jvm, impl, 1), Asked(jvm, jvm, 0)}

\* What is published of the dependencies: the right versions, another version
\* of `api`, `api` twice, or nothing of `impl`.
Both == (api :> <<1>> @@ impl :> <<1>>)
Stale == (api :> <<2>> @@ impl :> <<1>>)
Twice == (api :> <<1, 1>> @@ impl :> <<1>>)
Lacking == (api :> <<1>> @@ impl :> <<>>)

Aar == [classes |-> TRUE]
EmptyAar == [classes |-> FALSE]

RootModule(owner, redirects, common) == [owner |-> owner, redirects |-> redirects, common |-> common]

AndroidModule(rootUrl, runtime, exposed, aar) ==
  [owner |-> TRUE, rootUrl |-> rootUrl, aar |-> aar,
   variants |-> ("java-runtime" :> runtime @@ "java-api" :> exposed)]

RootPom(edges) == [owner |-> TRUE, pins |-> edges]

AndroidPom(owner, compile, edges) ==
  [owner |-> owner, compile |-> compile,
   pins |-> (jvm :> edges[api] @@ impl :> edges[impl] @@ api :> <<>>)]

Root(module, pom) == ("root_module" :> module @@ "root_pom" :> pom)

RightModule == RootModule(TRUE, Usages, Both)

Roots ==
  {Root(m, RootPom(Both)) :
     m \in {RightModule, RootModule(FALSE, Usages, Both), RootModule(TRUE, {"java-api"}, Both),
           RootModule(TRUE, Usages, Stale)}}
  \cup {Root(RightModule, p) : p \in {RootPom(Lacking), RootPom(Twice), none}}

Android(module, pom, aar) == ("android_module" :> module @@ "android_pom" :> pom @@ "aar" :> aar)

RightAndroid == AndroidModule(TRUE, Both, Both, Aar)

RightPom == AndroidPom(TRUE, {jvm}, Both)

Androids ==
  {Android(m, RightPom, Aar) :
     m \in {RightAndroid, AndroidModule(FALSE, Both, Both, Aar), AndroidModule(TRUE, Lacking, Both, Aar),
           AndroidModule(TRUE, Both, Lacking, Aar), AndroidModule(TRUE, Both, [Both EXCEPT ![api] = <<>>], Aar)}}
  \cup {Android(RightAndroid, p, Aar) : p \in {AndroidPom(TRUE, {impl}, Both), AndroidPom(TRUE, {jvm}, Stale)}}
  \cup {Android(RightAndroid, RightPom, none)}
  \cup {Android(AndroidModule(TRUE, Both, Both, EmptyAar), RightPom, EmptyAar)}

MCPublished == Roots \cup Androids
=============================================================================
