---------------------------- MODULE MCCredentials ----------------------------
(* Instances of Credentials for TLC: every command of up to four lines, and   *)
(* RC files of the two versions of the identity service, complete or not.     *)
EXTENDS Credentials, TLC

Settings ==
    ("out" :> <<"other", "x">>)
    @@ ("url" :> <<"AUTH_URL", "rc">>) @@ ("user" :> <<"USERNAME", "rc">>)
    @@ ("password" :> <<"PASSWORD", "rc">>)
    @@ ("project" :> <<"PROJECT_NAME", "rc">>) @@ ("tenant" :> <<"TENANT_NAME", "rcTenant">>)
    @@ ("noProject" :> <<"PROJECT_NAME", "">>)
    @@ ("v2" :> <<"IDENTITY_API_VERSION", "2">>) @@ ("v3" :> <<"IDENTITY_API_VERSION", "3">>)
    @@ ("latest" :> <<"IDENTITY_API_VERSION", "latest">>)
    @@ ("userDomain" :> <<"USER_DOMAIN_NAME", "rc">>)
    @@ ("projectDomain" :> <<"PROJECT_DOMAIN_NAME", "rc">>)
    @@ ("projectDomainId" :> <<"PROJECT_DOMAIN_ID", "rcId">>)
    @@ ("cacert" :> <<"CACERT", "rcCert">>) @@ ("insecure" :> <<"VERIFY_CA", "no">>)
    @@ ("rest of a value" :> <<"rest of a value", "">>)
    @@ ("" :> <<"", "">>)

SomeLines == DOMAIN Settings
KeyOf == [line \in SomeLines |-> Settings[line][1]]
ValueOf == [line \in SomeLines |-> Settings[line][2]]

UpToFour == UNION {[1..n -> {"out", "text", "blank"}] : n \in 0..4}

Login == <<"url", "user", "password">>

RcFiles ==
    {Login \o rest : rest \in
        {<<"tenant">>,
         <<"tenant", "project", "v2">>,
         <<"project", "rest of a value", "v3", "userDomain", "projectDomain">>,
         <<"project", "v3", "userDomain", "projectDomainId", "cacert">>,
         <<"project", "v3", "cacert", "insecure", "userDomain">>,
         <<"blank", "tenant", "noProject", "v3">>,
         <<"project", "latest">>,
         <<"text", "project", "v3", "userDomain">>}}
    \cup {<<"url", "", "user", "project">>,
          <<"v3", "url", "password", "user", "tenant", "project", "v2">>}

\* More than a pipe holds.
Floods == {[n \in 1..11 |-> "out"], [n \in 1..10 |-> "text"],
           [n \in 1..20 |-> IF n % 2 = 0 THEN "out" ELSE "blank"]}

SomePrograms == UpToFour \cup RcFiles \cup Floods

Fresh == [n \in {} |-> ""]
Stale == [n \in Names |-> CASE n = "IDENTITY_API_VERSION" -> "3.0"
                             [] n = "VERIFY_CA" -> "true"
                             [] OTHER -> "stale"]
StaleProject == [n \in {"PROJECT_NAME"} |-> "stale"]
StaleIds == [n \in {"USER_DOMAIN_ID", "PROJECT_DOMAIN_ID"} |-> "stale"]
StaleNames == [n \in {"USER_DOMAIN_NAME", "PROJECT_DOMAIN_NAME"} |-> "stale"]
SomeCallers == {Fresh, Stale, StaleProject, StaleIds, StaleNames}
=============================================================================
