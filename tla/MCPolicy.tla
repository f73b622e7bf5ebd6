------------------------------ MODULE MCPolicy ------------------------------
(***************************************************************************)
(* Small instances of Policy for TLC: two origins of a forge with an API   *)
(* below it, one elsewhere, and users who change one thing at a time.      *)
(***************************************************************************)
EXTENDS Policy

CONSTANTS forge, api, other, secret, t1, t2, agent, bot, any

MCDefault ==
  [f \in Fields |->
     CASE f = "aliveStatusCodes" -> {200}
       [] f = "retryCount" -> 4
       [] f = "maxRedirects" -> 8
       [] f = "httpHeaders" -> <<>>
       [] f = "userAgent" -> agent
       [] f = "cacheEnabled" -> FALSE
       [] f = "hostOverrides" -> NoHosts
       [] f = "perHostRPS" -> 1
       [] f \in {"maxRetries", "ignoreDisable", "projectBaseUrl", "githubToken"} -> Zero
       [] f \in {"ignorePatterns", "replacementPatterns"} -> Unset
       [] OTHER -> any]

MCWithin == {<<o, o>> : o \in Origins} \cup {<<forge, api>>}

At(origin, path) == [origin |-> origin, path |-> path]
KeyRule == [urls |-> {At(forge, <<"docs">>), At(other, <<>>)}, headers |-> "X-Key" :> secret]
AuthRule == [urls |-> {At(forge, <<>>)},
             headers |-> "Authorization" :> secret @@ "User-Agent" :> bot]

Nothing == <<>>
WrittenFiles ==
  { "cacheEnabled" :> TRUE @@ more :
      more \in { Nothing, "maxRetries" :> 2, "maxRetries" :> 2 @@ "retryCount" :> 5,
                 "httpHeaders" :> <<KeyRule, AuthRule>>, "httpHeaders" :> <<AuthRule>>,
                 "maxRedirects" :> 2 @@ "aliveStatusCodes" :> {} } }
WrittenEnvs == { Nothing, "githubToken" :> t1, "retryCount" :> 0 @@ "perHostRPS" :> 4,
                 "maxRedirects" :> 3 }
WrittenFlags == { Nothing, "githubToken" :> t2, "retryCount" :> -1 @@ "perHostRPS" :> Zero,
                  "maxRedirects" :> 4 @@ "cacheEnabled" :> TRUE, "cacheEnabled" :> FALSE,
                  "userAgent" :> bot }
MCWrote ==
  [file : WrittenFiles, env : WrittenEnvs, flags : WrittenFlags, alive : {{}}]
  \cup [file : WrittenFiles, env : {Nothing}, flags : {Nothing}, alive : {{206}}]

Paths == { <<At(forge, <<"docs", "a">>)>>, <<At(forge, <<"doc">>), At(api, <<"b">>)>>,
           <<At(forge, <<"docs">>), At(other, <<"a">>), At(other, <<"b">>)>>,
           <<At(forge, <<"docs">>), At(other, <<"a">>), At(forge, <<"b">>)>>,
           <<At(other, <<"a">>), At(forge, <<"a">>), At(api, <<"b">>), At(api, <<"c">>)>> }
MCWorlds ==
  [path : Paths, guard : {None}, accepts : {{}}, code : {200, 206}]
  \cup [path : Paths, guard : {"Authorization", "X-Key"}, accepts : {{secret, t1, t2}}, code : {200}]
  \cup [path : Paths, guard : {"User-Agent"}, accepts : {{bot}}, code : {200}]
=============================================================================
