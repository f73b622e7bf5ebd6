------------------------------ MODULE Requests ------------------------------
(***************************************************************************)
(* What the requests of one attempt carry, from the link's own URL through *)
(* its redirects: the User-Agent, the headers of the first httpHeaders     *)
(* rule that matches, and the GitHub token.  r is a Resolved configuration *)
(* (module Config); a URL is an origin (scheme and host) and a path.       *)
(***************************************************************************)
EXTENDS Config, Sequences, SequencesExt

CONSTANTS
  Origins,       \* schemes with host and port
  GitHubHosts,   \* the origins whose host isGitHubHost accepts
  Within         \* pairs <<a, b>> of origins: b's host is a's or a subdomain of it

\* Two origins of one host are within each other, and hosts below a GitHub host are
\* GitHub's (isGitHubHost accepts suffixes).
ASSUME OriginsAssumption ==
  /\ GitHubHosts \subseteq Origins /\ Within \subseteq Origins \X Origins
  /\ \A a \in Origins : <<a, a>> \in Within
  /\ \A p \in Within : p[1] \in GitHubHosts => p[2] \in GitHubHosts

\* A header with where its value comes from: the configuration's User-Agent, a rule, or
\* the token.
Header(name, from, value) == [name |-> name, from |-> from, value |-> value]
Named(headers, name) == {h \in headers : h.name = name}

\* ruleMatches: the same origin, and the path of the rule or one below it.  Its mutant
\* compares no origins.
RuleMatchesPath(rule, url) == \E u \in rule.urls : IsPrefix(u.path, url.path)
RuleMatches(rule, url) ==
  \E u \in rule.urls : u.origin = url.origin /\ IsPrefix(u.path, url.path)

\* The first rule that matches; the others do not count.
Matching(r, url) == {i \in DOMAIN r["httpHeaders"] : RuleMatches(r["httpHeaders"][i], url)}
First(r, url) == {i \in Matching(r, url) : \A j \in Matching(r, url) : i <= j}
RuleHeaders(r, url) ==
  UNION {{Header(n, "rule", r["httpHeaders"][i].headers[n]) :
            n \in DOMAIN r["httpHeaders"][i].headers} : i \in First(r, url)}

Agent(r) == IF r["userAgent"] = Zero THEN {} ELSE {Header("User-Agent", "config", r["userAgent"])}

\* do: what the first request carries.  A rule may override the User-Agent, and its
\* Authorization outranks the token.
FirstHeaders(r, url) ==
  LET ofRule == RuleHeaders(r, url)
      named == {h.name : h \in ofRule}
  IN  ofRule
      \cup {h \in Agent(r) : h.name \notin named}
      \cup (IF /\ r["githubToken"] # Zero /\ "Authorization" \notin named
               /\ url.origin \in GitHubHosts
            THEN {Header("Authorization", "token", r["githubToken"])} ELSE {})

\* The client copies the first request's headers to every redirect, but no Authorization
\* or Cookie once one of them has left the host and its subdomains (net/http).
Sensitive == {"Authorization", "Cookie"}
HasLeft(path, k) == \E i \in 2..k : <<path[1].origin, path[i].origin>> \notin Within
Copied(r, path, k) ==
  {h \in FirstHeaders(r, path[1]) : h.name \in Sensitive => ~HasLeft(path, k)}

\* checkRedirect: off the first origin go the headers of all rules.  Its mutant compares
\* with the request before.
RuleNames(r) == UNION {DOMAIN r["httpHeaders"][i].headers : i \in DOMAIN r["httpHeaders"]}
StripHopByHop(r, path, k, headers) ==
  IF path[k].origin # path[k - 1].origin
  THEN {h \in headers : h.name \notin RuleNames(r)} ELSE headers
Strip(r, path, k, headers) ==
  IF path[k].origin # path[1].origin
  THEN {h \in headers : h.name \notin RuleNames(r)} ELSE headers

\* The k-th request of a chain; path[1] is the link itself.
HeadersAt(r, path, k) ==
  IF k = 1 THEN FirstHeaders(r, path[1]) ELSE Strip(r, path, k, Copied(r, path, k))

\* checkRedirect: `made` requests are behind the redirect that is about to be followed.
RefusesRedirect(r, made) == made >= r["maxRedirects"]
=============================================================================
