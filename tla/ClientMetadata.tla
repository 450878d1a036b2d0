--------------------------- MODULE ClientMetadata ----------------------------
(***************************************************************************)
(* What the OAuth provider accepts as a client and as its redirect URI.  A *)
(* URL is a record: its path is the sequence of the segments, the last one *)
(* "" for a trailing slash; extra says whether it has credentials or a     *)
(* fragment; port "default" is the default port written out, which the URL *)
(* parser drops.  The host of a custom scheme is the one that the scheme   *)
(* names in reverse.                                                       *)
(***************************************************************************)
EXTENDS Naturals, Sequences, SequencesExt

CONSTANTS
  PublicHosts, \* names of hosts that are not IP addresses, have a dot and no reserved domain
  Supported    \* scopes that the provider supports by name

Loopback == {"127.0.0.1", "[::1]"}
Permissions == {"repo:", "blob:"}
NoMetadata == [clientId |-> "none"]

-----------------------------------------------------------------------------
(* URLs *)

Url == [scheme : STRING, host : STRING, port : STRING, path : Seq(STRING),
        normal : BOOLEAN, extra : STRING]

Parsed(u) == u.extra = "none"
Port(u) == IF u.port = "default" THEN "" ELSE u.port
SameOrigin(u, v) == u.scheme = v.scheme /\ u.host = v.host /\ Port(u) = Port(v)
Unique(s) == IsInjective(s)

\* assertPublicClientId: a document below the root of a public host.
PublicClientId(u) ==
  /\ Parsed(u) /\ u.scheme = "https" /\ u.port = ""
  /\ Last(u.path) # "" /\ u.normal
  /\ u.host \in PublicHosts

HttpsUrl(u) == Parsed(u) /\ u.scheme = "https"

LoopbackRedirect(u) == Parsed(u) /\ u.scheme = "http" /\ u.host \in Loopback

WebRedirect(u) == HttpsUrl(u) /\ u.host \in PublicHosts /\ u.port # "default"

\* assertRedirectUri for a native client: a page of the client's origin, or a scheme
\* that only the owner of the host may use.
NativeRedirect(u, client) ==
  IF u.scheme = "https"
  THEN HttpsUrl(u) /\ SameOrigin(u, client) /\ u.port # "default"
  ELSE Parsed(u) /\ u.scheme = "custom" /\ u.host = client.host

\* Fault: the type of the application is not considered.
RedirectOfAnyType(u, type, client) == WebRedirect(u) \/ NativeRedirect(u, client)

RedirectAllowed(u, type, client) ==
  IF type = "web" THEN WebRedirect(u) ELSE NativeRedirect(u, client)

\* assertClientPresentationUrls: the client's page contains its document.
PresentationAllowed(doc, client) ==
  /\ \A u \in doc.client_uri :
       LET parent == IF Last(u.path) = "" THEN Front(u.path) ELSE u.path
       IN  /\ HttpsUrl(u) /\ SameOrigin(u, client)
           /\ u.path = client.path \/ IsStrictPrefix(parent, client.path)
  /\ \A u \in doc.other_uris : HttpsUrl(u)

-----------------------------------------------------------------------------
(* Metadata *)

\* atprotoOAuthScopeSchema and the uniqueness of its values.
ScopeParsed(scope) == Unique(scope) /\ "atproto" \in Range(scope)

\* resolveLoopbackMetadata: the client id carries the metadata.
LoopbackMetadata(c) ==
  LET redirects == IF c.redirect_uris = <<>>
                   THEN [i \in 1..2 |->
                           [scheme |-> "http", host |-> IF i = 1 THEN "127.0.0.1" ELSE "[::1]",
                            port |-> "", path |-> <<"">>, normal |-> TRUE, extra |-> "none"]]
                   ELSE c.redirect_uris
      scope == IF c.scope = <<>> THEN <<"atproto">> ELSE c.scope
  IN  IF /\ c.wellFormed
         /\ Unique(redirects) /\ \A i \in DOMAIN redirects : LoopbackRedirect(redirects[i])
         /\ ScopeParsed(scope)
      THEN [clientId |-> "loopback", grantTypes |-> {"authorization_code", "refresh_token"},
            redirectUris |-> Range(redirects), scopes |-> Range(scope)]
      ELSE NoMetadata

\* resolveFetchedMetadata: the document that the host answered.
FetchedMetadata(c) ==
  LET doc == c.document
  IN  IF /\ PublicClientId(c.url)
         /\ doc.served /\ doc.public
         /\ doc.client_id = c.url
         /\ Unique(doc.grant_types) /\ Unique(doc.redirect_uris)
         /\ "authorization_code" \in Range(doc.grant_types)
         /\ Range(doc.grant_types) \subseteq {"authorization_code", "refresh_token"}
         /\ doc.response_types = <<"code">>
         /\ \A i \in DOMAIN doc.redirect_uris :
              RedirectAllowed(doc.redirect_uris[i], doc.application_type, c.url)
         /\ PresentationAllowed(doc, c.url)
         /\ ScopeParsed(doc.scope)
      THEN [clientId |-> "fetched", grantTypes |-> Range(doc.grant_types),
            redirectUris |-> Range(doc.redirect_uris), scopes |-> Range(doc.scope)]
      ELSE NoMetadata

Resolved(c) == IF c.loopback THEN LoopbackMetadata(c) ELSE FetchedMetadata(c)

\* redirectUriMatches: exactly, but for the port of a loopback page.
RedirectUriMatches(u, m) ==
  IF m.clientId = "fetched" THEN u \in m.redirectUris
  ELSE LoopbackRedirect(u)
       /\ \E v \in m.redirectUris : [u EXCEPT !.port = ""] = [v EXCEPT !.port = ""]

\* Scopes that parseAuthorizationRequest accepts.
ScopeAllowed(scope, m) ==
  ScopeParsed(scope) /\ Range(scope) \subseteq m.scopes \cap (Supported \cup Permissions)
=============================================================================
