------------------------ MODULE MCOAuthAuthorization -------------------------
(***************************************************************************)
(* An instance of OAuthAuthorization for TLC.  The clients are well-formed *)
(* ones, and those that differ from one of these in one respect.           *)
(***************************************************************************)
EXTENDS OAuthAuthorization

U(scheme, host, port) ==
  [scheme |-> scheme, host |-> host, port |-> port, path |-> <<"a">>, normal |-> TRUE,
   extra |-> "none"]
Own == "app.example.com"
Other == "other.org"
MCPublicHosts == {Own, Other}

Urls ==
  {U(s, h, p) : s \in {"https", "custom"}, h \in {Own, Other, "localhost"}, p \in {""}}
  \cup {U("https", h, p) : h \in {Own, Other}, p \in {"default", "8443"}}
  \cup {U("http", h, p) : h \in {"127.0.0.1", "[::1]", Own}, p \in {"", "8443"}}
  \cup {[U("https", Own, "") EXCEPT !.extra = e] : e \in {"credentials", "fragment"}}

Loop(redirects, scope, ok) ==
  [loopback |-> TRUE, redirect_uris |-> redirects, scope |-> scope, wellFormed |-> ok]

ClientUrl == [U("https", Own, "") EXCEPT !.path = <<"a", "client.json">>]

Document(type, redirect) ==
  [client_id |-> ClientUrl, served |-> TRUE, public |-> TRUE, application_type |-> type,
   grant_types |-> <<"authorization_code", "refresh_token">>, response_types |-> <<"code">>,
   redirect_uris |-> <<redirect>>, scope |-> <<"atproto", "repo:">>,
   client_uri |-> {}, other_uris |-> {}]

Fetched(document) == [loopback |-> FALSE, url |-> ClientUrl, document |-> document]

Web == Document("web", U("https", Other, ""))
Native == Document("native", U("custom", Own, ""))

MCClients ==
  {Loop(<<>>, <<>>, TRUE), Loop(<<>>, <<>>, FALSE), Loop(<<>>, <<"atproto", "atproto">>, TRUE)}
  \cup {Loop(<<u>>, <<"atproto", "repo:">>, TRUE) : u \in Urls}
  \cup {Fetched(Document(t, u)) : t \in {"web", "native"}, u \in Urls}
  \cup {Fetched(d) : d \in
         {[Web EXCEPT !.served = FALSE], [Web EXCEPT !.public = FALSE],
          [Web EXCEPT !.client_id = U("https", Other, "")],
          [Web EXCEPT !.grant_types = <<"refresh_token">>],
          [Web EXCEPT !.grant_types = <<"authorization_code", "implicit">>],
          [Web EXCEPT !.response_types = <<"code", "token">>],
          [Web EXCEPT !.redirect_uris = <<U("https", Own, ""), U("https", Own, "")>>],
          [Web EXCEPT !.scope = <<"repo:">>],
          [Web EXCEPT !.client_uri = {U("https", Other, "")}],
          [Native EXCEPT !.client_uri = {U("https", Own, "")}],
          [Native EXCEPT !.other_uris = {U("http", Own, "")}]}}
  \cup {[Fetched([Web EXCEPT !.client_id = u]) EXCEPT !.url = u] :
          u \in {[ClientUrl EXCEPT !.port = "8443"], [ClientUrl EXCEPT !.host = "localhost"],
                 [ClientUrl EXCEPT !.path = <<"">>], [ClientUrl EXCEPT !.normal = FALSE]}}

MCRedirects ==
  {U("https", Own, ""), U("https", Other, ""), U("custom", Own, ""), U("http", "127.0.0.1", "8443"),
   [U("http", "[::1]", "") EXCEPT !.path = <<"">>]}
MCScopes == {<<"atproto">>, <<"atproto", "repo:", "transition:generic">>}

Symmetry == Permutations(Browsers) \cup Permutations(Users) \cup Permutations(Dids)
            \cup Permutations(Pushes)
=============================================================================
