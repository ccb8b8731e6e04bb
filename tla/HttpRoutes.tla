----------------------------- MODULE HttpRoutes -----------------------------
(***************************************************************************)
(* The router (http_router.c), its static routes (http_static_route.c) and *)
(* its file routes (http_file_route.c).  A path is a sequence of           *)
(* characters; a route handles a request, refuses it, or does not handle   *)
(* it and leaves it to the next.                                           *)
(***************************************************************************)
EXTENDS Integers, Sequences, SequencesExt, FiniteSetsExt

CONSTANTS
    PathChars,  \* the characters of a path, with Slash
    PathLen,    \* bound: the length of a path
    MaxRoutes,  \* bound: the routes of a router
    Slash       \* the character /

ASSUME HttpRoutesAssumption == Slash \in PathChars /\ PathLen \in Nat /\ MaxRoutes \in Nat

VARIABLES
    routes,     \* the routes in the order they were added: url_path and kind
    tried,      \* the routes the request was given to, and what they returned
    path        \* the path of the request

routeVars == <<routes, tried, path>>

Paths == {p \in UNION {[1 .. n -> PathChars] : n \in 1 .. PathLen} : p[1] = Slash}

\* vtm_http_router_matches: how far the two run together, then what follows.
Common(p, r) == Max({n \in 0 .. Min({Len(p), Len(r)}) : SubSeq(p, 1, n) = SubSeq(r, 1, n)})
\* Mutant: a route matches every path it is a beginning of.
Matches_AnyPrefix(p, r) == Common(p, r) = Len(r)

Matches(p, r) ==
    LET n == Common(p, r)
    IN  \/ n = Len(p) /\ n = Len(r)
        \/ n > 0 /\ n = Len(r) /\ r[n] = Slash /\ p[n] = Slash

\* vtm_http_router_add_rt and vtm_http_router_static_rt.
AddRoute(r) ==
    /\ path = <<>> /\ Len(routes) < MaxRoutes
    /\ routes' = Append(routes, r) /\ UNCHANGED <<tried, path>>

Arrive(p) == path = <<>> /\ path' = p /\ UNCHANGED <<routes, tried>>

\* What the handler of a route may return.  A static route returns what the
\* application's function returns.  A file route fails at a step: the path that is
\* left does not resolve to a place under its root, cannot be opened, has no
\* attributes or is no regular file; or it serves the file.
StaticResults == {"OK", "NOT_FOUND", "NOT_HANDLED"}
FileSteps == {"real_path", "fopen", "fattr", "regular", "served"}
FileResult(step) ==
    CASE step = "served" -> "OK" [] step = "fattr" -> "ERROR"
      [] step \in {"real_path", "fopen", "regular"} -> "NOT_FOUND"
RouteResults(r) == IF r.kind = "static" THEN StaticResults ELSE {FileResult(step) : step \in FileSteps}

\* vtm_http_router_handle: the next route that matches is called, until one
\* does not return NOT_HANDLED.
Untried == {i \in DOMAIN routes : \A j \in DOMAIN tried : tried[j][1] < i}
Handled == tried # <<>> /\ Last(tried)[2] # "NOT_HANDLED"
TryRoute(rc) ==
    LET next == {i \in Untried : Matches(path, routes[i].url)}
    IN  /\ path # <<>> /\ ~Handled /\ next # {} /\ rc \in RouteResults(routes[Min(next)])
        /\ tried' = Append(tried, <<Min(next), rc>>)
        /\ UNCHANGED <<routes, path>>

RouteInit == routes = <<>> /\ tried = <<>> /\ path = <<>>
RouteNext ==
    \/ \E p \in Paths : Arrive(p) \/ \E k \in {"static", "file"} : AddRoute([url |-> p, kind |-> k])
    \/ \E rc \in StaticResults \cup {"ERROR"} : TryRoute(rc)

RouteSpec == RouteInit /\ [][RouteNext]_routeVars

\* A request is given to the routes that are for it, in the order they were added
\* and each once: those with its path and those with a directory its path is in;
\* the first that does not decline is the last that is asked, and a file route
\* never declines: it hides every route behind it.
RoutedInOrder ==
    LET fit == {k \in DOMAIN routes : LET u == routes[k].url
                                      IN  u = path \/ (Last(u) = Slash /\ IsPrefix(u, path))}
    IN  \A i \in DOMAIN tried :
          /\ tried[i][1] \in fit
          /\ {k \in fit : k < tried[i][1]} = {tried[j][1] : j \in 1 .. i - 1}
          /\ i < Len(tried) => tried[i][2] = "NOT_HANDLED" /\ routes[tried[i][1]].kind = "static"
=============================================================================
