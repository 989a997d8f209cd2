------------------------------ MODULE MCQuery -------------------------------
(* Query for TLC: two organizations, one of them with two projects. *)
EXTENDS Query

Event(o, p, t, n, path, s, v, u) ==
    [table |-> "events", org |-> o, project |-> p, at |-> t, name |-> n, path |-> path,
     session |-> s, visitor |-> v, user |-> u, value |-> IF n = "revenue" THEN 5 ELSE 0]

\* A visit that goes on after midnight and signs up, somebody who signs up without a view,
\* a sale, a visit to each other project, and a minute of API requests.
MCRows ==
    {Event("o1", "a", 0, "pageview", "/", "s1", "v1", "u1"),
     Event("o1", "a", 2, "pageview", "/buy", "s1", "v1", "u1"),
     Event("o1", "a", 3, "signup", "/", "s1", "v2", "u1"),
     Event("o1", "a", 2, "signup", "/", None, "v4", None),
     Event("o1", "a", 3, "revenue", "/", None, None, None),
     Event("o1", "b", 2, "pageview", "/buy", "s2", "v1", None),
     Event("o2", "c", 1, "pageview", "/", "s3", "v3", None),
     [Event("o1", "a", 1, "", "/v1/ask", None, None, None) EXCEPT !.table = "api", !.value = 4]}

MCPeriods ==
    {[start |-> 0, end |-> 2], [start |-> 2, end |-> 4], [start |-> 1, end |-> 3],
     [start |-> 0, end |-> 4]}

Step(kind, target) == [kind |-> kind, target |-> target]

\* Page then event, in a session and by user; and two steps that one row can meet.
MCFunnels ==
    {[steps |-> <<Step("page", "/buy"), Step("event", "signup")>>, scope |-> sc, window |-> 4,
      period |-> [start |-> 0, end |-> 4]] : sc \in {"session", "user"}}
        \cup {[steps |-> <<Step("event", "pageview"), Step("event", "signup")>>, scope |-> "user",
               window |-> 2, period |-> [start |-> 0, end |-> 4]]}
        \cup {[steps |-> <<Step("page", "/"), Step("page", "/buy")>>, scope |-> "session",
               window |-> 4, period |-> [start |-> 0, end |-> 4]]}

MCGoals ==
    {[org |-> "o1", project |-> "a", kind |-> "event", target |-> "signup"],
     [org |-> "o1", project |-> "a", kind |-> "page", target |-> "/buy"]}

=============================================================================
