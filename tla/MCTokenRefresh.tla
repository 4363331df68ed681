--------------------------- MODULE MCTokenRefresh ---------------------------
EXTENDS TokenRefresh, TLC

CONSTANTS w1, w2, a1, a2

Apart == w1 :> "a" @@ w2 :> "b"
Together == w1 :> "a" @@ w2 :> "a"

Grok(background, first, second, faults) ==
    [grok |-> TRUE, background |-> background, requests |-> {}, home |-> Apart,
     call |-> a1 :> first @@ a2 :> second, faults |-> faults]

Other(home, call, faults) ==
    [grok |-> FALSE, background |-> {w1}, requests |-> {w2}, home |-> home,
     call |-> a1 :> call @@ a2 :> "none", faults |-> faults]

\* Two background workers on a Grok account, one of them and two calls of administrators
\* at once, and a background worker with a request in two processes or in one.
TwoWorkers ==
    {Grok({w1, w2}, "apply", "none", 1)}
    \cup {Grok({w1, w2}, c, "none", 0) : c \in {"refresh", "edit"}}
    \cup {Grok({w1}, "apply", c, 1) : c \in {"refresh", "plain", "edit"}}
    \cup {Other(h, "none", 1) : h \in {Apart, Together}}
    \cup {Other(Apart, c, 0) : c \in {"apply", "refresh", "edit"}}
=============================================================================
