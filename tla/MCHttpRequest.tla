---------------------------- MODULE MCHttpRequest ----------------------------
EXTENDS HttpRequest

CONSTANTS c1, c2

\* c1 asks with GET, c2 posts a body; neither uses a client certificate.
MCMethod == [c \in Config |-> IF c = c1 THEN "GET" ELSE "POST"]

MCProvided ==
  [c \in Config |-> {"WRITEFUNCTION", "WRITEDATA", "HEADERFUNCTION"}
                      \cup IF c = c1 THEN {} ELSE {"POSTFIELDS"}]

\* Two arguments of a kind have an order; the second config has one.
MCArgBound == [c \in Config |-> IF c = c1 THEN 2 ELSE 1]

=============================================================================
