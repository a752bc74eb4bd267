------------------------------- MODULE MCServer -------------------------------
EXTENDS Server

CONSTANTS c1, c2

\* One request for each public route, and a POST with a body.
Public ==
  [method : {"GET"}, url : {"/favicon.ico", "/logging", "/"}, cookie : {FALSE},
   body : {FALSE}, peer : {"none"}]
    \cup [method : {"GET"}, url : {"/oauth2_landing"}, cookie : BOOLEAN,
          body : {FALSE}, peer : {"none"}]
    \cup [method : {"POST"}, url : {"/"}, cookie : {FALSE}, body : {TRUE},
          peer : {"none"}]

\* One request for each secure route, a client of each kind, and one without a session
\* whose method is refused before that matters.
Secure ==
  [method : {"GET"}, url : {"/favicon.ico", "/home", "/"}, cookie : {FALSE},
   body : {FALSE}, peer : {"trusted"}]
    \cup [method : {"GET"}, url : {"/home"}, cookie : {FALSE}, body : {FALSE},
          peer : {"none", "session", "untrusted"}]
    \cup [method : {"POST"}, url : {"/"}, cookie : {FALSE}, body : {FALSE},
          peer : {"none", "trusted"}]

MCRequest == Public \cup Secure

MCSends == [a \in Access |-> IF a = "noauth" THEN Public ELSE Secure]

\* The second request of c1 meets what the first one left behind.
MCRequestBound == [c \in Connection |-> IF c = c1 THEN 2 ELSE 1]

===============================================================================
