---------------------------- MODULE MCBlocking ----------------------------
EXTENDS Blocking

Ask(kind, scope, picked, url) == [kind |-> kind, scope |-> scope, picked |-> picked, url |-> url]
Permission == Ask("permission", "session", FALSE, {})
Policy == Ask("permission", "session", TRUE, {})
Form == Ask("elicitation", "session", FALSE, {})
Url == Ask("elicitation", "session", FALSE, {"a"})
Login == Ask("elicitation", "call", FALSE, {"a"})
Service == Ask("service", "session", FALSE, {})
Script == Ask("service", "session", TRUE, {})

\* Each kind, each scope, each way of being answered, next to another.
Pairs == { <<Permission, Policy>>, <<Policy, Form>>, <<Login, Url>>,
           <<Service, Permission>>, <<Script, Service>> }
OneUrl == {"a"}
=============================================================================
