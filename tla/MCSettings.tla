----------------------------- MODULE MCSettings -----------------------------
(***************************************************************************)
(* Instances of PluginSettings for TLC: two saves of the page, or one and  *)
(* a write of a property, and a third request of either kind.              *)
(***************************************************************************)
EXTENDS PluginSettings

CONSTANTS r1, r2, r3

MCReqs == {r1, r2, r3}

\* A first start, and a server with a custom filter.
Fresh == [k \in Keys |-> "absent"]
Custom == [Fresh EXCEPT !.httpAuth = "custom", !.customAuthFilter = "there",
                        !.secret = "given", !.enabled = "true"]
MCStores == {Fresh, Custom}

Form(auth, class) ==
    [Default EXCEPT !.httpAuth = auth, !.customAuthFilter = class,
                    !.secret = "given", !.enabled = "true"]
Save(auth, class) == [kind |-> "save", key |-> "enabled", form |-> Form(auth, class)]
Property(kind, k) == [kind |-> kind, key |-> k, form |-> Form("secret", "there")]

Forgetful == [kind |-> "save", key |-> "enabled", form |-> [Form("basic", "") EXCEPT !.secret = ""]]

MCSaves == {Save("custom", "there"), Save("custom", "missing"), Forgetful}

Together(p, q, s) == [r \in MCReqs |-> CASE r = r1 -> p [] r = r2 -> q [] r = r3 -> s]

MCRequests ==
    { Together(p, Save("secret", ""), Property("delete", "secret")) : p \in MCSaves }
    \cup { Together(Save("custom", "there"), Property("put", "httpAuth"), q) :
             q \in {Property("post", "httpAuth"), Property("delete", "httpAuth")} }
    \cup { Together(Save("custom", "there"), Save("custom", "missing"),
                    Property("post", "logging")) }
=============================================================================
