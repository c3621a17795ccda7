--------------------------- MODULE PluginSettings ---------------------------
(***************************************************************************)
(* The settings of the plugin (RESTServicePlugin), which live twice: as    *)
(* system properties of Openfire, and cached in fields of the plugin.      *)
(* The settings page (rest-api.jsp) writes both, one setting after the     *)
(* other, and may reload the plugin; POST, PUT and DELETE on               *)
(* /system/properties (SystemController) write the first, and the plugin   *)
(* hears of it by an event; a plugin that is loaded reads them one by one. *)
(* The filter that requests pass is picked when the plugin is loaded       *)
(* (JerseyWrapper).  The server may stop and start again at any time.      *)
(***************************************************************************)
EXTENDS Naturals, Sequences

CONSTANTS
    Reqs,      \* identities of the requests (one thread each)
    Requests,  \* what their clients may ask for together
    Stores,    \* the system properties there may be at first
    MaxStops   \* bound on the stops of the server

Values == [secret           |-> {"", "given", "random"},
           enabled          |-> {"true", "false"},
           httpAuth         |-> {"basic", "secret", "custom"},
           allowedIPs       |-> {"", "some"},
           customAuthFilter |-> {"", "there", "missing"},
           logging          |-> {"true", "false"}]
Keys == DOMAIN Values
Default == [secret |-> "", enabled |-> "false", httpAuth |-> "basic", allowedIPs |-> "",
            customAuthFilter |-> "", logging |-> "false"]

\* The order of the page; and of initializePlugin, as what follows what.
SaveOrder == <<"enabled", "secret", "httpAuth", "allowedIPs", "customAuthFilter", "logging">>
LoadedNext == [secret |-> "customAuthFilter", customAuthFilter |-> "enabled",
               enabled |-> "httpAuth", httpAuth |-> "allowedIPs", allowedIPs |-> "logging",
               logging |-> "keep"]

\* setEnabled and setHttpAuth write the field before the property.
FieldFirst == {"enabled", "httpAuth"}
\* propertySet and propertyDeleted know all but the logging.
Heard == Keys \ {"logging"}

IsForm(f) == DOMAIN f = Keys /\ \A k \in Keys : f[k] \in Values[k]
IsStore(s) == DOMAIN s = Keys /\ \A k \in Keys : s[k] \in Values[k] \cup {"absent"}

ASSUME SettingsAssumption ==
    /\ MaxStops \in Nat
    /\ \A s \in Stores : IsStore(s)
    /\ \A f \in Requests : \A r \in Reqs :
           /\ f[r].kind \in {"save", "post", "put", "delete"}
           /\ f[r].key \in Keys
           /\ IsForm(f[r].form)

VARIABLES
    store,      \* the system properties
    field,      \* the fields of the plugin that is loaded, or being loaded
    filter,     \* the filter that Jersey has: "AuthFilter" or "custom"
    refusing,   \* instances of the plugin whose loadingStatusMessage is not null
    listening,  \* the plugin hears of property events
    loader,     \* where loading is: the setting it reads next, or what comes after
    live,       \* which instance of the plugin that is
    stops,      \* how often the server has stopped
    req,        \* what each request asks for
    pc,         \* where its thread is
    at,         \* save: position in SaveOrder
    mine,       \* save: the instance of the plugin it works on
    reload,     \* save: it is to reload the plugin
    disturbed,  \* history: settings that were written twice at a time
    crossed     \* history: two saves ran at a time

plugin == <<field, filter, refusing, listening, loader, live, stops>>
history == <<disturbed, crossed>>
vars == <<store, plugin, req, pc, at, mine, reload, history>>

Reading(k) == IF store[k] = "absent" THEN Default[k] ELSE store[k]
Up == loader = "up"
Saves(r) == req[r].kind = "save"
Key(r) == IF Saves(r) THEN SaveOrder[at[r]] ELSE req[r].key
Value(r) == req[r].form[Key(r)]

Labels == {"idle", "checked", "write", "store", "event", "field", "reload", "done"}

\* A write has begun and is not over.
Writing(r, k) == pc[r] \in {"store", "event", "field"} /\ Key(r) = k

\* The filter that JerseyWrapper.loadAuthenticationFilter picks.
Picked == IF store.httpAuth = "custom" /\ store.customAuthFilter = "there"
          THEN "custom" ELSE "AuthFilter"

Goto(r, l) == pc' = [pc EXCEPT ![r] = l]

Init ==
    /\ store \in Stores
    /\ field = Default /\ filter = "AuthFilter" /\ refusing = {} /\ listening = FALSE
    /\ loader = "secret" /\ live = 1 /\ stops = 0
    /\ req \in Requests
    /\ pc = [r \in Reqs |-> "idle"]
    /\ at = [r \in Reqs |-> 1] /\ mine = [r \in Reqs |-> 0]
    /\ reload = [r \in Reqs |-> FALSE]
    /\ disturbed = {} /\ crossed = FALSE

-----------------------------------------------------------------------------
(* Loading: initializePlugin, then JerseyWrapper. *)

\* A setting is read; a blank secret and the logging are then written as well.
LoadSetting ==
    /\ loader \in Keys
    /\ field' = [field EXCEPT ![loader] = Reading(loader)]
    /\ loader' = IF loader = "secret" /\ Reading(loader) = "" THEN "generate"
                 ELSE LoadedNext[loader]
    /\ UNCHANGED <<store, filter, refusing, listening, live, stops, req, pc, at, mine,
                   reload, history>>

GenerateSecret ==
    /\ loader = "generate"
    /\ store' = [store EXCEPT !.secret = "random"]
    /\ field' = [field EXCEPT !.secret = "random"]
    /\ loader' = LoadedNext["secret"]
    /\ UNCHANGED <<filter, refusing, listening, live, stops, req, pc, at, mine, reload, history>>

\* setServiceLoggingEnabled, of what was read a moment ago.
KeepLogging ==
    /\ loader = "keep"
    /\ store' = [store EXCEPT !.logging = field.logging]
    /\ loader' = "listen"
    /\ UNCHANGED <<field, filter, refusing, listening, live, stops, req, pc, at, mine,
                   reload, history>>

Listen ==
    /\ loader = "listen"
    /\ listening' = TRUE
    /\ loader' = "wrap"
    /\ UNCHANGED <<store, field, filter, refusing, live, stops, req, pc, at, mine, reload, history>>

\* tryLoadingAuthenticationFilter and loadAuthenticationFilter leave what they find for
\* whoever reads it next.
FindClass(i, class) == refusing' = IF class = "there" THEN refusing \ {i} ELSE refusing \cup {i}

PickFilter ==
    /\ loader = "wrap"
    /\ filter' = Picked
    /\ IF store.httpAuth = "custom" /\ store.customAuthFilter # "absent"
       THEN FindClass(live, store.customAuthFilter)
       ELSE UNCHANGED refusing
    /\ loader' = "up"
    /\ UNCHANGED <<store, field, listening, live, stops, req, pc, at, mine, reload, history>>

\* Another instance of the plugin takes the place of this one.
Replace ==
    /\ listening' = FALSE
    /\ loader' = "secret"
    /\ live' = live + 1

\* The server stops, with all its threads, and starts again.
Stop ==
    /\ stops < MaxStops
    /\ stops' = stops + 1
    /\ Replace
    /\ pc' = [r \in Reqs |-> IF pc[r] = "idle" THEN "idle" ELSE "done"]
    /\ disturbed' = {}
    /\ UNCHANGED <<store, field, filter, refusing, req, at, mine, reload, crossed>>

-----------------------------------------------------------------------------
(* The requests. *)

Begun(r) == Saves(r) /\ pc[r] \notin {"idle", "done"}

NoteCrossing(r) == crossed' = (crossed \/ \E s \in Reqs \ {r} : Begun(s))

\* A save of a custom filter looks for its class, and then reads the message that another
\* look may have left behind meanwhile.
CheckClass(r) ==
    /\ pc[r] = "idle" /\ Saves(r) /\ Up /\ req[r].form.httpAuth = "custom"
    /\ mine' = [mine EXCEPT ![r] = live]
    /\ FindClass(live, req[r].form.customAuthFilter)
    /\ NoteCrossing(r)
    /\ Goto(r, "checked")
    /\ UNCHANGED <<store, field, filter, listening, loader, live, stops, req, at, reload,
                   disturbed>>

Accepted(r) ==
    \/ /\ pc[r] = "idle" /\ Saves(r) /\ Up /\ req[r].form.httpAuth # "custom"
       /\ mine' = [mine EXCEPT ![r] = live]
    \/ /\ pc[r] = "checked" /\ mine[r] \notin refusing
       /\ UNCHANGED mine

\* Faulty variant of OpenPage: only the new way to authenticate is looked at.
OpenPageLooksAhead(r) ==
    /\ Accepted(r)
    /\ reload' = [reload EXCEPT ![r] = req[r].form.httpAuth = "custom"]
    /\ NoteCrossing(r)
    /\ Goto(r, "write")
    /\ UNCHANGED <<store, plugin, req, at, disturbed>>

\* A save that is accepted goes through the settings, and then reloads if the old or new
\* filter is a custom one.
OpenPage(r) ==
    /\ Accepted(r)
    /\ reload' = [reload EXCEPT ![r] = "custom" \in {req[r].form.httpAuth, field.httpAuth}]
    /\ NoteCrossing(r)
    /\ Goto(r, "write")
    /\ UNCHANGED <<store, plugin, req, at, disturbed>>

\* The page shows the message.
RefuseClass(r) ==
    /\ pc[r] = "checked" /\ mine[r] \in refusing
    /\ Goto(r, "done")
    /\ UNCHANGED <<store, plugin, req, at, mine, reload, history>>

\* createSystemProperty, updateSystemProperty and deleteSystemProperty; the last two
\* look for the property first.
ReceiveProperty(r) ==
    /\ pc[r] = "idle" /\ ~Saves(r) /\ Up
    /\ req[r].kind = "post" \/ store[req[r].key] # "absent"
    /\ Goto(r, "write")
    /\ UNCHANGED <<store, plugin, req, at, mine, reload, history>>

\* 404; or 400, for an update whose entity names another property.
RefuseProperty(r) ==
    /\ pc[r] = "idle" /\ ~Saves(r) /\ Up
    /\ (req[r].kind # "post" /\ store[req[r].key] = "absent") \/ req[r].kind = "put"
    /\ Goto(r, "done")
    /\ UNCHANGED <<store, plugin, req, at, mine, reload, history>>

\* A write of a setting alone, with the plugin up, makes good what was disturbed.
Begin(r) ==
    LET k == Key(r) IN
    /\ disturbed' = IF Up /\ ~\E s \in Reqs \ {r} : Writing(s, k)
                    THEN disturbed \ {k} ELSE disturbed \cup {k}
    /\ UNCHANGED crossed

\* A save writes the fields of the instance it was given: another has its own.
SetField(r) == field' = IF mine[r] = live THEN [field EXCEPT ![Key(r)] = Value(r)] ELSE field

FieldBefore(r) ==
    /\ pc[r] = "write" /\ Saves(r) /\ Key(r) \in FieldFirst
    /\ SetField(r)
    /\ Begin(r)
    /\ Goto(r, "store")
    /\ UNCHANGED <<store, filter, refusing, listening, loader, live, stops, req, at, mine, reload>>

\* A property that is deleted; a blank field of the page is null, and storing that deletes
\* the property too, but the addresses of the page are an empty list.
Deletes(r) ==
    \/ req[r].kind = "delete"
    \/ Saves(r) /\ Key(r) # "allowedIPs" /\ Value(r) = ""

\* JiveGlobals.setProperty or deleteProperty: first the property, then the event.
Store(r) ==
    /\ \/ pc[r] = "store" /\ UNCHANGED history
       \/ pc[r] = "write" /\ ~(Saves(r) /\ Key(r) \in FieldFirst) /\ Begin(r)
    /\ store' = [store EXCEPT ![Key(r)] = IF Deletes(r) THEN "absent" ELSE Value(r)]
    /\ Goto(r, "event")
    /\ UNCHANGED <<plugin, req, at, mine, reload>>

\* Faulty variant of Advance: one setting too many.
AdvancePast(r) ==
    IF Saves(r) /\ at[r] <= Len(SaveOrder)
    THEN at' = [at EXCEPT ![r] = @ + 1] /\ Goto(r, "write")
    ELSE at' = at /\ Goto(r, IF reload[r] THEN "reload" ELSE "done")

Advance(r) ==
    IF Saves(r) /\ at[r] < Len(SaveOrder)
    THEN at' = [at EXCEPT ![r] = @ + 1] /\ Goto(r, "write")
    ELSE at' = at /\ Goto(r, IF reload[r] THEN "reload" ELSE "done")

FieldAfter(r) == Saves(r) /\ Key(r) \notin FieldFirst

\* Faulty variant of Hear: a deleted property is not heard of.
HearNoDeletion(r) ==
    /\ pc[r] = "event"
    /\ field' = IF listening /\ Key(r) \in Heard /\ ~Deletes(r)
                THEN [field EXCEPT ![Key(r)] = Value(r)]
                ELSE field
    /\ IF FieldAfter(r) THEN Goto(r, "field") /\ at' = at ELSE Advance(r)
    /\ UNCHANGED <<store, filter, refusing, listening, loader, live, stops, req, mine,
                   reload, history>>

\* propertySet and propertyDeleted, of the plugin that listens.  (For the secret
\* and the filter class, null and blank are the same here.)
Hear(r) ==
    LET k == Key(r) IN
    /\ pc[r] = "event"
    /\ field' = IF listening /\ k \in Heard
                THEN [field EXCEPT ![k] = IF Deletes(r) THEN Default[k] ELSE Value(r)]
                ELSE field
    /\ IF FieldAfter(r) THEN Goto(r, "field") /\ at' = at ELSE Advance(r)
    /\ UNCHANGED <<store, filter, refusing, listening, loader, live, stops, req, mine,
                   reload, history>>

SetFieldAfter(r) ==
    /\ pc[r] = "field"
    /\ SetField(r)
    /\ Advance(r)
    /\ UNCHANGED <<store, filter, refusing, listening, loader, live, stops, req, mine,
                   reload, history>>

\* reloadPlugin: destroyPlugin, and the plugin is loaded again.  Reloads take turns.
Reload(r) ==
    /\ pc[r] = "reload" /\ Up
    /\ Replace
    /\ disturbed' = {k \in Keys : \E s \in Reqs : Writing(s, k)}
    /\ Goto(r, "done")
    /\ UNCHANGED <<store, field, filter, refusing, stops, req, at, mine, reload, crossed>>

-----------------------------------------------------------------------------
Load == LoadSetting \/ GenerateSecret \/ KeepLogging \/ Listen \/ PickFilter

Step(r) ==
    \/ CheckClass(r) \/ OpenPage(r) \/ RefuseClass(r) \/ ReceiveProperty(r) \/ RefuseProperty(r)
    \/ FieldBefore(r) \/ Store(r) \/ Hear(r) \/ SetFieldAfter(r) \/ Reload(r)

Drained == Up /\ (\A r \in Reqs : pc[r] = "done") /\ UNCHANGED vars

Next == Load \/ Stop \/ (\E r \in Reqs : Step(r)) \/ Drained

Spec == Init /\ [][Next]_vars

-----------------------------------------------------------------------------
(* Properties. *)

\* Every variable has its type.
TypeOK ==
    /\ IsStore(store)
    /\ IsForm(field)
    /\ filter \in {"AuthFilter", "custom"} /\ refusing \subseteq 1..live
    /\ listening \in BOOLEAN
    /\ loader \in Keys \cup {"generate", "keep", "listen", "wrap", "up"}
    /\ live \in Nat /\ stops \in 0..MaxStops
    /\ req \in Requests
    /\ pc \in [Reqs -> Labels]
    /\ at \in [Reqs -> 1..Len(SaveOrder)]
    /\ mine \in [Reqs -> 0..live]
    /\ reload \in [Reqs -> BOOLEAN]
    /\ disturbed \subseteq Keys
    /\ crossed \in BOOLEAN

\* The field and the property of a setting agree, as a restart would make them, when
\* nobody is writing it, if no two writes of it overlapped, and no write a loading of
\* the plugin, since it was last written or loaded alone.
QuietSettingsAgree ==
    Up => \A k \in Heard \ disturbed :
              (\A r \in Reqs : ~Writing(r, k)) => field[k] = Reading(k)

\* Where only the page writes the settings of the filter, and saves do not overlap,
\* the filter that requests pass is the stored one, once saves and loading are over:
\* a save reloads whenever it must, and a stop leaves no other to be picked.
FilterIsTheStoredOne ==
    /\ Up /\ ~crossed
    /\ \A r \in Reqs : IF Saves(r) THEN ~Begun(r)
                       ELSE req[r].key \notin {"httpAuth", "customAuthFilter"}
    => filter = Picked
=============================================================================
