------------------------ MODULE PluginSettings_proofs ------------------------
(***************************************************************************)
(* Proofs about PluginSettings, for every set of requests and stored       *)
(* properties and any number of stops: a setting that is not being written *)
(* is the same in the plugin and in the store, and requests pass the       *)
(* filter that is stored.                                                  *)
(***************************************************************************)
EXTENDS PluginSettings, TLAPS

Loaders == Keys \cup {"generate", "keep", "listen", "wrap", "up"}

\* The settings that the plugin has read when loading is at a label.
LoadedAt(l) ==
    CASE l \in {"secret", "generate"}  -> {}
      [] l = "customAuthFilter"        -> {"secret"}
      [] l = "enabled"                 -> {"secret", "customAuthFilter"}
      [] l = "httpAuth"                -> {"secret", "customAuthFilter", "enabled"}
      [] l = "allowedIPs"              -> Keys \ {"allowedIPs", "logging"}
      [] l = "logging"                 -> Keys \ {"logging"}
      [] OTHER                         -> Keys

\* The labels of a thread fit its request.
Place(r) ==
    /\ pc[r] = "checked" => Saves(r) /\ req[r].form["httpAuth"] = "custom" /\ mine[r] \in 1..live
    /\ pc[r] = "store" => Saves(r) /\ Key(r) \in FieldFirst
    /\ pc[r] = "field" => Saves(r) /\ Key(r) \notin FieldFirst
    /\ pc[r] = "reload" => Saves(r)
    /\ reload[r] => Saves(r)

TypeInv ==
    /\ TypeOK /\ (\A r \in Reqs : Place(r))
    /\ (loader \in {"wrap", "up"} => listening) /\ live # 0

-----------------------------------------------------------------------------
(* Facts that several steps use. *)

LEMMA KeysAre ==
    Keys = {"secret", "enabled", "httpAuth", "allowedIPs", "customAuthFilter", "logging"}
BY DEF Keys, Values

LEMMA Defaults == \A k \in Keys : Default[k] \in Values[k] /\ "absent" \notin Values[k]
<1> SUFFICES ASSUME NEW k \in Keys
             PROVE  Default[k] \in Values[k] /\ "absent" \notin Values[k]
  OBVIOUS
<1>1. CASE k = "secret"
  BY <1>1 DEF Values, Default
<1>2. CASE k = "enabled"
  BY <1>2 DEF Values, Default
<1>3. CASE k = "httpAuth"
  BY <1>3 DEF Values, Default
<1>4. CASE k = "allowedIPs"
  BY <1>4 DEF Values, Default
<1>5. CASE k = "customAuthFilter"
  BY <1>5 DEF Values, Default
<1>6. CASE k = "logging"
  BY <1>6 DEF Values, Default
<1>7. QED
  BY <1>1, <1>2, <1>3, <1>4, <1>5, <1>6, KeysAre

\* Where loading goes, and that it forgets nothing.
LEMMA LoadingGoesOn ==
    /\ \A l \in Keys : /\ LoadedNext[l] \in Loaders \ {"generate", "listen", "wrap", "up"}
                       /\ LoadedAt(LoadedNext[l]) \subseteq LoadedAt(l) \cup {l}
    /\ \A l \in {"keep", "listen", "wrap", "up"} : LoadedAt(l) = Keys
    /\ LoadedAt("secret") = {} /\ LoadedAt("generate") = {}
BY KeysAre DEF LoadedAt, LoadedNext, Loaders

\* What a request may write.
LEMMA RequestTypes ==
    ASSUME TypeOK, NEW r \in Reqs
    PROVE  /\ Key(r) \in Keys /\ Value(r) \in Values[Key(r)]
           /\ req[r].kind \in {"save", "post", "put", "delete"}
           /\ at[r] \in 1..6 /\ Len(SaveOrder) = 6
<1>1. /\ req[r].key \in Keys /\ IsForm(req[r].form)
      /\ req[r].kind \in {"save", "post", "put", "delete"}
  BY SettingsAssumption DEF TypeOK
<1>2. Len(SaveOrder) = 6 /\ \A i \in 1..6 : SaveOrder[i] \in Keys
  BY KeysAre DEF SaveOrder
<1>3. at[r] \in 1..6
  BY <1>2 DEF TypeOK
<1>4. Key(r) \in Keys
  BY <1>1, <1>2, <1>3 DEF Key
<1>5. QED
  BY <1>1, <1>2, <1>3, <1>4 DEF Value, IsForm

\* Which settings may be blank: those that are so by default.
LEMMA Blanks == \A k \in Keys : "" \in Values[k] => Default[k] = "" /\ k # "httpAuth"
<1> SUFFICES ASSUME NEW k \in Keys, "" \in Values[k] PROVE Default[k] = "" /\ k # "httpAuth"
  OBVIOUS
<1>1. CASE k = "secret"
  BY <1>1 DEF Default
<1>2. CASE k = "allowedIPs"
  BY <1>2 DEF Default
<1>3. CASE k = "customAuthFilter"
  BY <1>3 DEF Default
<1>4. "" \notin Values["enabled"] /\ "" \notin Values["httpAuth"] /\ "" \notin Values["logging"]
  BY DEF Values
<1>5. QED
  BY <1>1, <1>2, <1>3, <1>4, KeysAre

\* A blank field of the page that is stored as no property reads as the same.
LEMMA BlankIsDefault ==
    ASSUME TypeOK, NEW r \in Reqs, Deletes(r), req[r].kind # "delete"
    PROVE  Value(r) = Default[Key(r)]
<1>1. Value(r) = "" /\ Value(r) \in Values[Key(r)] /\ Key(r) \in Keys
  BY RequestTypes DEF Deletes
<1>2. QED
  BY <1>1, Blanks

LEMMA ReadingType ==
    ASSUME TypeOK, NEW k \in Keys
    PROVE  Reading(k) \in Values[k]
BY Defaults DEF TypeOK, IsStore, Reading

\* A field, or a property, that is written keeps its type.
LEMMA WriteTypes ==
    ASSUME TypeOK, NEW k \in Keys, NEW v \in Values[k]
    PROVE  /\ IsForm([field EXCEPT ![k] = v])
           /\ IsStore([store EXCEPT ![k] = v]) /\ IsStore([store EXCEPT ![k] = "absent"])
BY DEF TypeOK, IsForm, IsStore

-----------------------------------------------------------------------------
(* Types. *)

LEMMA InitTypes == Init => TypeInv
<1> SUFFICES ASSUME Init PROVE TypeInv
  OBVIOUS
<1>1. IsStore(store)
  BY SettingsAssumption DEF Init
<1>2. IsForm(field)
  BY Defaults, KeysAre DEF Init, IsForm, Default
<1>3. loader \in Keys
  BY KeysAre DEF Init
<1>4. 1 \in 1..Len(SaveOrder)
  BY DEF SaveOrder
<1>5. /\ at \in [Reqs -> 1..Len(SaveOrder)] /\ live \in Nat /\ stops \in 0..MaxStops
      /\ mine \in [Reqs -> 0..live]
  BY <1>4, SettingsAssumption DEF Init
<1>6. /\ refusing \subseteq 1..live /\ live # 0
      /\ pc \in [Reqs -> Labels] /\ \A r \in Reqs : Place(r)
  BY DEF Init, Labels, Place
<1>7. TypeOK
  BY <1>1, <1>2, <1>3, <1>5, <1>6 DEF Init, TypeOK
<1>8. loader \notin {"wrap", "up"}
  BY DEF Init
<1>9. QED
  BY <1>6, <1>7, <1>8 DEF TypeInv

LEMMA LoadTypes == TypeInv /\ Load => TypeInv'
<1> SUFFICES ASSUME TypeInv, Load PROVE TypeInv'
  OBVIOUS
<1>1. TypeOK /\ loader \in Loaders /\ live \in Nat \ {0}
  BY DEF TypeInv, TypeOK, Loaders
<1>2. CASE LoadSetting
  <2>1. IsForm(field')
    BY <1>1, <1>2, ReadingType, WriteTypes DEF LoadSetting
  <2>2. loader' \in Loaders \ {"wrap", "up"}
    <3>1. loader \in Keys /\ LoadedNext[loader] \in Loaders \ {"wrap", "up"}
      BY <1>2, LoadingGoesOn DEF LoadSetting
    <3>2. "generate" \in Loaders \ {"wrap", "up"}
      BY DEF Loaders
    <3>3. QED
      BY <1>2, <3>1, <3>2 DEF LoadSetting
  <2>3. QED
    BY <1>2, <2>1, <2>2 DEF LoadSetting, TypeInv, TypeOK, Place, Saves, Key, history, Loaders
<1>3. CASE GenerateSecret
  <2>1. "secret" \in Keys /\ "random" \in Values["secret"]
    BY KeysAre DEF Values
  <2>2. IsForm(field') /\ IsStore(store')
    BY <1>1, <1>3, <2>1, WriteTypes DEF GenerateSecret
  <2>3. loader' \in Keys
    BY <1>3, KeysAre DEF GenerateSecret, LoadedNext
  <2>4. loader' \notin {"wrap", "up"}
    BY <2>3, KeysAre
  <2>5. QED
    BY <1>3, <2>2, <2>3, <2>4 DEF GenerateSecret, TypeInv, TypeOK, Place, Saves, Key, history
<1>4. CASE KeepLogging
  <2>1. "logging" \in Keys /\ field["logging"] \in Values["logging"]
    BY <1>1, KeysAre DEF TypeOK, IsForm
  <2>2. IsStore(store')
    BY <1>1, <1>4, <2>1, WriteTypes DEF KeepLogging
  <2>3. QED
    BY <1>4, <2>2 DEF KeepLogging, TypeInv, TypeOK, Place, Saves, Key, history
<1>5. CASE Listen
  BY <1>5 DEF Listen, TypeInv, TypeOK, Place, Saves, Key, history
<1>6. CASE PickFilter
  <2>1. refusing' \subseteq 1..live
    <3>1. live \in 1..live
      BY <1>1 DEF TypeInv
    <3>2. QED
      BY <1>1, <1>6, <3>1 DEF PickFilter, FindClass, TypeOK
  <2>2. QED
    BY <1>6, <2>1 DEF PickFilter, Picked, TypeInv, TypeOK, Place, Saves, Key, history
<1>7. QED
  BY <1>2, <1>3, <1>4, <1>5, <1>6 DEF Load

LEMMA StopTypes == TypeInv /\ Stop => TypeInv'
<1> SUFFICES ASSUME TypeInv, Stop PROVE TypeInv'
  OBVIOUS
<1>1. "secret" \in Keys
  BY KeysAre
<1>2. mine' \in [Reqs -> 0..live'] /\ refusing' \subseteq 1..live' /\ live' # 0
  BY DEF Stop, Replace, TypeInv, TypeOK
<1>3. TypeOK'
  <2>1. live' \in Nat /\ stops' \in 0..MaxStops
    BY SettingsAssumption DEF Stop, Replace, TypeInv, TypeOK
  <2>2. pc' \in [Reqs -> Labels]
    BY DEF Stop, TypeInv, TypeOK, Labels
  <2>3. QED
    BY <1>1, <1>2, <2>1, <2>2 DEF Stop, Replace, TypeInv, TypeOK
<1>4. QED
  BY <1>2, <1>3 DEF Stop, Replace, TypeInv, TypeOK, Place, Saves

LEMMA StepTypes ==
    ASSUME TypeInv, NEW r \in Reqs, Step(r)
    PROVE  TypeInv'
<1>1. /\ TypeOK /\ Key(r) \in Keys /\ Value(r) \in Values[Key(r)]
      /\ Default[Key(r)] \in Values[Key(r)]
      /\ Len(SaveOrder) = 6 /\ at[r] \in 1..6
  BY RequestTypes, Defaults DEF TypeInv
<1>2. CASE CheckClass(r) \/ OpenPage(r) \/ RefuseClass(r) \/ ReceiveProperty(r)
           \/ RefuseProperty(r)
  <2>1. live \in Nat \ {0} /\ live \in 1..live /\ live \in 0..live
    BY DEF TypeInv, TypeOK
  <2>2. CASE CheckClass(r)
    <3>1. refusing' \subseteq 1..live /\ mine' \in [Reqs -> 0..live] /\ mine'[r] = live
          /\ crossed' \in BOOLEAN
      BY <1>1, <2>1, <2>2 DEF CheckClass, FindClass, NoteCrossing, Begun, Saves, TypeOK
    <3>2. pc' \in [Reqs -> Labels] /\ pc'[r] = "checked"
      BY <1>1, <2>2 DEF CheckClass, Goto, TypeOK, Labels
    <3>3. TypeOK'
      BY <1>1, <2>2, <3>1, <3>2 DEF CheckClass, TypeOK
    <3>4. QED
      BY <2>1, <2>2, <3>1, <3>2, <3>3 DEF CheckClass, Goto, TypeInv, TypeOK, Place, Saves, Key
  <2>3. CASE OpenPage(r)
    <3>1. Saves(r) /\ mine' \in [Reqs -> 0..live]
      BY <1>1, <2>3, <2>1 DEF OpenPage, Accepted, TypeInv, TypeOK, Place
    <3>2. \A s \in Reqs \ {r} : mine'[s] = mine[s]
      BY <1>1, <2>3 DEF OpenPage, Accepted, TypeOK
    <3>3. crossed' \in BOOLEAN
      BY <1>1, <2>3 DEF OpenPage, NoteCrossing, TypeOK
    <3>4. /\ UNCHANGED <<store, plugin, req, at, disturbed>>
          /\ pc' = [pc EXCEPT ![r] = "write"] /\ pc' \in [Reqs -> Labels]
          /\ reload' \in [Reqs -> BOOLEAN] /\ \A s \in Reqs \ {r} : reload'[s] = reload[s]
      BY <1>1, <2>3 DEF OpenPage, Goto, TypeOK, Labels
    <3>5. TypeOK'
      BY <1>1, <3>1, <3>3, <3>4 DEF TypeOK, plugin
    <3>6. \A s \in Reqs : Place(s)'
      BY <1>1, <3>1, <3>2, <3>4 DEF Place, TypeInv, TypeOK, Saves, Key, plugin
    <3>7. QED
      BY <3>4, <3>5, <3>6 DEF TypeInv, plugin
  <2>4. CASE RefuseClass(r) \/ ReceiveProperty(r) \/ RefuseProperty(r)
    BY <2>4 DEF RefuseClass, ReceiveProperty, RefuseProperty, Goto, TypeInv, TypeOK, Place,
       Saves, Key, plugin, history, Labels
  <2>5. QED
    BY <1>2, <2>3, <2>4, <2>2
<1>3. CASE FieldBefore(r)
  <2>1. IsForm(field')
    BY <1>1, <1>3, WriteTypes DEF FieldBefore, SetField, TypeOK
  <2>2. disturbed' \subseteq Keys /\ crossed' = crossed
    BY <1>1, <1>3 DEF FieldBefore, Begin, TypeOK
  <2>3. QED
    BY <1>3, <2>1, <2>2 DEF FieldBefore, Goto, Labels, TypeInv, TypeOK, Place, Saves, Key
<1>4. CASE Store(r)
  <2>1. IsStore(store')
    BY <1>1, <1>4, WriteTypes DEF Store
  <2>2. disturbed' \subseteq Keys /\ crossed' = crossed
    BY <1>1, <1>4 DEF Store, Begin, TypeOK, history
  <2>3. QED
    BY <1>4, <2>1, <2>2 DEF Store, Goto, Labels, TypeInv, TypeOK, Place, Saves, Key, plugin
<1>5. ASSUME Advance(r), UNCHANGED <<req, reload, mine, live>>
      PROVE  /\ at' \in [Reqs -> 1..Len(SaveOrder)]
             /\ pc' \in [Reqs -> Labels]
             /\ \A s \in Reqs : Place(s)'
  <2>1. CASE Saves(r) /\ at[r] < Len(SaveOrder)
    BY <1>1, <1>5, <2>1 DEF Advance, Goto, Labels, TypeInv, TypeOK, Place, Saves, Key
  <2>2. CASE ~(Saves(r) /\ at[r] < Len(SaveOrder))
    BY <1>1, <1>5, <2>2 DEF Advance, Goto, Labels, TypeInv, TypeOK, Place, Saves, Key
  <2>3. QED
    BY <2>1, <2>2
<1>6. CASE Hear(r)
  <2>1. IsForm(field')
    BY <1>1, <1>6, WriteTypes DEF Hear, TypeOK
  <2>2. CASE FieldAfter(r)
    BY <1>6, <2>1, <2>2 DEF Hear, FieldAfter, Goto, Labels, TypeInv, TypeOK, Place, Saves, Key,
       history
  <2>3. CASE ~FieldAfter(r)
    BY <1>5, <1>6, <2>1, <2>3 DEF Hear, TypeInv, TypeOK, history
  <2>4. QED
    BY <2>2, <2>3
<1>7. CASE SetFieldAfter(r)
  <2>1. IsForm(field')
    BY <1>1, <1>7, WriteTypes DEF SetFieldAfter, SetField, TypeOK
  <2>2. QED
    BY <1>5, <1>7, <2>1 DEF SetFieldAfter, TypeInv, TypeOK, history
<1>8. CASE Reload(r)
  <2>1. "secret" \in Keys
    BY KeysAre
  <2>2. mine' \in [Reqs -> 0..live'] /\ refusing' \subseteq 1..live' /\ live' # 0
    BY <1>8 DEF Reload, Replace, TypeInv, TypeOK
  <2>3. TypeOK'
    <3>1. live' \in Nat /\ disturbed' \subseteq Keys
      BY <1>8 DEF Reload, Replace, TypeInv, TypeOK
    <3>2. pc' \in [Reqs -> Labels]
      BY <1>8 DEF Reload, Goto, Labels, TypeInv, TypeOK
    <3>3. QED
      BY <1>8, <2>1, <2>2, <3>1, <3>2 DEF Reload, Replace, TypeInv, TypeOK
  <2>4. QED
    BY <1>8, <2>2, <2>3 DEF Reload, Replace, Goto, TypeInv, TypeOK, Place, Saves, Key
<1>9. QED
  BY <1>2, <1>3, <1>4, <1>6, <1>7, <1>8 DEF Step
-----------------------------------------------------------------------------
(* Settings that are not being written. *)

Quiet(k) == \A r \in Reqs : ~Writing(r, k)

\* A setting that is written undisturbed is written by one thread, with the plugin up; one
\* that nobody writes agrees once it is loaded.
AgreeInv ==
    \A k \in Heard \ disturbed :
        /\ \A r, s \in Reqs : Writing(r, k) /\ Writing(s, k) => r = s
        /\ ~Quiet(k) => Up
        /\ k \in LoadedAt(loader) /\ Quiet(k) => field[k] = Reading(k)

\* What the thread that writes a setting has done so far.
Written(r) ==
    LET k == Key(r) IN
    k \in Heard \ disturbed =>
        /\ pc[r] = "event"
           => store[k] = IF Deletes(r) THEN "absent" ELSE Value(r)
        /\ pc[r] = "field" => Reading(k) = Value(r) /\ field[k] = Value(r)

QuietInv == AgreeInv /\ \A r \in Reqs : Written(r)

LEMMA InitQuiet == Init => QuietInv
BY KeysAre, LoadingGoesOn DEF Init, QuietInv, AgreeInv, Written, Quiet, Writing, Up

\* While the plugin is loaded nobody writes an undisturbed setting.
LEMMA LoadQuiet == TypeInv /\ QuietInv /\ Load => QuietInv'
<1> SUFFICES ASSUME TypeInv, QuietInv, Load PROVE QuietInv'
  OBVIOUS
<1>1. UNCHANGED <<req, pc, at, mine, reload, history>> /\ loader # "up"
  BY KeysAre DEF Load, LoadSetting, GenerateSecret, KeepLogging, Listen, PickFilter
<1>2. /\ \A r \in Reqs, k \in Keys : Writing(r, k)' <=> Writing(r, k)
      /\ \A k \in Keys : Quiet(k)' <=> Quiet(k)
      /\ \A r \in Reqs : Key(r)' = Key(r) /\ Value(r)' = Value(r) /\ Key(r) \in Keys
      /\ disturbed' = disturbed
  BY <1>1, RequestTypes DEF Writing, Quiet, Key, Value, Saves, TypeInv, history
<1>3. \A k \in Heard \ disturbed : Quiet(k)
  BY <1>1 DEF QuietInv, AgreeInv, Up
<1>4. \A r \in Reqs : Key(r) \in Heard \ disturbed => pc[r] \notin {"event", "field"}
  BY <1>3 DEF Quiet, Writing
<1>5. \A r \in Reqs : Written(r)'
  BY <1>1, <1>2, <1>4 DEF Written
<1>6. IsForm(field) /\ IsStore(store) /\ Heard \subseteq Keys
  BY DEF TypeInv, TypeOK, Heard
<1>7. ASSUME NEW k \in Heard \ disturbed, k \in LoadedAt(loader')
      PROVE  (field[k] = Reading(k))'
  <2>1. k \in LoadedAt(loader) => field[k] = Reading(k)
    BY <1>3, <1>7 DEF QuietInv, AgreeInv
  <2>2. CASE LoadSetting
    <3>1. loader' # "generate" /\ k \in LoadedAt(loader) \cup {loader}
      BY <1>7, <2>2, LoadingGoesOn DEF LoadSetting
    <3>2. Reading(k)' = Reading(k)
      BY <2>2 DEF LoadSetting, Reading
    <3>3. QED
      BY <1>6, <2>1, <2>2, <3>1, <3>2 DEF LoadSetting, IsForm
  <2>3. CASE GenerateSecret
    <3>1. loader' = "customAuthFilter" /\ k = "secret"
      BY <1>7, <2>3, KeysAre DEF GenerateSecret, LoadedNext, LoadedAt
    <3>2. store'["secret"] = "random" /\ field'["secret"] = "random"
      BY <1>6, <2>3, KeysAre DEF GenerateSecret, IsStore, IsForm
    <3>3. QED
      BY <3>1, <3>2 DEF Reading
  <2>4. CASE KeepLogging
    <3>1. k # "logging" /\ k \in LoadedAt(loader)
      BY <1>6, <2>4, LoadingGoesOn DEF KeepLogging, Heard
    <3>2. store'[k] = store[k] /\ field' = field
      BY <1>6, <2>4, <3>1 DEF KeepLogging, IsStore
    <3>3. QED
      BY <2>1, <3>1, <3>2 DEF Reading
  <2>5. CASE Listen \/ PickFilter
    <3>1. k \in LoadedAt(loader) /\ UNCHANGED <<store, field>>
      BY <1>6, <2>5, LoadingGoesOn DEF Listen, PickFilter
    <3>2. QED
      BY <2>1, <3>1 DEF Reading
  <2>6. QED
    BY <2>2, <2>3, <2>4, <2>5 DEF Load
<1>8. AgreeInv'
  BY <1>2, <1>3, <1>6, <1>7 DEF AgreeInv, Quiet
<1>9. QED
  BY <1>5, <1>8 DEF QuietInv

LEMMA StopQuiet == TypeInv /\ QuietInv /\ Stop => QuietInv'
<1> SUFFICES ASSUME TypeInv, QuietInv, Stop PROVE QuietInv'
  OBVIOUS
<1>1. \A r \in Reqs : pc'[r] \in {"idle", "done"}
  BY DEF Stop, TypeInv, TypeOK
<1>2. \A k : Quiet(k)'
  BY <1>1 DEF Quiet, Writing
<1>3. LoadedAt(loader') = {}
  BY LoadingGoesOn DEF Stop, Replace
<1>4. QED
  BY <1>1, <1>2, <1>3 DEF QuietInv, AgreeInv, Quiet, Written

\* The steps of a thread that changes one setting only touch what is about that setting.
LEMMA StepQuiet ==
    ASSUME TypeInv, QuietInv, NEW r \in Reqs, Step(r)
    PROVE  QuietInv'
<1>1. /\ TypeOK /\ Heard \subseteq Keys /\ IsForm(field) /\ IsStore(store)
      /\ pc \in [Reqs -> Labels]
      /\ at \in [Reqs -> 1..Len(SaveOrder)]
      /\ \A s \in Reqs : Key(s) \in Keys /\ Place(s) /\ Written(s)
      /\ Value(r) \in Values[Key(r)] /\ AgreeInv
      /\ loader = "up" => listening
  BY RequestTypes DEF TypeInv, TypeOK, QuietInv, Heard
<1>2. /\ req' = req /\ (\A s \in Reqs : Saves(s)' = Saves(s))
      /\ \A s \in Reqs \ {r} : /\ pc'[s] = pc[s] /\ at'[s] = at[s]
                               /\ Key(s)' = Key(s) /\ Value(s)' = Value(s)
                               /\ Deletes(s)' = Deletes(s)
                               /\ \A k : Writing(s, k)' <=> Writing(s, k)
  <2>1. /\ req' = req
        /\ \A s \in Reqs \ {r} : pc'[s] = pc[s] /\ at'[s] = at[s]
    BY <1>1 DEF Step, CheckClass, OpenPage, RefuseClass, ReceiveProperty, RefuseProperty,
       FieldBefore, Store,
       Hear, SetFieldAfter, Reload, Advance, Goto
  <2>2. QED
    BY <2>1 DEF Saves, Key, Value, Writing, Deletes
<1>3. CASE CheckClass(r) \/ OpenPage(r) \/ RefuseClass(r) \/ ReceiveProperty(r)
           \/ RefuseProperty(r)
  <2>1. /\ UNCHANGED <<store, field, loader, at, disturbed>>
        /\ pc[r] \in {"idle", "checked"} /\ pc'[r] \in {"checked", "write", "done"}
    BY <1>1, <1>3 DEF CheckClass, OpenPage, Accepted, RefuseClass, ReceiveProperty,
       RefuseProperty, Goto, history, plugin
  <2>2. \A s \in Reqs, k \in Keys : Writing(s, k)' <=> Writing(s, k)
    BY <1>2, <2>1 DEF Writing
  <2>3. \A k \in Keys : Quiet(k)' <=> Quiet(k)
    BY <2>2 DEF Quiet
  <2>4. AgreeInv'
    BY <1>1, <2>1, <2>2, <2>3 DEF AgreeInv, Up, Reading
  <2>5. \A s \in Reqs : Written(s)'
    BY <1>1, <1>2, <2>1 DEF Written, Reading
  <2>6. QED
    BY <2>4, <2>5 DEF QuietInv
<1>4. ASSUME UNCHANGED <<at, loader, disturbed>>, pc'[r] \in {"store", "event", "field"},
             pc[r] \in {"store", "event", "field"},
             \A k \in Keys \ {Key(r)} : field'[k] = field[k] /\ store'[k] = store[k],
             Written(r)'
      PROVE  QuietInv'
  <2>1. Key(r)' = Key(r)
    BY <1>2, <1>4 DEF Key, Saves
  <2>2. \A s \in Reqs, k \in Keys : Writing(s, k)' <=> Writing(s, k)
    BY <1>2, <1>4, <2>1 DEF Writing
  <2>3. \A k \in Keys : Quiet(k)' <=> Quiet(k)
    BY <2>2 DEF Quiet
  <2>4. ~Quiet(Key(r))
    BY <1>4 DEF Quiet, Writing
  <2>5. AgreeInv'
    BY <1>1, <1>4, <2>2, <2>3, <2>4 DEF AgreeInv, Up, Reading
  <2>6. ASSUME NEW s \in Reqs \ {r} PROVE Written(s)'
    <3>1. CASE Key(s) \in Heard \ disturbed /\ pc[s] \in {"event", "field"}
      <4>1. Key(s) # Key(r)
        BY <1>1, <1>4, <3>1 DEF AgreeInv, Writing
      <4>2. QED
        BY <1>1, <1>2, <1>4, <4>1 DEF Written, Reading
    <3>2. CASE ~(Key(s) \in Heard \ disturbed /\ pc[s] \in {"event", "field"})
      BY <1>2, <1>4, <3>2 DEF Written
    <3>3. QED
      BY <3>1, <3>2
  <2>7. QED
    BY <1>4, <2>5, <2>6 DEF QuietInv
\* A write begins.
<1>5. ASSUME UNCHANGED <<at, loader>>, pc'[r] \in {"store", "event"}, pc[r] = "write", Begin(r),
             \A k \in Keys \ {Key(r)} : field'[k] = field[k] /\ store'[k] = store[k],
             Written(r)'
      PROVE  QuietInv'
  <2>1. Key(r)' = Key(r)
    BY <1>2, <1>5 DEF Key, Saves
  <2>2. \A s \in Reqs, k \in Keys \ {Key(r)} : Writing(s, k)' <=> Writing(s, k)
    BY <1>2, <1>5, <2>1 DEF Writing
  <2>3. \A k \in Keys \ {Key(r)} : /\ Quiet(k)' <=> Quiet(k)
                                   /\ k \in disturbed' <=> k \in disturbed
    BY <1>5, <2>2 DEF Quiet, Begin
  <2>4. ~Quiet(Key(r))'
    BY <1>5, <2>1 DEF Quiet, Writing
  <2>5. Key(r) \notin disturbed' => Up /\ \A s \in Reqs \ {r} : ~Writing(s, Key(r))
    BY <1>5 DEF Begin
  <2>6. AgreeInv'
    <3>1. ASSUME NEW k \in Heard \ disturbed', k # Key(r)
          PROVE  /\ \A s, q \in Reqs : Writing(s, k)' /\ Writing(q, k)' => s = q
                 /\ ~Quiet(k)' => Up'
                 /\ k \in LoadedAt(loader') /\ Quiet(k)' => field'[k] = Reading(k)'
      BY <1>1, <1>5, <2>2, <2>3, <3>1 DEF AgreeInv, Up, Reading
    <3>2. ASSUME NEW k \in Heard \ disturbed', k = Key(r)
          PROVE  /\ \A s, q \in Reqs : Writing(s, k)' /\ Writing(q, k)' => s = q
                 /\ ~Quiet(k)' => Up'
                 /\ k \in LoadedAt(loader') /\ Quiet(k)' => field'[k] = Reading(k)'
      <4>1. \A s \in Reqs \ {r} : ~Writing(s, k)'
        BY <1>2, <2>5, <3>2
      <4>2. Up'
        BY <1>5, <2>5, <3>2 DEF Up
      <4>3. ~Quiet(k)'
        BY <1>2, <1>5, <2>1, <3>2 DEF Quiet, Writing
      <4>4. QED
        BY <4>1, <4>2, <4>3
    <3>3. QED
      BY <3>1, <3>2 DEF AgreeInv
  <2>7. ASSUME NEW s \in Reqs \ {r} PROVE Written(s)'
    <3>1. CASE Key(s) \in Heard \ disturbed' /\ pc[s] \in {"event", "field"}
      <4>1. Key(s) # Key(r)
        BY <2>5, <3>1 DEF Writing
      <4>2. QED
        BY <1>1, <1>2, <1>5, <2>3, <4>1 DEF Written, Reading
    <3>2. CASE ~(Key(s) \in Heard \ disturbed' /\ pc[s] \in {"event", "field"})
      BY <1>2, <3>2 DEF Written
    <3>3. QED
      BY <3>1, <3>2
  <2>8. QED
    BY <1>5, <2>6, <2>7 DEF QuietInv
\* A write ends, and what it wrote agrees.
<1>6. ASSUME UNCHANGED <<store, loader, disturbed>>, pc[r] \in {"event", "field"},
             pc'[r] \in {"write", "reload", "done"},
             \A k \in Keys \ {Key(r)} : field'[k] = field[k],
             Key(r) \in Heard \ disturbed => field'[Key(r)] = Reading(Key(r))
      PROVE  QuietInv'
  <2>1. \A s \in Reqs \ {r}, k \in Keys : Writing(s, k)' <=> Writing(s, k)
    BY <1>2
  <2>2. \A k : ~Writing(r, k)'
    BY <1>6 DEF Writing
  <2>3. \A k : Reading(k)' = Reading(k)
    BY <1>6 DEF Reading
  <2>4. \A k \in Keys \ {Key(r)} : Quiet(k)' <=> Quiet(k)
    BY <2>1, <2>2 DEF Quiet, Writing
  <2>5. AgreeInv'
    <3>1. ASSUME NEW k \in Heard \ disturbed
          PROVE  /\ \A s, q \in Reqs : Writing(s, k)' /\ Writing(q, k)' => s = q
                 /\ ~Quiet(k)' => Up'
                 /\ k \in LoadedAt(loader') /\ Quiet(k)' => field'[k] = Reading(k)'
      <4>1. \A s \in Reqs : Writing(s, k)' => Writing(s, k)
        BY <1>1, <2>1, <2>2
      <4>2. ~Quiet(k)' => ~Quiet(k)
        BY <4>1 DEF Quiet
      <4>3. k # Key(r) /\ Quiet(k)' => Quiet(k)
        BY <1>1, <2>4
      <4>4. QED
        BY <1>1, <1>6, <2>3, <4>1, <4>2, <4>3 DEF AgreeInv, Up
    <3>2. QED
      BY <1>6, <3>1 DEF AgreeInv
  <2>6. Written(r)'
    BY <1>6 DEF Written
  <2>7. ASSUME NEW s \in Reqs \ {r} PROVE Written(s)'
    <3>1. CASE Key(s) \in Heard \ disturbed /\ pc[s] \in {"event", "field"}
      <4>1. Key(s) # Key(r)
        BY <1>1, <1>6, <3>1 DEF AgreeInv, Writing
      <4>2. QED
        BY <1>1, <1>2, <1>6, <4>1 DEF Written, Reading
    <3>2. CASE ~(Key(s) \in Heard \ disturbed /\ pc[s] \in {"event", "field"})
      BY <1>2, <1>6, <3>2 DEF Written
    <3>3. QED
      BY <3>1, <3>2
  <2>8. QED
    BY <2>5, <2>6, <2>7 DEF QuietInv
<1>7. CASE FieldBefore(r)
  <2>1. \A k \in Keys \ {Key(r)} : field'[k] = field[k] /\ store'[k] = store[k]
    BY <1>1, <1>7 DEF FieldBefore, SetField, IsForm
  <2>2. Written(r)' /\ pc'[r] = "store" /\ pc[r] = "write" /\ Begin(r)
    BY <1>1, <1>7 DEF FieldBefore, Goto, Written
  <2>3. QED
    BY <1>5, <1>7, <2>1, <2>2 DEF FieldBefore
<1>8. CASE Store(r)
  <2>1. /\ \A k \in Keys \ {Key(r)} : field'[k] = field[k] /\ store'[k] = store[k]
        /\ store'[Key(r)] = IF Deletes(r) THEN "absent" ELSE Value(r)
        /\ pc'[r] = "event" /\ UNCHANGED <<at, loader>>
    BY <1>1, <1>8 DEF Store, Goto, plugin, IsStore
  <2>2. Written(r)'
    BY <1>2, <2>1 DEF Written, Key, Value, Saves, Deletes
  <2>3. CASE pc[r] = "store" /\ UNCHANGED history
    BY <1>4, <2>1, <2>2, <2>3 DEF history
  <2>4. CASE pc[r] = "write" /\ Begin(r)
    BY <1>5, <2>1, <2>2, <2>4
  <2>5. QED
    BY <1>8, <2>3, <2>4 DEF Store
<1>9. CASE Hear(r)
  <2>1. /\ pc[r] = "event" /\ UNCHANGED <<store, loader, disturbed>>
        /\ \A k \in Keys \ {Key(r)} : field'[k] = field[k]
    BY <1>1, <1>9 DEF Hear, history, IsForm
  <2>2. Key(r) \in Heard \ disturbed =>
            /\ field'[Key(r)] = IF Deletes(r) THEN Default[Key(r)] ELSE Value(r)
            /\ store[Key(r)] = IF Deletes(r) THEN "absent" ELSE Value(r)
    <3>1. SUFFICES ASSUME Key(r) \in Heard \ disturbed
                   PROVE  /\ field'[Key(r)] = IF Deletes(r) THEN Default[Key(r)]
                                              ELSE Value(r)
                          /\ store[Key(r)] = IF Deletes(r) THEN "absent" ELSE Value(r)
      OBVIOUS
    <3>2. Up
      BY <1>1, <2>1, <3>1 DEF AgreeInv, Quiet, Writing
    <3>3. listening
      BY <1>1, <3>2 DEF Up
    <3>4. QED
      BY <1>1, <1>9, <2>1, <3>1, <3>3 DEF Hear, Written, IsForm
  <2>3. Key(r) \in Heard \ disturbed => field'[Key(r)] = Reading(Key(r))
    BY <1>1, <2>2, Defaults DEF Reading
  <2>4. CASE FieldAfter(r)
    <3>1. pc'[r] = "field" /\ at' = at /\ req[r].kind # "delete"
      BY <1>1, <1>9, <2>4 DEF Hear, FieldAfter, Goto, Saves
    <3>2. Deletes(r) => Value(r) = Default[Key(r)]
      BY <1>1, <2>4, <3>1, BlankIsDefault
    <3>3. Key(r)' = Key(r) /\ Value(r)' = Value(r) /\ Reading(Key(r))' = Reading(Key(r))
      BY <1>2, <2>1, <3>1 DEF Key, Value, Saves, Reading
    <3>4. Written(r)'
      BY <1>1, <2>1, <2>2, <2>3, <3>1, <3>2, <3>3 DEF Written
    <3>5. QED
      BY <1>4, <2>1, <3>1, <3>4
  <2>5. CASE ~FieldAfter(r)
    <3>1. pc'[r] \in {"write", "reload", "done"}
      BY <1>1, <1>9, <2>5 DEF Hear, Advance, Goto
    <3>2. QED
      BY <1>6, <2>1, <2>3, <3>1
  <2>6. QED
    BY <2>4, <2>5
<1>10. CASE SetFieldAfter(r)
  <2>1. /\ pc[r] = "field" /\ UNCHANGED <<store, loader, disturbed>>
        /\ \A k \in Keys \ {Key(r)} : field'[k] = field[k]
        /\ field'[Key(r)] \in {field[Key(r)], Value(r)}
    BY <1>1, <1>10 DEF SetFieldAfter, SetField, history, IsForm
  <2>2. Key(r) \in Heard \ disturbed => field'[Key(r)] = Reading(Key(r))
    BY <1>1, <2>1, Defaults DEF Written, Reading
  <2>3. pc'[r] \in {"write", "reload", "done"}
    BY <1>1, <1>10 DEF SetFieldAfter, Advance, Goto
  <2>4. QED
    BY <1>6, <2>1, <2>2, <2>3
<1>11. CASE Reload(r)
  <2>1. /\ pc[r] = "reload" /\ pc'[r] = "done" /\ LoadedAt(loader') = {}
        /\ disturbed' = {k \in Keys : \E s \in Reqs : Writing(s, k)}
    BY <1>1, <1>11, LoadingGoesOn DEF Reload, Replace, Goto
  <2>2. \A k \in Heard \ disturbed', s \in Reqs : ~Writing(s, k)'
    BY <1>1, <1>2, <2>1 DEF Writing
  <2>3. AgreeInv'
    BY <2>1, <2>2 DEF AgreeInv, Quiet
  <2>4. \A s \in Reqs : Written(s)'
    BY <2>2 DEF Written, Writing
  <2>5. QED
    BY <2>3, <2>4 DEF QuietInv
<1>12. QED
  BY <1>3, <1>7, <1>8, <1>9, <1>10, <1>11 DEF Step

-----------------------------------------------------------------------------
(* The filter. *)

Active(r) == Begun(r) /\ pc[r] # "checked"
Calm == \A r \in Reqs : ~Active(r)

\* Only saves write what the filter is picked by, and they do not overlap.
PageAlone ==
    /\ ~crossed
    /\ \A r \in Reqs : ~Saves(r) => req[r].key \notin {"httpAuth", "customAuthFilter"}

\* A save that will not reload found no custom filter, and leaves none.
PlainSave(r) ==
    req[r].form.httpAuth # "custom" /\ store.httpAuth # "custom" /\ filter = "AuthFilter"

FilterInv ==
    PageAlone =>
        /\ \A r, s \in Reqs : Begun(r) /\ Begun(s) => r = s
        /\ \A r \in Reqs : Begun(r) => Up
        /\ \A r \in Reqs : Active(r) /\ ~reload[r] => PlainSave(r)
        /\ Calm /\ Up => filter = Picked
        /\ Calm /\ "httpAuth" \in LoadedAt(loader) /\ store.httpAuth = "custom"
           => field.httpAuth = "custom"

LEMMA InitFilter == Init => FilterInv
BY LoadingGoesOn DEF Init, FilterInv, Active, Begun, Up

\* No save is at work while the plugin is loaded, which reads what is stored.
LEMMA LoadFilter == TypeInv /\ FilterInv /\ Load => FilterInv'
<1> SUFFICES ASSUME TypeInv, FilterInv, Load, PageAlone' PROVE FilterInv'
  BY DEF FilterInv
<1>1. UNCHANGED <<req, pc, at, mine, reload, history>> /\ loader # "up"
  BY KeysAre DEF Load, LoadSetting, GenerateSecret, KeepLogging, Listen, PickFilter
<1>2. PageAlone /\ Calm /\ \A r \in Reqs : ~Begun(r)'
  BY <1>1 DEF PageAlone, FilterInv, Calm, Active, Begun, Saves, Up, history
<1>3. /\ IsForm(field) /\ IsStore(store) /\ "httpAuth" \in Keys
      /\ "httpAuth" \in LoadedAt(loader) /\ store["httpAuth"] = "custom"
         => field["httpAuth"] = "custom"
  BY <1>2, KeysAre DEF TypeInv, TypeOK, FilterInv
<1>4. loader' = "up" => filter' = Picked'
  <2>1. CASE PickFilter
    BY <2>1 DEF PickFilter, Picked
  <2>2. CASE ~PickFilter
    BY <2>2, KeysAre, LoadingGoesOn DEF Load, LoadSetting, GenerateSecret, KeepLogging, Listen
  <2>3. QED
    BY <2>1, <2>2
<1>5. "httpAuth" \in LoadedAt(loader') /\ store'["httpAuth"] = "custom"
      => field'["httpAuth"] = "custom"
  <2>1. CASE LoadSetting /\ loader = "httpAuth"
    BY <1>3, <2>1 DEF LoadSetting, Reading, IsForm
  <2>2. CASE LoadSetting /\ loader # "httpAuth"
    <3>1. "httpAuth" \in LoadedAt(loader') => "httpAuth" \in LoadedAt(loader)
      BY <2>2, LoadingGoesOn DEF LoadSetting
    <3>2. QED
      BY <1>3, <2>2, <3>1 DEF LoadSetting, IsForm
  <2>3. CASE GenerateSecret
    <3>1. "httpAuth" \notin LoadedAt(loader')
      BY <2>3 DEF GenerateSecret, LoadedNext, LoadedAt
    <3>2. QED
      BY <3>1
  <2>4. CASE KeepLogging \/ Listen \/ PickFilter
    <3>1. "httpAuth" \in LoadedAt(loader)
      BY <1>3, <2>4, LoadingGoesOn DEF KeepLogging, Listen, PickFilter
    <3>2. store'["httpAuth"] = store["httpAuth"] /\ field' = field
      BY <1>3, <2>4 DEF KeepLogging, Listen, PickFilter, IsStore
    <3>3. QED
      BY <1>3, <3>1, <3>2
  <2>5. QED
    BY <2>1, <2>2, <2>3, <2>4 DEF Load
<1>6. QED
  BY <1>2, <1>4, <1>5 DEF FilterInv, Active, Up

LEMMA StopFilter == TypeInv /\ Stop => FilterInv'
<1> SUFFICES ASSUME TypeInv, Stop PROVE FilterInv'
  OBVIOUS
<1>1. loader' = "secret" /\ \A r \in Reqs : pc'[r] \in {"idle", "done"}
  BY DEF Stop, Replace, TypeInv, TypeOK
<1>2. QED
  BY <1>1, LoadingGoesOn DEF FilterInv, Active, Begun, Up

LEMMA StepFilter ==
    ASSUME TypeInv, FilterInv, NEW r \in Reqs, Step(r)
    PROVE  FilterInv'
<1> SUFFICES ASSUME PageAlone' PROVE FilterInv'
  BY DEF FilterInv
<1>1. /\ IsForm(field) /\ IsStore(store) /\ Place(r) /\ "httpAuth" \in Keys
      /\ pc \in [Reqs -> Labels]
      /\ reload \in [Reqs -> BOOLEAN]
  BY KeysAre DEF TypeInv, TypeOK
<1>2. req' = req /\ PageAlone /\ \A s \in Reqs : Saves(s)' = Saves(s)
  <2>1. req' = req
    BY DEF Step, CheckClass, OpenPage, RefuseClass, ReceiveProperty, RefuseProperty, FieldBefore,
       Store, Hear, SetFieldAfter, Reload
  <2>2. ~OpenPage(r) /\ ~CheckClass(r) => crossed' = crossed
    BY DEF Step, RefuseClass, ReceiveProperty, RefuseProperty, FieldBefore, Store, Hear,
       SetFieldAfter, Reload, Begin, history
  <2>3. (OpenPage(r) \/ CheckClass(r)) /\ crossed => crossed'
    BY DEF OpenPage, CheckClass, NoteCrossing
  <2>4. QED
    BY <2>1, <2>2, <2>3 DEF PageAlone, Saves
<1>3. \A s \in Reqs \ {r} : pc'[s] = pc[s] /\ reload'[s] = reload[s]
  BY <1>1 DEF Step, CheckClass, OpenPage, RefuseClass, ReceiveProperty, RefuseProperty,
     FieldBefore, Store, Hear, SetFieldAfter, Reload, Advance, Goto
<1>4. \A s \in Reqs \ {r} : (Active(s)' <=> Active(s)) /\ (Begun(s)' <=> Begun(s))
  BY <1>2, <1>3 DEF Active, Begun
<1>5. /\ \A s, q \in Reqs : Begun(s) /\ Begun(q) => s = q
      /\ \A s \in Reqs : Begun(s) => Up
      /\ \A s \in Reqs : Active(s) /\ ~reload[s] => PlainSave(s)
      /\ Calm /\ Up => filter = Picked
      /\ Calm /\ "httpAuth" \in LoadedAt(loader) /\ store["httpAuth"] = "custom"
         => field["httpAuth"] = "custom"
  BY <1>2 DEF FilterInv
\* What a property request or a refusal does is not about the filter.
<1>6. ASSUME ~Active(r), ~Active(r)', Begun(r)' => Begun(r), UNCHANGED <<loader, filter>>,
             \A k \in {"httpAuth", "customAuthFilter"} :
                 store'[k] = store[k] /\ field'[k] = field[k]
      PROVE  FilterInv'
  <2>1. \A s \in Reqs : Active(s)' <=> Active(s)
    BY <1>4, <1>6
  <2>2. Picked' = Picked /\ (Calm' <=> Calm) /\ (Up' <=> Up)
    BY <1>6, <2>1 DEF Picked, Calm, Up
  <2>3. \A s \in Reqs : Active(s)' /\ ~reload'[s] => PlainSave(s)'
    BY <1>2, <1>3, <1>5, <1>6, <2>1 DEF PlainSave
  <2>4. \A s \in Reqs : Begun(s)' => Begun(s)
    BY <1>4, <1>6
  <2>5. QED
    BY <1>5, <1>6, <2>1, <2>2, <2>3, <2>4 DEF FilterInv
\* The steps of a save write its form.
<1>7. ASSUME Active(r), UNCHANGED <<loader, filter, reload>>,
             Active(r)' \/ ~reload[r],
             store'["httpAuth"] \in {store["httpAuth"], req[r].form["httpAuth"]}
      PROVE  FilterInv'
  <2>1. Up /\ (\A s \in Reqs \ {r} : ~Begun(s) /\ ~Begun(s)' /\ ~Active(s)') /\ Up'
    BY <1>4, <1>5, <1>7 DEF Active, Up
  <2>2. ~reload[r] => PlainSave(r)'
    BY <1>2, <1>5, <1>7 DEF PlainSave
  <2>3. CASE Active(r)'
    BY <1>4, <1>7, <2>1, <2>2, <2>3 DEF FilterInv, Calm
  <2>4. CASE ~Active(r)'
    <3>1. PlainSave(r)'
      BY <1>7, <2>2, <2>4
    <3>2. QED
      BY <1>4, <2>1, <2>4, <3>1 DEF FilterInv, PlainSave, Picked
  <2>5. QED
    BY <2>3, <2>4
\* Where the page is alone, a save that begins has no other beside it.
<1>8. CASE CheckClass(r)
  <2>1. /\ Saves(r) /\ Up /\ pc[r] = "idle" /\ pc'[r] = "checked"
        /\ UNCHANGED <<store, field, filter, loader>>
        /\ \A s \in Reqs \ {r} : ~Begun(s)
    BY <1>1, <1>8 DEF CheckClass, NoteCrossing, PageAlone, Goto
  <2>2. Calm /\ Calm' /\ \A s \in Reqs \ {r} : ~Begun(s)'
    BY <1>4, <2>1 DEF Calm, Active, Begun
  <2>3. QED
    BY <1>5, <2>1, <2>2 DEF FilterInv, Calm, Up, Picked
<1>9. CASE OpenPage(r)
  <2>1. /\ Saves(r) /\ pc'[r] = "write" /\ UNCHANGED <<store, plugin>>
        /\ pc[r] \in {"idle", "checked"} /\ (pc[r] = "idle" => Up)
        /\ reload'[r] = ("custom" \in {req[r].form["httpAuth"], field["httpAuth"]})
        /\ \A s \in Reqs \ {r} : ~Begun(s)
    BY <1>1, <1>9 DEF OpenPage, Accepted, NoteCrossing, PageAlone, Place, Goto
  <2>2. Calm /\ Up
    BY <1>5, <2>1 DEF Calm, Active, Begun
  <2>3. Begun(r)' /\ \A s \in Reqs \ {r} : ~Active(s)' /\ ~Begun(s)'
    BY <1>2, <1>4, <2>1 DEF Active, Begun
  <2>4. ~reload'[r] => PlainSave(r)'
    <3>1. "httpAuth" \in LoadedAt(loader)
      BY <1>1, <2>2, LoadingGoesOn DEF Up
    <3>2. QED
      BY <1>2, <1>5, <2>1, <2>2, <3>1 DEF PlainSave, Picked, plugin
  <2>5. Active(r)'
    BY <2>1, <2>3 DEF Active
  <2>6. QED
    BY <2>1, <2>2, <2>3, <2>4, <2>5 DEF FilterInv, Calm, Up, plugin
<1>10. CASE RefuseClass(r) \/ ReceiveProperty(r) \/ RefuseProperty(r)
  <2>1. /\ ~Active(r) /\ ~Active(r)' /\ UNCHANGED <<store, plugin>>
        /\ Begun(r)' => Begun(r)
    BY <1>1, <1>2, <1>10 DEF RefuseClass, ReceiveProperty, RefuseProperty, Active, Begun, Goto
  <2>2. QED
    BY <1>6, <2>1 DEF plugin
<1>11. CASE FieldBefore(r)
  BY <1>1, <1>2, <1>7, <1>11 DEF FieldBefore, Active, Begun, Goto
<1>12. CASE Store(r)
  <2>1. /\ store' = [store EXCEPT ![Key(r)] = IF Deletes(r) THEN "absent" ELSE Value(r)]
        /\ pc'[r] = "event" /\ UNCHANGED <<plugin, reload>> /\ pc[r] \in {"store", "write"}
    BY <1>1, <1>12 DEF Store, Goto
  <2>2. CASE Saves(r)
    <3>1. Key(r) = "httpAuth" => ~Deletes(r)
      BY <2>2, RequestTypes, Blanks DEF Deletes, Saves, TypeInv
    <3>2. store'["httpAuth"] \in {store["httpAuth"], req[r].form["httpAuth"]}
      BY <1>1, <2>1, <2>2, <3>1 DEF IsStore, Value, Saves
    <3>3. QED
      BY <1>2, <1>7, <2>1, <2>2, <3>2 DEF Active, Begun, plugin
  <2>3. CASE ~Saves(r)
    <3>1. Key(r) \notin {"httpAuth", "customAuthFilter"} /\ "customAuthFilter" \in Keys
      BY <1>2, <2>3, KeysAre DEF PageAlone, Key
    <3>2. QED
      BY <1>1, <1>2, <1>6, <2>1, <2>3, <3>1 DEF Active, Begun, plugin, IsStore
  <2>4. QED
    BY <2>2, <2>3
<1>13. CASE Hear(r)
  <2>1. CASE Saves(r)
    <3>1. Active(r)' \/ ~reload[r]
      BY <1>1, <1>2, <1>13, <2>1 DEF Hear, Advance, Active, Begun, Goto
    <3>2. QED
      BY <1>7, <1>13, <2>1, <3>1 DEF Hear, Active, Begun
  <2>2. CASE ~Saves(r)
    <3>1. Key(r) \notin {"httpAuth", "customAuthFilter"} /\ "customAuthFilter" \in Keys
      BY <1>2, <2>2, KeysAre DEF PageAlone, Key
    <3>2. \A k \in {"httpAuth", "customAuthFilter"} : field'[k] = field[k]
      BY <1>1, <1>13, <3>1 DEF Hear, IsForm
    <3>3. QED
      BY <1>2, <1>6, <1>13, <2>2, <3>2 DEF Hear, Active, Begun
  <2>3. QED
    BY <2>1, <2>2
<1>14. CASE SetFieldAfter(r)
  <2>1. Active(r) /\ (Active(r)' \/ ~reload[r])
    BY <1>1, <1>2, <1>14 DEF SetFieldAfter, Advance, Active, Begun, Place, Goto
  <2>2. QED
    BY <1>7, <1>14, <2>1 DEF SetFieldAfter
<1>15. CASE Reload(r)
  <2>1. Begun(r) /\ ~Begun(r)' /\ loader' = "secret"
    BY <1>1, <1>15 DEF Reload, Replace, Active, Begun, Place, Goto
  <2>2. \A s \in Reqs : ~Begun(s)' /\ ~Active(s)'
    BY <1>4, <1>5, <2>1 DEF Active
  <2>3. QED
    BY <2>1, <2>2, LoadingGoesOn DEF FilterInv, Up
<1>16. QED
  BY <1>9, <1>10, <1>8, <1>11, <1>12, <1>13, <1>14, <1>15 DEF Step

-----------------------------------------------------------------------------
(* The theorems. *)

IInv == TypeInv /\ QuietInv /\ FilterInv

LEMMA NextInv == IInv /\ [Next]_vars => IInv'
<1> SUFFICES ASSUME IInv, [Next]_vars PROVE IInv'
  OBVIOUS
<1>1. CASE UNCHANGED vars
  <2>1. UNCHANGED <<store, field, filter, refusing, listening, loader, live, stops, req, pc, at, mine,
                    reload, disturbed, crossed>>
    BY <1>1 DEF vars, plugin, history
  <2>2. TypeInv'
    <3>1. TypeOK'
      BY <2>1 DEF IInv, TypeInv, TypeOK
    <3>2. \A r \in Reqs : Place(r)'
      BY <2>1 DEF IInv, TypeInv, Place, Saves, Key
    <3>3. QED
      BY <2>1, <3>1, <3>2 DEF IInv, TypeInv
  <2>3. QuietInv'
    <3>1. \A r \in Reqs : /\ Key(r)' = Key(r) /\ Value(r)' = Value(r) /\ Deletes(r)' = Deletes(r)
                          /\ \A k : Writing(r, k)' = Writing(r, k)
      BY <2>1 DEF Saves, Key, Value, Deletes, Writing
    <3>2. \A k : Reading(k)' = Reading(k) /\ Quiet(k)' = Quiet(k)
      BY <2>1, <3>1 DEF Reading, Quiet
    <3>3. QED
      BY <2>1, <3>1, <3>2 DEF IInv, QuietInv, AgreeInv, Written, Up
  <2>4. FilterInv'
    BY <2>1 DEF IInv, FilterInv, PageAlone, PlainSave, Calm, Active, Begun, Saves, Up, Picked
  <2>5. QED
    BY <2>2, <2>3, <2>4 DEF IInv
<1>2. CASE Load
  BY <1>2, LoadTypes, LoadQuiet, LoadFilter DEF IInv
<1>3. CASE Stop
  BY <1>3, StopTypes, StopQuiet, StopFilter DEF IInv
<1>4. ASSUME NEW r \in Reqs, Step(r) PROVE IInv'
  BY <1>4, StepTypes, StepQuiet, StepFilter DEF IInv
<1>5. QED
  BY <1>1, <1>2, <1>3, <1>4 DEF Next, Drained

\* However requests, loading and stops interleave, IInv holds.
LEMMA Invariance == Spec => []IInv
<1>1. Init => IInv
  BY InitTypes, InitQuiet, InitFilter DEF IInv
<1>2. QED
  BY <1>1, NextInv, PTL DEF Spec

\* Every variable has its type.
THEOREM TypeSafety == Spec => []TypeOK
<1>1. IInv => TypeOK
  BY DEF IInv, TypeInv
<1>2. QED
  BY <1>1, Invariance, PTL

\* The field and the property of a setting agree whenever nobody writes it, unless two
\* writes of it overlapped, or one a loading of the plugin, and none made that good.
THEOREM QuietAgree == Spec => []QuietSettingsAgree
<1>1. IInv => QuietSettingsAgree
  BY LoadingGoesOn DEF IInv, QuietInv, AgreeInv, QuietSettingsAgree, Quiet, Up, Heard
<1>2. QED
  BY <1>1, Invariance, PTL

\* Saves that do not overlap, with stops of the server anywhere between their steps,
\* leave the filter in force that is stored.
THEOREM FilterIsStored == Spec => []FilterIsTheStoredOne
<1>1. IInv => FilterIsTheStoredOne
  BY DEF IInv, FilterInv, FilterIsTheStoredOne, PageAlone, Calm, Active, Begun
<1>2. QED
  BY <1>1, Invariance, PTL
=============================================================================
