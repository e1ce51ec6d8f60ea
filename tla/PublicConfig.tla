---------------------------- MODULE PublicConfig ----------------------------
(***************************************************************************)
(* The configuration of config/init.go: it is loaded from the environment  *)
(* before the server starts, and the goroutines of config/ip.go look up    *)
(* the public addresses and the location beside the server.  They assign   *)
(* fields of the global Config, which buildClientConfig of                 *)
(* als/controller/session/session.go reads without synchronisation each    *)
(* time the page connects.                                                 *)
(*                                                                         *)
(* An address is Unset, what the environment says, or what was looked up.  *)
(* The assignment of a string is two words: a read beside it finds the old *)
(* one, the new one, or a length without its bytes.                        *)
(***************************************************************************)
CONSTANT FeatureChoices   \* the sets of features the environment may ask for

Unset == "unset"
Configured == "configured"
Found == "found"
Torn == "torn"

Fields == {"location", "ipv4", "ipv6"}

VARIABLES
  environment, \* what the variables LOCATION, PUBLIC_IPV4 and PUBLIC_IPV6 say
  features,    \* the features that are on
  Config,      \* the three fields
  upc,         \* where the goroutine of LoadWebConfig is
  lookup,      \* where the goroutines of updatePublicIP are
  storing,     \* the fields that are being assigned
  page,        \* the field the handler of the page's stream reads next
  reading,     \* what it has read
  shown        \* what the page shows

configVars == <<environment, features, Config, upc, lookup, storing>>
pageVars == <<page, reading, shown>>
publicVars == <<configVars, pageVars>>

Nothing == [f \in Fields |-> Unset]

Init ==
  /\ environment \in [Fields -> {Unset, Configured}]
  /\ features \in FeatureChoices
  /\ Config = Nothing
  /\ upc = "none"
  /\ lookup = [f \in {"ipv4", "ipv6"} |-> "none"]
  /\ storing = {}
  /\ page = "away"
  /\ reading = Nothing
  /\ shown = Nothing

-----------------------------------------------------------------------------
(* LoadWebConfig. *)

(* Mutant: the look-ups run unless both addresses are configured.           *)
NeedsLookupOfEither == environment["ipv4"] = Unset \/ environment["ipv6"] = Unset

NeedsLookup == environment["ipv4"] = Unset /\ environment["ipv6"] = Unset

(* Load; iperf3 is switched off when it is not installed; the goroutine     *)
(* starts only when neither address is configured.                          *)
LoadWebConfig ==
  /\ upc = "none"
  /\ Config' = environment
  /\ features' \in {features, features \ {"iperf3"}}
  /\ upc' = IF NeedsLookup THEN "addresses" ELSE "done"
  /\ UNCHANGED <<environment, lookup, storing, pageVars>>

(* updatePublicIP returns when it has started its two goroutines. *)
UpdatePublicIP ==
  /\ upc = "addresses"
  /\ lookup' = [f \in {"ipv4", "ipv6"} |-> "dns"]
  /\ upc' = "location"
  /\ UNCHANGED <<environment, features, Config, storing, pageVars>>

(* The location is looked up unless it is configured, and may not be found. *)
UpdateLocation ==
  /\ upc = "location"
  /\ \/ upc' = "done" /\ UNCHANGED storing
     \/ /\ Config["location"] = Unset
        /\ upc' = "store"
        /\ storing' = storing \cup {"location"}
  /\ UNCHANGED <<environment, features, Config, lookup, pageVars>>

StoreLocation ==
  /\ upc = "store"
  /\ Config' = [Config EXCEPT !["location"] = Found]
  /\ storing' = storing \ {"location"}
  /\ upc' = "done"
  /\ UNCHANGED <<environment, features, lookup, pageVars>>

(* The address is found. *)
LookupFinds(f) ==
  /\ lookup[f] \in {"dns", "http"}
  /\ lookup' = [lookup EXCEPT ![f] = "store"]
  /\ storing' = storing \cup {f}
  /\ UNCHANGED <<environment, features, Config, upc, pageVars>>

(* It is not: only the IPv4 address is also asked for over HTTP. *)
LookupFails(f) ==
  /\ lookup[f] \in {"dns", "http"}
  /\ lookup' = [lookup EXCEPT ![f] = IF f = "ipv4" /\ @ = "dns" THEN "http" ELSE "done"]
  /\ UNCHANGED <<environment, features, Config, upc, storing, pageVars>>

StoreAddress(f) ==
  /\ lookup[f] = "store"
  /\ Config' = [Config EXCEPT ![f] = Found]
  /\ storing' = storing \ {f}
  /\ lookup' = [lookup EXCEPT ![f] = "done"]
  /\ UNCHANGED <<environment, features, upc, pageVars>>

Lookups ==
  \/ UpdatePublicIP \/ UpdateLocation \/ StoreLocation
  \/ \E f \in {"ipv4", "ipv6"} : LookupFinds(f) \/ LookupFails(f) \/ StoreAddress(f)

-----------------------------------------------------------------------------
(* The page and the handler of its stream. *)

(* A GET /session, once the server is up; buildClientConfig copies field    *)
(* after field.                                                             *)
Connect ==
  /\ upc # "none"
  /\ page = "away"
  /\ page' = "location"
  /\ UNCHANGED <<configVars, reading, shown>>

After == [location |-> "ipv4", ipv4 |-> "ipv6", ipv6 |-> "send"]

ReadField ==
  /\ page \in Fields
  /\ \E value \in {Config[page]} \cup (IF page \in storing THEN {Found, Torn} ELSE {}) :
       reading' = [reading EXCEPT ![page] = value]
  /\ page' = After[page]
  /\ UNCHANGED <<configVars, shown>>

(* json.Marshal faults on a torn string: gin recovers, the stream ends.     *)
MarshalPanics ==
  /\ page = "send"
  /\ \E f \in Fields : reading[f] = Torn
  /\ page' = "away"
  /\ reading' = Nothing
  /\ UNCHANGED <<configVars, shown>>

(* The event Config. *)
SendConfig ==
  /\ page = "send"
  /\ \A f \in Fields : reading[f] # Torn
  /\ shown' = reading
  /\ page' = "open"
  /\ reading' = Nothing
  /\ UNCHANGED configVars

(* Mutant: httpWriteTimeout = 0.                                            *)
StreamLastsForever ==
  /\ page = "open"
  /\ UNCHANGED publicVars

(* httpWriteTimeout after the request was read every write fails: the       *)
(* stream of a page lasts ten minutes at most, and the page reconnects.     *)
StreamIsCut ==
  /\ page = "open"
  /\ page' = "away"
  /\ UNCHANGED <<configVars, reading, shown>>

Page == Connect \/ ReadField \/ MarshalPanics \/ SendConfig \/ StreamIsCut

Next == LoadWebConfig \/ Lookups \/ Page

Spec == Init /\ [][Next]_publicVars

-----------------------------------------------------------------------------
(* The type invariant.                                                      *)
TypeOK ==
  /\ environment \in [Fields -> {Unset, Configured}]
  /\ Config \in [Fields -> {Unset, Configured, Found}]
  /\ upc \in {"none", "addresses", "location", "store", "done"}
  /\ lookup \in [{"ipv4", "ipv6"} -> {"none", "dns", "http", "store", "done"}]
  /\ storing \subseteq Fields
  /\ page \in Fields \cup {"away", "send", "open"}
  /\ reading \in [Fields -> {Unset, Configured, Found, Torn}]
  /\ shown \in [Fields -> {Unset, Configured, Found}]

(* init.go:86-90: what the operator has configured is what pages are told,  *)
(* whatever the look-ups find: an address that is configured alone is not   *)
(* replaced by one that was looked up for the sake of the other.            *)
ConfiguredIsKept ==
  upc # "none" =>
    \A f \in Fields : environment[f] = Configured =>
      Config[f] = Configured /\ shown[f] \in {Unset, Configured}

-----------------------------------------------------------------------------
(* The inductive invariant of ServerProcessProofs. *)

(* A field that is being assigned has its goroutine at the assignment.      *)
StoringIsAtStore ==
  /\ "location" \in storing => upc = "store"
  /\ \A f \in {"ipv4", "ipv6"} : f \in storing => lookup[f] = "store"

(* Nothing is looked up that must not be.                                   *)
LookupsAreNeeded ==
  /\ upc = "none" => Config = Nothing /\ shown = Nothing /\ page = "away" /\ reading = Nothing
  /\ upc \in {"none", "addresses"} \/ ~NeedsLookup =>
       \A f \in {"ipv4", "ipv6"} : lookup[f] = "none"
  /\ ~NeedsLookup => upc \in {"none", "done"}
  /\ upc = "store" => environment["location"] = Unset

(* What was configured is in place, and pages have read nothing else.       *)
ConfiguredIsInPlace ==
  upc # "none" =>
    \A f \in Fields : environment[f] = Configured =>
      /\ Config[f] = Configured
      /\ f \notin storing
      /\ {reading[f], shown[f]} \subseteq {Unset, Configured}

Inv ==
  /\ TypeOK
  /\ StoringIsAtStore
  /\ LookupsAreNeeded
  /\ ConfiguredIsInPlace
=============================================================================
