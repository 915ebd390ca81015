---------------------------- MODULE MCDownloads -----------------------------
(***************************************************************************)
(* The download service and the components around it, side by side: the    *)
(* durable queue, alone or with the workers, the cache, the credentials    *)
(* and the network profile, the settings, the content policy and the       *)
(* dialogs, which this module extends, and the albums. They share no state *)
(* in the code but what each module says, so a behaviour is about one of   *)
(* them: `component` is chosen at the start and the others stay where they *)
(* begin.                                                                  *)
(***************************************************************************)
EXTENDS DownloadService, NetworkProfile, MediaCache, Credentials, Settings, ContentPolicy, Dialogs, TLC

CONSTANTS
    Components,     \* the components a run explores
    x1, x2, x3      \* handlers, operations, sessions, ...; x1 and x2 are interchangeable

VARIABLES
    component,      \* the component this behaviour is about
    s1, s2, s3, s4, s5, s6, s7, s8   \* its variables, in the order of its module

\* The variables a component leaves alone.
From1 == <<s1, s2, s3, s4, s5, s6, s7, s8>>
Unused1 == s1 = 0 /\ s2 = 0 /\ s3 = 0 /\ s4 = 0 /\ s5 = 0 /\ s6 = 0 /\ s7 = 0 /\ s8 = 0

suiteVars == <<component, serviceVars, networkVars, cacheVars, credentialVars, settingsVars, policyVars, dialogVars, s1, s2, s3, s4, s5, s6, s7, s8>>

-----------------------------------------------------------------------------
(* Instances. *)

\* Operations of one owner behind one bot.
OneActor == [o \in Op |-> "a"]
OneBot == [o \in Op |-> "b"]

\* Three operations on one key, a /uncache of its source and one of another.
OneKey == [o \in Operations |-> "k1"]
TwoSources == "k1" :> "u" @@ "k2" :> "v"
TwoClears == <<"u", "v">>

\* A document, a removal and a url, sent in this order, within one second.
ThreeMessages == <<"document", "remove", "url">>
OneSecond == seconds' <= 1

\* Two pages: the web application and a menu, or two menus.
TwoPages == {<<"web", "proxy">>, <<"clean", "lang">>, <<"prefs", "subs">>}

\* One of the first states, for the behaviours that are about something else.
PlainNetwork == role = "user" /\ ~automatic
PlainPages == pageKind = <<"web", "proxy">>
PlainDelivery == \A d \in Judged : delivery[d] = [chat |-> "group", host |-> "x.org", words |-> {}, force |-> FALSE,
                                                sent |-> 0, at |-> "between", verdict |-> "plain"]


\* Every list of up to five artifacts, albums of three.
Albums == INSTANCE Albums WITH
    MaxUnit <- 3, MaxArtifacts <- 5,
    mediaTypes <- s1, asFile <- s2, replayed <- s3, albums <- s4, albumsSent <- s5,
    albumReceipts <- s6, albumMessages <- s7, albumAt <- s8

ASSUME InstancesAssumption ==
    /\ NetworkAssumption
    /\ MediaCacheAssumption
    /\ CredentialsAssumption
    /\ SettingsAssumption
    /\ PolicyAssumption
    /\ DialogAssumption
    /\ Albums!AlbumsAssumption

-----------------------------------------------------------------------------
(* One component per behaviour. *)

SuiteInit ==
    /\ component \in Components
    /\ ServiceInit
    /\ NetworkInit /\ (component = "network" \/ PlainNetwork)
    /\ MediaCacheInit
    /\ CredentialsInit
    /\ SettingsInit /\ (component = "settings" \/ PlainPages)
    /\ PolicyInit /\ (component = "policy" \/ PlainDelivery)
    /\ DialogInit /\ (component = "dialogs" \/ asks)
    /\ \/ component = "queue" /\ Unused1
       \/ component = "service" /\ Unused1
       \/ component = "network" /\ Unused1
       \/ component = "cache" /\ Unused1
       \/ component = "cookies" /\ Unused1
       \/ component = "device" /\ Unused1
       \/ component = "settings" /\ Unused1
       \/ component = "policy" /\ Unused1
       \/ component = "dialogs" /\ Unused1
       \/ component = "albums" /\ Albums!AlbumsInit

SuiteNext ==
    \/ component = "queue" /\ Next /\ UNCHANGED <<worker, stopping, wire, chat, faults>> /\ UNCHANGED <<component, networkVars, cacheVars, credentialVars, settingsVars, policyVars, dialogVars, From1>>
    \/ component = "service" /\ ServiceNext /\ UNCHANGED <<component, networkVars, cacheVars, credentialVars, settingsVars, policyVars, dialogVars, From1>>
    \/ component = "network" /\ NetworkNext /\ UNCHANGED <<component, serviceVars, cacheVars, credentialVars, settingsVars, policyVars, dialogVars, From1>>
    \/ component = "cache" /\ MediaCacheNext /\ UNCHANGED <<component, serviceVars, networkVars, credentialVars, settingsVars, policyVars, dialogVars, From1>>
    \/ component = "cookies" /\ CookiesNext /\ OneSecond /\ UNCHANGED <<component, serviceVars, networkVars, cacheVars, settingsVars, policyVars, dialogVars, From1>>
    \/ component = "device" /\ DeviceNext /\ UNCHANGED <<component, serviceVars, networkVars, cacheVars, settingsVars, policyVars, dialogVars, From1>>
    \/ component = "settings" /\ SettingsNext /\ UNCHANGED <<component, serviceVars, networkVars, cacheVars, credentialVars, policyVars, dialogVars, From1>>
    \/ component = "policy" /\ PolicyNext /\ UNCHANGED <<component, serviceVars, networkVars, cacheVars, credentialVars, settingsVars, dialogVars, From1>>
    \/ component = "dialogs" /\ DialogNext /\ UNCHANGED <<component, serviceVars, networkVars, cacheVars, credentialVars, settingsVars, policyVars, From1>>
    \/ component = "albums" /\ Albums!AlbumsNext /\ UNCHANGED <<component, serviceVars, networkVars, cacheVars, credentialVars, settingsVars, policyVars, dialogVars>>

SuiteSpec == SuiteInit /\ [][SuiteNext]_suiteVars

\* x1 and x2 are interchangeable in every component.
PairSymmetry == Permutations({x1, x2})

-----------------------------------------------------------------------------
(* Properties. *)

\* Three artifacts with a change of category: an album and a unit of one.
TwoUnits == {Albums!PlanCategories(<<"visual", "visual", "audio">>)}

\* What is offered is accepted: the sender never refuses a unit the planner formed, a
\* confirmed delivery is what the cache will replay, and no handler refuses a button
\* that the present row shows (plan_delivery_units, preflight; the keyboards of cut.rs
\* and quality.rs).
OffersAreAccepted ==
    /\ component = "albums" => Albums!AlbumsAreSendable
    /\ component = "dialogs" => ButtonsWork
=============================================================================
