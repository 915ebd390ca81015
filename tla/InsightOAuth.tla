---------------------------- MODULE InsightOAuth ----------------------------
(***************************************************************************)
(* The GitHub device flow of insight (oauth.rs) for one user and scope:    *)
(* start admits a generation, a spawned poller waits for the token and     *)
(* stores it, and disconnecting removes the flow first and the stored      *)
(* token later.  GitHub is external.                                       *)
(***************************************************************************)
EXTENDS Naturals

CONSTANTS
    MaxGenerations,  \* bound: calls of start
    Disconnects      \* calls of cancel over time

\* What the constants of an instance satisfy.
ASSUME OAuthAssumption == MaxGenerations \in Nat \ {0}

VARIABLES
    flow,        \* the entry of flows: [generation, status], or NoFlow
    device,      \* per generation: where its start or its poller is
    aborted,     \* generations whose cancellation token fired
    lapsed,      \* generations whose expires_at has passed
    tokenRow,    \* generation whose token insight_user_settings has, 0: none
    leaving,     \* per disconnect: "idle", "removed", "done"
    revokedUpTo, \* the last generation a completed disconnect was about
    entitled,    \* authorize allows the user
    oauthStopped

oauthVars == <<flow, device, aborted, lapsed, tokenRow, leaving, revokedUpTo, entitled, oauthStopped>>

Generations == 1..MaxGenerations
NoFlow == [generation |-> 0, status |-> "none"]
Statuses == {"none", "pending", "success", "error", "expired", "cancelled"}
Started == {g \in Generations : device[g] # "unused"}
Cancelled(g) == g \in aborted \/ oauthStopped

OAuthTypeOK ==
    /\ flow.generation \in 0..MaxGenerations /\ flow.status \in Statuses
    /\ tokenRow \in 0..MaxGenerations /\ aborted \cup lapsed \subseteq Generations

---------------------------------------------------------------------------
(* start: the new generation replaces the flow before GitHub is asked. *)

StartFlow(g) ==
    /\ device[g] = "unused" /\ Started = 1..(g - 1) /\ entitled
    /\ aborted' = aborted \cup (IF flow = NoFlow THEN {} ELSE {flow.generation})
    /\ flow' = [generation |-> g, status |-> "pending"]
    /\ device' = [device EXCEPT ![g] = "code"]
    /\ UNCHANGED <<lapsed, tokenRow, leaving, revokedUpTo, entitled, oauthStopped>>

\* The code arrived; authority and generation are asked again, then the poller
\* takes over from the admission guard.
CodeArrives(g) ==
    /\ device[g] = "code" /\ entitled
    /\ flow.generation = g /\ ~Cancelled(g)
    /\ device' = [device EXCEPT ![g] = "poll"]
    /\ UNCHANGED <<flow, aborted, lapsed, tokenRow, leaving, revokedUpTo, entitled, oauthStopped>>

\* An error or a dropped request: the guard removes only its own generation.
AdmissionDropped(g) ==
    /\ device[g] = "code"
    /\ device' = [device EXCEPT ![g] = "over"]
    /\ aborted' = aborted \cup {g}
    /\ flow' = IF flow.generation = g THEN NoFlow ELSE flow
    /\ UNCHANGED <<lapsed, tokenRow, leaving, revokedUpTo, entitled, oauthStopped>>

---------------------------------------------------------------------------
(* poll *)

\* finish writes the status of its own generation.
Ended(g, status) ==
    /\ device' = [device EXCEPT ![g] = "over"]
    /\ flow' = IF flow.generation = g THEN [flow EXCEPT !.status = status] ELSE flow
    /\ UNCHANGED <<aborted, lapsed, tokenRow, leaving, revokedUpTo, entitled, oauthStopped>>

\* What can end a poller while it waits for GitHub or for the database.
PollEnds(g) ==
    /\ device[g] \in {"poll", "token"}
    /\ \/ Cancelled(g) /\ Ended(g, "cancelled")
       \/ g \in lapsed /\ Ended(g, "expired")
       \/ Ended(g, "error")

\* GitHub hands out the token; the user's name is looked up.
TokenArrives(g) ==
    /\ device[g] = "poll" /\ flow.generation = g /\ ~Cancelled(g) /\ g \notin lapsed /\ entitled
    /\ device' = [device EXCEPT ![g] = "token"]
    /\ UNCHANGED <<flow, aborted, lapsed, tokenRow, leaving, revokedUpTo, entitled, oauthStopped>>

Connected == {g \in Generations : device[g] = "connected"}

\* The database is waited for without the lock on the flows.
ConnectionAcquired(g) ==
    /\ device[g] = "token" /\ Connected = {} /\ ~Cancelled(g) /\ g \notin lapsed
    /\ device' = [device EXCEPT ![g] = "connected"]
    /\ UNCHANGED <<flow, aborted, lapsed, tokenRow, leaving, revokedUpTo, entitled, oauthStopped>>

Current(g) == flow.generation = g

\* Mutant of Live: nothing is compared again once the database is held.
LiveOnce(g) == g \notin lapsed

\* Generation, cancellation and expiry, under the lock of the flows that is kept
\* until the transaction ends.
Live(g) == Current(g) /\ ~Cancelled(g) /\ g \notin lapsed

Persist(g) ==
    /\ device[g] = "connected"
    /\ device' = [device EXCEPT ![g] = "over"]
    /\ tokenRow' = IF Live(g) /\ entitled THEN g ELSE tokenRow
    /\ flow' = CASE ~Current(g) -> flow
                 [] Current(g) /\ Live(g) /\ entitled -> [flow EXCEPT !.status = "success"]
                 [] OTHER -> [flow EXCEPT !.status = CASE Cancelled(g) -> "cancelled"
                                                       [] g \in lapsed /\ ~Cancelled(g) -> "expired"
                                                       [] OTHER -> "error"]
    /\ UNCHANGED <<aborted, lapsed, leaving, revokedUpTo, entitled, oauthStopped>>

---------------------------------------------------------------------------
(* cancel, and the surroundings. *)

RemoveFlow(d) ==
    /\ leaving[d].pc = "idle"
    /\ aborted' = aborted \cup (IF flow = NoFlow THEN {} ELSE {flow.generation})
    /\ flow' = NoFlow
    /\ leaving' = [leaving EXCEPT ![d] = [pc |-> "removed", upTo |-> IF flow = NoFlow THEN 0 ELSE flow.generation]]
    /\ UNCHANGED <<device, lapsed, tokenRow, revokedUpTo, entitled, oauthStopped>>

\* The statement runs on a connection that a persisting poller may hold.
ClearToken(d) ==
    /\ leaving[d].pc = "removed" /\ Connected = {}
    /\ leaving' = [leaving EXCEPT ![d].pc = "done"]
    /\ IF entitled
       THEN /\ tokenRow' = 0
            /\ revokedUpTo' = IF leaving[d].upTo > revokedUpTo THEN leaving[d].upTo ELSE revokedUpTo
       ELSE UNCHANGED <<tokenRow, revokedUpTo>>
    /\ UNCHANGED <<flow, device, aborted, lapsed, entitled, oauthStopped>>

Lapse(g) ==
    /\ g \in Started \ lapsed /\ lapsed' = lapsed \cup {g}
    /\ UNCHANGED <<flow, device, aborted, tokenRow, leaving, revokedUpTo, entitled, oauthStopped>>

ChangeEntitlement ==
    /\ entitled' = ~entitled
    /\ UNCHANGED <<flow, device, aborted, lapsed, tokenRow, leaving, revokedUpTo, oauthStopped>>

StopOAuth ==
    /\ ~oauthStopped /\ oauthStopped' = TRUE
    /\ UNCHANGED <<flow, device, aborted, lapsed, tokenRow, leaving, revokedUpTo, entitled>>

OAuthInit ==
    /\ flow = NoFlow /\ device = [g \in Generations |-> "unused"] /\ aborted = {} /\ lapsed = {}
    /\ tokenRow = 0 /\ leaving = [d \in Disconnects |-> [pc |-> "idle", upTo |-> 0]] /\ revokedUpTo = 0
    /\ entitled = TRUE /\ oauthStopped = FALSE

OAuthNext ==
    \/ \E g \in Generations :
           \/ StartFlow(g) \/ CodeArrives(g) \/ AdmissionDropped(g) \/ PollEnds(g) \/ TokenArrives(g)
           \/ ConnectionAcquired(g) \/ Persist(g) \/ Lapse(g)
    \/ \E d \in Disconnects : RemoveFlow(d) \/ ClearToken(d)
    \/ ChangeEntitlement \/ StopOAuth

OAuthSpec == OAuthInit /\ [][OAuthNext]_oauthVars

---------------------------------------------------------------------------
(* Properties. *)

\* What a step may store.
TokenStep ==
    tokenRow' \notin {tokenRow, 0} =>
        flow' = [generation |-> tokenRow', status |-> "success"] /\ tokenRow' > revokedUpTo

\* A token is stored only as the success of the flow the user is shown, and of none
\* that a completed disconnect was about: the poller of a flow that was replaced or
\* disconnected, wherever it was waiting, never brings a token back (oauth.rs). The
\* types of the variables hold.
NoTokenReturns == [][TokenStep /\ OAuthTypeOK']_oauthVars
=============================================================================
