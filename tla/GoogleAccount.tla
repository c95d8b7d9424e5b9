--------------------------- MODULE GoogleAccount ---------------------------
(***************************************************************************)
(* The Google connection in a user's row.  Four parties write it, each     *)
(* from a read of its own and none with a version: the OAuth callback      *)
(* (api/google_oauth.py), the dashboard's disconnect, and google_api_call, *)
(* which stores a refreshed access token or clears a connection Google     *)
(* refuses.  The ORM writes only the columns that differ from what it read.*)
(***************************************************************************)
EXTENDS Naturals, FiniteSets

CONSTANTS
    Service,        \* calendar, gmail
    Visit,          \* visits of connection links, from link to callback
    Call,           \* Google API calls in progress
    MaxUses,        \* _MAX_USES of a link
    MaxLinks,       \* bound: links issued
    MaxGrants,      \* bound: consents given
    MaxRefusals     \* bound: 401/403 for a token that is good

(* To be assumed of the constants. *)
GoogleAssumption == Service # {} /\ {MaxUses, MaxLinks, MaxGrants, MaxRefusals} \subseteq Nat

VARIABLES
    row,        \* users: scopes, access and refresh token, by number of consent
    uses,       \* uses[s]: visits the issued links for s still allow (Redis)
    visit, call,
    leaving,    \* the request to disconnect a service
    granted,    \* what Google has granted the application (external)
    good,       \* consents whose refresh token Google honours (external)
    issued, made, refusals,
    crossed     \* history: a write of this row overtook another's

vars == <<row, uses, visit, call, leaving, granted, good, issued, made, refusals, crossed>>
google == <<granted, good>>
bounds == <<issued, made, refusals>>

Consent == 0..MaxGrants     \* 0: none
Row == [scopes : SUBSET Service, access : Consent, refresh : Consent]
NoRow == [scopes |-> {}, access |-> 0, refresh |-> 0]

TypeOK ==
    /\ row \in Row /\ uses \in [Service -> 0..(MaxUses * MaxLinks)]
    /\ visit \in [Visit -> [pc : {"idle", "started", "consented", "read"}, service : Service,
                            consent : Consent, got : SUBSET Service, seen : SUBSET Service]]
    /\ call \in [Call -> [pc : {"idle", "sent", "refused"}, access : Consent,
                          refresh : Consent]]
    /\ leaving \in [pc : {"idle", "read", "revoked"}, service : Service, seen : Row]
    /\ granted \subseteq Service /\ good \subseteq Consent
    /\ issued \in 0..MaxLinks /\ made \in Consent /\ refusals \in 0..MaxRefusals
    /\ crossed \in BOOLEAN

Some == CHOOSE s \in Service : TRUE
NoVisit == [pc |-> "idle", service |-> Some, consent |-> 0, got |-> {}, seen |-> {}]
NoCall  == [pc |-> "idle", access |-> 0, refresh |-> 0]
Staying == [pc |-> "idle", service |-> Some, seen |-> NoRow]

-----------------------------------------------------------------------------
(* Connecting.                                                             *)

(* create_ephemeral_token. *)
LinkIssued(s) ==
    /\ issued < MaxLinks /\ issued' = issued + 1
    /\ uses' = [uses EXCEPT ![s] = @ + MaxUses]
    /\ UNCHANGED <<row, visit, call, leaving, google, made, refusals, crossed>>

(* validate_ephemeral_token: DECR lets MaxUses visits pass; each stores an *)
(* OAuth state of its own.                                                 *)
LinkVisited(v, s) ==
    /\ visit[v].pc = "idle" /\ uses[s] > 0
    /\ uses' = [uses EXCEPT ![s] = @ - 1]
    /\ visit' = [visit EXCEPT ![v] = [NoVisit EXCEPT !.pc = "started", !.service = s]]
    /\ UNCHANGED <<row, call, leaving, google, bounds, crossed>>

(* Consent was refused, or the OAuth state expired. *)
VisitEnds(v) ==
    /\ visit[v].pc = "started"
    /\ visit' = [visit EXCEPT ![v] = NoVisit]
    /\ UNCHANGED <<row, uses, call, leaving, google, bounds, crossed>>

(* include_granted_scopes: Google answers with all it has granted. *)
Consents(v) ==
    /\ visit[v].pc = "started" /\ made < MaxGrants
    /\ made' = made + 1 /\ good' = good \cup {made + 1}
    /\ granted' = granted \cup {visit[v].service}
    /\ visit' = [visit EXCEPT ![v].pc = "consented", ![v].consent = made + 1,
                              ![v].got = granted']
    /\ UNCHANGED <<row, uses, call, leaving, issued, refusals, crossed>>

(* The OAuth state is consumed, the code exchanged, the user read. *)
CallbackReads(v) ==
    /\ visit[v].pc = "consented"
    /\ visit' = [visit EXCEPT ![v].pc = "read", ![v].seen = row.scopes]
    /\ UNCHANGED <<row, uses, call, leaving, google, bounds, crossed>>

(* Scopes are merged with those read; they are not written if that is no   *)
(* change.                                                                 *)
CallbackCommits(v) ==
    LET f == visit[v] IN
    /\ f.pc = "read"
    /\ row' = [scopes |-> IF f.got \subseteq f.seen THEN row.scopes ELSE f.seen \cup f.got,
               access |-> f.consent, refresh |-> f.consent]
    /\ crossed' = (crossed \/ row.scopes # f.seen)
    /\ visit' = [visit EXCEPT ![v] = NoVisit]
    /\ UNCHANGED <<uses, call, leaving, google, bounds>>

-----------------------------------------------------------------------------
(* disconnect_integration.                                                 *)

Remaining == leaving.seen.scopes \ {leaving.service}

DisconnectReads(s) ==
    /\ leaving.pc = "idle"
    /\ leaving' = [pc |-> "read", service |-> s, seen |-> row]
    /\ UNCHANGED <<row, uses, visit, call, google, bounds, crossed>>

(* _revoke_google_token_if_available: at Google the whole grant goes, or   *)
(* nothing, when the request fails or the token is not good.               *)
DisconnectRevokes ==
    /\ leaving.pc = "read" /\ Remaining = {}
    /\ leaving' = [leaving EXCEPT !.pc = "revoked"]
    /\ \/ leaving.seen.refresh \in good /\ good' = {} /\ granted' = {}
       \/ UNCHANGED google
    /\ UNCHANGED <<row, uses, visit, call, bounds, crossed>>

DisconnectCommits ==
    LET seen == leaving.seen IN
    /\ leaving.pc = IF Remaining = {} THEN "revoked" ELSE "read"
    /\ row' = [scopes  |-> IF Remaining # seen.scopes THEN Remaining ELSE row.scopes,
               access  |-> IF Remaining = {} /\ seen.access # 0 THEN 0 ELSE row.access,
               refresh |-> IF Remaining = {} /\ seen.refresh # 0 THEN 0 ELSE row.refresh]
    /\ crossed' = (crossed \/ row # seen)
    /\ leaving' = Staying
    /\ UNCHANGED <<uses, visit, call, google, bounds>>

-----------------------------------------------------------------------------
(* google_api_call.  Tools ask for the scope; without a token no           *)
(* credentials can be built.                                               *)

CallBegins(c) ==
    /\ call[c].pc = "idle" /\ row.scopes # {} /\ {row.access, row.refresh} # {0}
    /\ call' = [call EXCEPT ![c] = [pc |-> "sent", access |-> row.access,
                                    refresh |-> row.refresh]]
    /\ UNCHANGED <<row, uses, visit, leaving, google, bounds, crossed>>

(* Mutant: a timeout is taken for a refusal. *)
CallEndsCleared(c) ==
    /\ call[c].pc = "sent"
    /\ call' = [call EXCEPT ![c] = NoCall] /\ row' = NoRow
    /\ UNCHANGED <<uses, visit, leaving, google, bounds, crossed>>

(* A result, a timeout, or an error that is not about the token. *)
CallEnds(c) ==
    /\ call[c].pc = "sent"
    /\ call' = [call EXCEPT ![c] = NoCall]
    /\ UNCHANGED <<row, uses, visit, leaving, google, bounds, crossed>>

(* google-auth got a new access token on the way: _persist_refreshed_token *)
(* writes it, whatever the row holds by then.                              *)
CallRefreshed(c) ==
    /\ call[c].pc = "sent" /\ call[c].refresh \in good
    /\ row' = [row EXCEPT !.access = call[c].refresh]
    /\ crossed' = (crossed \/ row.refresh # call[c].refresh)
    /\ call' = [call EXCEPT ![c] = NoCall]
    /\ UNCHANGED <<uses, visit, leaving, google, bounds>>

(* RefreshError, 401 or 403. *)
CallRefused(c) ==
    /\ call[c].pc = "sent"
    /\ IF call[c].refresh \in good
       THEN refusals < MaxRefusals /\ refusals' = refusals + 1
       ELSE UNCHANGED refusals
    /\ call' = [call EXCEPT ![c].pc = "refused"]
    /\ UNCHANGED <<row, uses, visit, leaving, google, issued, made, crossed>>

(* Mutant: the access token is left. *)
CallClearsRefresh(c) ==
    /\ call[c].pc = "refused"
    /\ row' = [NoRow EXCEPT !.access = row.access]
    /\ crossed' = (crossed \/ row.refresh # call[c].refresh)
    /\ call' = [call EXCEPT ![c] = NoCall]
    /\ UNCHANGED <<uses, visit, leaving, google, bounds>>

(* _clear_google_tokens: by the user's id, whatever the row holds by then. *)
CallClears(c) ==
    /\ call[c].pc = "refused"
    /\ row' = NoRow
    /\ crossed' = (crossed \/ row.refresh # call[c].refresh)
    /\ call' = [call EXCEPT ![c] = NoCall]
    /\ UNCHANGED <<uses, visit, leaving, google, bounds>>

-----------------------------------------------------------------------------
(* The user removes the application in the Google account. *)
RemovedAtGoogle ==
    /\ good # {} /\ good' = {} /\ granted' = {}
    /\ UNCHANGED <<row, uses, visit, call, leaving, bounds, crossed>>

Init ==
    /\ row = NoRow /\ uses = [s \in Service |-> 0]
    /\ visit = [v \in Visit |-> NoVisit] /\ call = [c \in Call |-> NoCall]
    /\ leaving = Staying /\ granted = {} /\ good = {}
    /\ issued = 0 /\ made = 0 /\ refusals = 0 /\ crossed = FALSE

Next ==
    \/ \E s \in Service : \/ LinkIssued(s) \/ DisconnectReads(s)
                          \/ \E v \in Visit : LinkVisited(v, s)
    \/ \E v \in Visit : VisitEnds(v) \/ Consents(v) \/ CallbackReads(v) \/ CallbackCommits(v)
    \/ DisconnectRevokes \/ DisconnectCommits
    \/ \E c \in Call : \/ CallBegins(c) \/ CallEnds(c) \/ CallRefreshed(c)
                       \/ CallRefused(c) \/ CallClears(c)
    \/ RemovedAtGoogle

Spec == Init /\ [][Next]_vars

-----------------------------------------------------------------------------
(* Properties.                                                             *)

(* The three columns agree: scopes exactly with a refresh token, and an    *)
(* access token only with one.  Only writes that overtook each other, none *)
(* of which has a version to check, leave half a connection.               *)
NoHalfConnection ==
    crossed \/ /\ row.refresh # 0 <=> row.scopes # {}
               /\ row.access # 0 => row.refresh # 0

(* A connection is cleared by the user's disconnecting it, or when Google  *)
(* refused a token: this one, or an older one of a call that outlived it.  *)
ClearedForCause ==
    [][row.refresh # 0 /\ row'.refresh = 0 =>
         \/ leaving.pc = "revoked" /\ leaving'.pc = "idle"
         \/ \E c \in Call : /\ call[c].pc = "refused" /\ call'[c].pc = "idle"
                            /\ \/ call[c].refresh \notin good
                               \/ refusals > 0]_vars
=============================================================================
