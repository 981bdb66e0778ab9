------------------------------- MODULE SignIn -------------------------------
(***************************************************************************)
(* One account: registration, confirmation of the address, login with a    *)
(* password or through a provider, sessions, and the ways to a new password*)
(* (backend/api/auth.py, backend/services/auth_service.py,                 *)
(* backend/services/oauth_service.py).                                     *)
(*                                                                         *)
(* A handler is one transaction, except where it commits and goes on, or   *)
(* reads what it writes about later: then the server process keeps what it *)
(* knows in request.  Logins count failures in one step.  Redis holds      *)
(* copies of what the rows say, except for the codes of OAuth, and is left *)
(* out otherwise.  A session stands for its row: an access token from      *)
(* before a rotation is in no row any more, so it lives on until it        *)
(* expires, whatever is revoked; such tokens are not modelled.             *)
(* An hour passes for the oldest link first.                               *)
(***************************************************************************)
EXTENDS Integers, FiniteSets

CONSTANTS
    Doors,       \* server processes that may take requests
    Devices,     \* keys of user_sessions
    Links,       \* keys of password_reset_tokens
    Letters,     \* keys of email_verification_tokens
    MaxRequests, \* reset links per hour: 3 in the code
    MaxFailed,   \* failed logins before the account is locked: 10 in the code
    Nobody       \* a server process without a request

ASSUME SignInAssumption ==
    IsFiniteSet(Doors) /\ MaxRequests \in Nat \ {0} /\ MaxFailed \in Nat \ {0}

VARIABLES
    doors,       \* the server processes that do
    account,     \* status, password: "none" | "known" | "new", verified, failed,
                 \* linked: does a provider know it?
    device,      \* "none" | "active" | "revoked" per session
    link,        \* "none" | "open" | "used" | "discarded" per reset token
    recent,      \* reset tokens of the last hour; the others have expired
    letter,      \* "none" | "open" | "used" per verification token
    codes,       \* sessions whose tokens wait for the OAuth exchange
    request,
    claims       \* how often a link has set the password (history)

signVars == <<doors, account, device, link, recent, letter, codes, request, claims>>

-----------------------------------------------------------------------------
NoAccount == [status |-> "none", password |-> "none", verified |-> FALSE, failed |-> 0,
              linked |-> FALSE]

SignInit ==
    /\ doors \in (SUBSET Doors) \ {{}}
    /\ account = NoAccount
    /\ device = [s \in Devices |-> "none"]
    /\ link = [l \in Links |-> "none"] /\ recent = {}
    /\ letter = [m \in Letters |-> "none"]
    /\ codes = {}
    /\ request = [v \in Doors |-> Nobody]
    /\ claims = [l \in Links |-> 0]

Free(v) == v \in doors /\ request[v] = Nobody
Doing(v, kind) == request[v] # Nobody /\ request[v].kind = kind
Do(v, next) == request' = [request EXCEPT ![v] = next]
Open(f) == {x \in DOMAIN f : f[x] = "open"}
AllUsed(f) == [x \in DOMAIN f |-> IF f[x] = "open" THEN "used" ELSE f[x]]
Active == {s \in Devices : device[s] = "active"}

-----------------------------------------------------------------------------
(***************************************************************************)
(* Registration and confirmation of the address                            *)
(***************************************************************************)

Register(v) ==
    /\ Free(v) /\ account = NoAccount
    /\ account' = [NoAccount EXCEPT !.status = "pending", !.password = "known"]
    /\ \E m \in Letters : letter[m] = "none" /\ letter' = [letter EXCEPT ![m] = "open"]
    /\ Do(v, [kind |-> "tokens", code |-> FALSE])
    /\ UNCHANGED <<doors, device, link, recent, codes, claims>>

\* Unless the letter is older than a day.
VerifyEmail(m) ==
    /\ letter[m] = "open"
    /\ letter' = [letter EXCEPT ![m] = "used"]
    /\ account' = [account EXCEPT !.status = "active", !.verified = TRUE]
    /\ UNCHANGED <<doors, device, link, recent, codes, request, claims>>

ResendVerification ==
    /\ account # NoAccount /\ ~account.verified
    /\ \E m \in Letters :
          letter[m] = "none" /\ letter' = [AllUsed(letter) EXCEPT ![m] = "open"]
    /\ UNCHANGED <<doors, account, device, link, recent, codes, request, claims>>

\* backend/api/admin.py: an administrator suspends the account or lifts it.
SetStatus(status) ==
    /\ account # NoAccount
    /\ account' = [account EXCEPT !.status = status]
    /\ UNCHANGED <<doors, device, link, recent, letter, codes, request, claims>>

-----------------------------------------------------------------------------
(***************************************************************************)
(* Sessions                                                                *)
(***************************************************************************)

\* A locked account opens again when half an hour has passed.
LoginFails ==
    /\ account # NoAccount
    /\ account' = [account EXCEPT !.failed = 1 + IF @ >= MaxFailed THEN 0 ELSE @]
    /\ UNCHANGED <<doors, device, link, recent, letter, codes, request, claims>>

Login(v) ==
    /\ Free(v) /\ account.password # "none" /\ account.status = "active"
    /\ account' = [account EXCEPT !.failed = 0]
    /\ Do(v, [kind |-> "tokens", code |-> FALSE])
    /\ UNCHANGED <<doors, device, link, recent, letter, codes, claims>>

\* create_tokens_for_user, after the commit of the login.
CreateTokens(v) ==
    /\ Doing(v, "tokens")
    /\ \E s \in Devices :
          /\ device[s] = "none"
          /\ device' = [device EXCEPT ![s] = "active"]
          /\ codes' = IF request[v].code THEN codes \cup {s} ELSE codes
    /\ Do(v, Nobody)
    /\ UNCHANGED <<doors, account, link, recent, letter, claims>>

\* The session is read, and later its tokens replaced; nothing else of the row
\* is written.
BeginRefresh(v, s) ==
    /\ Free(v) /\ device[s] = "active" /\ account.status = "active"
    /\ Do(v, [kind |-> "refresh", session |-> s])
    /\ UNCHANGED <<doors, account, device, link, recent, letter, codes, claims>>

RefreshedMutant(s) == "active"
Refreshed(s) == device[s]

Refresh(v) ==
    /\ Doing(v, "refresh")
    /\ device' = [device EXCEPT ![request[v].session] = Refreshed(request[v].session)]
    /\ Do(v, Nobody)
    /\ UNCHANGED <<doors, account, link, recent, letter, codes, claims>>

\* revoke_all_user_sessions; for a logout, or after a new password.
BeginLogout(v) ==
    /\ Free(v) /\ Active # {} /\ account.status = "active"
    /\ Do(v, [kind |-> "revoke", after |-> "logout"])
    /\ UNCHANGED <<doors, account, device, link, recent, letter, codes, claims>>

RevokeAll(v) ==
    /\ Doing(v, "revoke")
    /\ device' = [s \in Devices |-> IF s \in Active THEN "revoked" ELSE device[s]]
    /\ Do(v, Nobody)
    /\ UNCHANGED <<doors, account, link, recent, letter, codes, claims>>

\* After a reset a failure is only logged.
RevokeFails(v) ==
    /\ Doing(v, "revoke") /\ request[v].after = "reset"
    /\ Do(v, Nobody)
    /\ UNCHANGED <<doors, account, device, link, recent, letter, codes, claims>>

-----------------------------------------------------------------------------
(***************************************************************************)
(* Through a provider                                                      *)
(***************************************************************************)

\* find_or_create_user_from_oauth and the login: one state, one callback.  A new
\* account takes the provider's word for the address (Google's may be "not
\* verified"); an account that is linked now counts as verified; one that was
\* linked to this provider before is left as it is.
OAuthCallback(v) ==
    /\ Free(v)
    /\ \E verified \in IF account = NoAccount THEN BOOLEAN ELSE {TRUE, account.verified} :
          /\ account # NoAccount /\ ~account.linked => verified
          /\ account' = [account EXCEPT !.status = IF @ = "none" THEN "active" ELSE @,
                                        !.verified = verified, !.linked = TRUE]
    /\ Do(v, [kind |-> "tokens", code |-> TRUE])
    /\ UNCHANGED <<doors, device, link, recent, letter, codes, claims>>

ExchangeOAuthCode(s) ==
    /\ s \in codes
    /\ codes' = codes \ {s}
    /\ UNCHANGED <<doors, account, device, link, recent, letter, request, claims>>

-----------------------------------------------------------------------------
(***************************************************************************)
(* Passwords                                                               *)
(***************************************************************************)

SetPassword ==
    /\ account.status = "active" /\ account.password = "none" /\ Active # {}
    /\ account' = [account EXCEPT !.password = "known"]
    /\ UNCHANGED <<doors, device, link, recent, letter, codes, request, claims>>

ChangePassword(v) ==
    /\ Free(v) /\ account.status = "active" /\ account.password # "none" /\ Active # {}
    /\ account' = [account EXCEPT !.password = "new"]
    /\ Do(v, [kind |-> "revoke", after |-> "change"])
    /\ UNCHANGED <<doors, device, link, recent, letter, codes, claims>>

CanReset == account.status = "active" /\ account.password # "none"

\* The requests of the last hour and the open links are read first.
BeginRequestReset(v) ==
    /\ Free(v) /\ CanReset
    /\ Cardinality({l \in recent : link[l] # "discarded"}) < MaxRequests
    /\ Do(v, [kind |-> "request", burn |-> Open(link)])
    /\ UNCHANGED <<doors, account, device, link, recent, letter, codes, claims>>

RequestReset(v) ==
    /\ Doing(v, "request")
    /\ \E l \in Links :
          /\ link[l] = "none"
          /\ link' = [k \in Links |-> CASE k = l -> "open"
                                        [] k \in request[v].burn /\ link[k] = "open" -> "used"
                                        [] OTHER -> link[k]]
          /\ recent' = recent \cup {l}
    /\ Do(v, Nobody)
    /\ UNCHANGED <<doors, account, device, letter, codes, claims>>

\* The mail was not delivered: the row is deleted, in the background.
DiscardLink(l) ==
    /\ link[l] \in {"open", "used"} /\ claims[l] = 0
    /\ link' = [link EXCEPT ![l] = "discarded"]
    /\ UNCHANGED <<doors, account, device, recent, letter, codes, request, claims>>

HourPasses(l) ==
    /\ l \in recent
    /\ recent' = recent \ {l}
    /\ UNCHANGED <<doors, account, device, link, letter, codes, request, claims>>

BeginConfirmReset(v, l) ==
    /\ Free(v) /\ CanReset /\ link[l] = "open" /\ l \in recent
    /\ Do(v, [kind |-> "confirm", link |-> l])
    /\ UNCHANGED <<doors, account, device, link, recent, letter, codes, claims>>

\* UPDATE ... WHERE NOT is_used
Claimable(l) == link[l] = "open"

ConfirmReset(v) ==
    LET l == request[v].link
    IN  /\ Doing(v, "confirm")
        /\ \/ /\ Claimable(l)
              /\ account' = [account EXCEPT !.password = "new", !.failed = 0]
              /\ link' = AllUsed(link)
              /\ claims' = [claims EXCEPT ![l] = @ + 1]
              /\ Do(v, [kind |-> "revoke", after |-> "reset"])
           \/ /\ ~Claimable(l)
              /\ Do(v, Nobody)
              /\ UNCHANGED <<doors, account, link, claims>>
        /\ UNCHANGED <<doors, device, recent, letter, codes>>

-----------------------------------------------------------------------------
SignNext ==
    \/ \E v \in Doors :
          \/ Register(v) \/ Login(v) \/ CreateTokens(v) \/ OAuthCallback(v)
          \/ \E s \in Devices : BeginRefresh(v, s)
          \/ Refresh(v) \/ BeginLogout(v) \/ RevokeAll(v) \/ RevokeFails(v)
          \/ ChangePassword(v) \/ BeginRequestReset(v) \/ RequestReset(v)
          \/ \E l \in Links : BeginConfirmReset(v, l)
          \/ ConfirmReset(v)
    \/ \E m \in Letters : VerifyEmail(m)
    \/ \E status \in {"active", "suspended"} : SetStatus(status)
    \/ \E s \in Devices : ExchangeOAuthCode(s)
    \/ \E l \in Links : DiscardLink(l) \/ HourPasses(l)
    \/ ResendVerification \/ LoginFails \/ SetPassword

SignSpec == SignInit /\ [][SignNext]_signVars

-----------------------------------------------------------------------------
\* A link sets a password once, whoever confirms it at the same time; with one
\* server process only the newest link is open, and no more than the cap are
\* sent in an hour; a session that was revoked stays revoked, also if its
\* tokens are being refreshed (confirm_password_reset, "Atomically claim").
LinksAndSessionsEnd ==
    /\ [](/\ \A l \in DOMAIN claims : claims[l] <= 1
          /\ Cardinality(doors) = 1 =>
                /\ Cardinality(Open(link)) <= 1
                /\ Cardinality({l \in recent : link[l] # "discarded"}) <= MaxRequests
                /\ Cardinality(Open(letter)) <= 1)
    /\ [][\A s \in DOMAIN device : device[s] = "revoked" => device'[s] = "revoked"]_signVars

=============================================================================
