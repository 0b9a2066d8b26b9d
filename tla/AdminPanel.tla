----------------------------- MODULE AdminPanel -----------------------------
(***************************************************************************)
(* The administrator's session: the tabs of admin_panel, which share one   *)
(* token in localStorage, and the JWTs of catalog_service/auth.py.  What   *)
(* the table of a tab asks of the API, the list, an edit or a delete, is a *)
(* call here: it is let in or not.  What the permanent delete does is in   *)
(* VideoProcessing, and how a page follows the changes in CatalogPage.     *)
(***************************************************************************)
EXTENDS Naturals, FiniteSets

CONSTANTS
    Tab,
    MaxTokens,     \* bound: tokens that are issued
    MaxRequests,   \* bound: requests in flight
    MaxErrors      \* bound: requests that fail, or whose answer is lost

ASSUME BoundsAssumption == {MaxTokens, MaxRequests, MaxErrors} \subseteq Nat

VARIABLES
    stored,    \* the token in localStorage, 0 for none
    issued,    \* tokens issued so far: 1 .. issued
    expired,   \* those whose exp has passed
    view,      \* what a tab shows: closed, checking (the spinner), login, submitting, table
    requests,  \* in flight: sent, or answered
    errors

vars == <<stored, issued, expired, view, requests, errors>>

Tokens == 0 .. MaxTokens
Valid(k) == k \in 1 .. issued /\ k \notin expired

\* mount and me ask for /auth/me.
Kinds == {"mount", "login", "me", "call"}
Request ==
    [tab : Tab, kind : Kinds, token : Tokens, at : {"sent", "ok", "denied", "error"}]

Init ==
    /\ stored = 0
    /\ issued = 0
    /\ expired = {}
    /\ view = [t \in Tab |-> "closed"]
    /\ requests = {}
    /\ errors = 0

Show(t, v) == view' = [view EXCEPT ![t] = v]
Sent(t, kind, token) == [tab |-> t, kind |-> kind, token |-> token, at |-> "sent"]
Replace(r, s) == requests' = (requests \ {r}) \cup s
Answer(r, a) == Replace(r, {[r EXCEPT !.at = a]})
Room == Cardinality(requests) < MaxRequests
server == <<stored, issued, expired, view>>

-----------------------------------------------------------------------------
(* What the administrator and the browser do in a tab. *)

\* The page is loaded: a stored token is checked first.  (A tab that is closed and opened
\* again is a new one when its requests are over.)
Open(t) ==
    /\ view[t] = "closed"
    /\ \A r \in requests : r.tab # t
    /\ Room
    /\ IF stored # 0
       THEN Show(t, "checking") /\ requests' = requests \cup {Sent(t, "mount", stored)}
       ELSE Show(t, "login") /\ UNCHANGED requests
    /\ UNCHANGED <<stored, issued, expired, errors>>

Close(t) ==
    /\ view[t] # "closed"
    /\ Show(t, "closed")
    /\ UNCHANGED <<stored, issued, expired, requests, errors>>

\* LoginPage.submit.
Submit(t) ==
    /\ view[t] = "login"
    /\ Room
    /\ Show(t, "submitting")
    /\ requests' = requests \cup {Sent(t, "login", 0)}
    /\ UNCHANGED <<stored, issued, expired, errors>>

\* load, of a change or of the button, and the changes an administrator makes.
Act(t) ==
    /\ view[t] = "table"
    /\ Room
    /\ requests' = requests \cup {Sent(t, "call", stored)}
    /\ UNCHANGED <<server, errors>>

SignOut(t) ==
    /\ view[t] = "table"
    /\ stored' = 0
    /\ Show(t, "login")
    /\ UNCHANGED <<issued, expired, requests, errors>>

-----------------------------------------------------------------------------
(* What the API does with a request. *)

\* login and authenticate: the password was right, and a token is made, or it was not.
Login(r) ==
    /\ r.kind = "login" /\ r.at = "sent"
    /\ \/ /\ issued < MaxTokens
          /\ issued' = issued + 1
          /\ Replace(r, {[r EXCEPT !.at = "ok", !.token = issued + 1]})
       \/ Answer(r, "denied") /\ UNCHANGED issued
    /\ UNCHANGED <<stored, expired, view, errors>>

\* require_admin.  Whatever the handler answers then is ok here.
Admit(r) ==
    /\ r.kind # "login" /\ r.at = "sent"
    /\ Answer(r, IF Valid(r.token) THEN "ok" ELSE "denied")
    /\ UNCHANGED <<server, errors>>

\* The request or its answer is lost, or the database fails.
Fail(r) ==
    /\ r.at # "error"
    /\ errors < MaxErrors
    /\ errors' = errors + 1
    /\ Answer(r, "error")
    /\ UNCHANGED server

-----------------------------------------------------------------------------
(* What a tab does with an answer: the interceptor, then the caller. *)

\* Mutant: the interceptor treats a wrong password as an expired token.
SignsOutLogin(r) == r.at = "denied"

\* A 401, except that of a login, removes the token and calls handleUnauthorized.
SignsOut(r) == r.at = "denied" /\ r.kind # "login"

\* Mutant: the spinner is taken away by a good answer only.
AfterThen(r) ==
    LET v == view[r.tab] IN
    IF v = "closed" THEN "closed"
    ELSE IF r.kind \in {"mount", "me"} /\ r.at = "ok" THEN "table"
    ELSE IF r.kind \in {"login", "me"} THEN IF r.at = "ok" THEN v ELSE "login"
    ELSE IF SignsOut(r) /\ v = "table" THEN "login" ELSE v

\* The mount check and the login leave their spinners whatever the answer; a 401 takes the
\* table away.
After(r) ==
    LET v == view[r.tab] IN
    IF v = "closed" THEN "closed"
    ELSE IF r.kind \in {"mount", "me"} THEN IF r.at = "ok" THEN "table" ELSE "login"
    ELSE IF r.kind = "login" THEN IF r.at = "ok" THEN v ELSE "login"
    ELSE IF SignsOut(r) /\ v = "table" THEN "login" ELSE v

\* Mutant: a failed request of the table drops the token like a failed mount check.
StoredStrict(r) ==
    IF view[r.tab] = "closed" THEN stored
    ELSE IF r.kind = "login" /\ r.at = "ok" THEN r.token
    ELSE IF SignsOut(r) \/ r.at = "error" THEN 0 ELSE stored

\* login stores its token; a 401 and a failed mount check remove whatever is stored.
Stored(r) ==
    IF view[r.tab] = "closed" THEN stored
    ELSE IF r.kind = "login" /\ r.at = "ok" THEN r.token
    ELSE IF SignsOut(r) \/ (r.kind = "mount" /\ r.at = "error") THEN 0 ELSE stored

\* A login goes on with /auth/me, and the table that is shown loads its list.
Follow(r) ==
    IF view[r.tab] = "closed" \/ r.at # "ok" THEN {}
    ELSE IF r.kind = "login" THEN {Sent(r.tab, "me", r.token)}
    ELSE IF r.kind \in {"mount", "me"} THEN {Sent(r.tab, "call", stored)} ELSE {}

Deliver(r) ==
    /\ r.at \in {"ok", "denied", "error"}
    /\ Replace(r, Follow(r))
    /\ stored' = Stored(r)
    /\ Show(r.tab, After(r))
    /\ UNCHANGED <<issued, expired, errors>>

-----------------------------------------------------------------------------
(* Time. *)

\* Mutant: an exp that has passed when the token is made.
ExpireEarly(k) ==
    /\ k \notin expired
    /\ expired' = expired \cup {k}
    /\ UNCHANGED <<stored, issued, view, requests, errors>>

Expire(k) ==
    /\ Valid(k)
    /\ expired' = expired \cup {k}
    /\ UNCHANGED <<stored, issued, view, requests, errors>>

Process(r) == Login(r) \/ Admit(r) \/ Deliver(r)

Next ==
    \/ \E t \in Tab : Open(t) \/ Close(t) \/ Submit(t) \/ Act(t) \/ SignOut(t)
    \/ \E r \in requests : Process(r) \/ Fail(r)
    \/ \E k \in 1 .. MaxTokens : Expire(k)

Spec == Init /\ [][Next]_vars

\* Every request is answered, or ends with an error, and its callbacks run.
Fairness == \A t \in Tab, k \in Kinds : WF_vars(\E r \in requests : r.tab = t /\ r.kind = k /\ Process(r))
FairSpec == Spec /\ Fairness

-----------------------------------------------------------------------------
(* Properties. *)

\* Types of the tokens, the tabs, and the requests.
TypeOK ==
    /\ stored \in Tokens /\ issued \in Tokens /\ expired \subseteq 1 .. issued
    /\ view \in [Tab -> {"closed", "checking", "login", "submitting", "table"}]
    /\ requests \subseteq Request
    /\ errors \in 0 .. MaxErrors

\* A good token is forgotten only because someone signs out, because of the late 401 of a
\* request that was sent with an older one, or because the check of a page that is loaded
\* gets no answer: not by a wrong password in another tab, and not by a call that fails.
TokenSurvives ==
    [][Valid(stored) /\ stored' = 0 =>
          \/ \E t \in Tab : view[t] = "table" /\ view'[t] = "login" /\ requests' = requests
          \/ \E r \in requests \ requests' :
                 \/ r.at = "denied" /\ r.kind # "login" /\ ~Valid(r.token)
                 \/ r.at = "error" /\ r.kind = "mount"]_vars

\* Neither spinner stays: the check of a stored token and a sign-in end, in the table or on
\* the login page, whatever is denied, expires or fails, or is done in other tabs.
NobodyWaits ==
    \A t \in Tab : view[t] \in {"checking", "submitting"} ~> view[t] \in {"closed", "login", "table"}
=============================================================================
