-------------------------- MODULE AdminPanelProofs --------------------------
(***************************************************************************)
(* What ends a session of the administrator, for any number of tabs,       *)
(* tokens, requests and faults.                                            *)
(***************************************************************************)
EXTENDS AdminPanel, TLAPS

\* A request that a tab sent, or that was answered: its token was issued, a sign-in that
\* succeeded has one, and what got a 401 is still worth one.
Sound(r) ==
    /\ r \in Request
    /\ r.token <= issued
    /\ r.kind = "login" /\ r.at = "ok" => r.token # 0
    /\ r.kind # "login" /\ r.at = "denied" => ~Valid(r.token)

\* The inductive invariant.
SessionInv ==
    /\ TypeOK
    /\ stored <= issued
    /\ \A r \in requests : Sound(r)

LEMMA InitSession == Init => SessionInv
  BY BoundsAssumption, SMT DEF Init, SessionInv, TypeOK, Tokens

LEMMA Numbers ==
    ASSUME SessionInv
    PROVE  /\ MaxTokens \in Nat /\ MaxErrors \in Nat
           /\ stored \in Tokens /\ issued \in Tokens /\ Tokens \subseteq Nat /\ 0 \in Tokens
           /\ stored <= issued
           /\ \A r \in requests : r.token \in Tokens /\ r.tab \in Tab
           /\ view \in [Tab -> {"closed", "checking", "login", "submitting", "table"}]
  BY BoundsAssumption, SMT DEF SessionInv, TypeOK, Tokens, Sound, Request

\* A token does not become valid again, so that a sound request stays sound.
LEMMA SoundStays ==
    ASSUME SessionInv, NEW r \in requests, issued' \in {issued, issued + 1},
           expired \subseteq expired'
    PROVE  Sound(r)'
<1>1. Sound(r) /\ r.token \in Nat /\ issued \in Nat
  BY Numbers DEF SessionInv
<1> QED
  BY <1>1, SMT DEF Sound, Valid

\* Steps that issue no token and none expires.
LEMMA SameTokens ==
    ASSUME SessionInv, UNCHANGED <<issued, expired>>, errors' \in 0 .. MaxErrors,
           stored' \in {stored, 0} \/ (stored' \in Tokens /\ stored' <= issued),
           view' \in [Tab -> {"closed", "checking", "login", "submitting", "table"}],
           \A r \in requests' : r \in requests \/ Sound(r)
    PROVE  SessionInv'
<1>1. \A r \in requests' : Sound(r)'
  BY DEF SessionInv, Sound, Valid
<1>2. stored' \in Tokens /\ stored' <= issued
  BY Numbers, SMT
<1>3. requests' \subseteq Request
  BY <1>1 DEF Sound
<1> QED
  BY <1>1, <1>2, <1>3 DEF SessionInv, TypeOK

LEMMA ShowTyped ==
    ASSUME SessionInv, NEW t \in Tab,
           NEW v \in {"closed", "checking", "login", "submitting", "table"}, Show(t, v)
    PROVE  view' \in [Tab -> {"closed", "checking", "login", "submitting", "table"}]
  BY Numbers DEF Show

LEMMA SentIsSound ==
    ASSUME SessionInv, NEW t \in Tab, NEW kind \in Kinds,
           NEW token \in Tokens, token <= issued
    PROVE  Sound(Sent(t, kind, token))
  BY DEF Sent, Request, Sound

LEMMA TabKeepsInv ==
    ASSUME SessionInv, NEW t \in Tab,
           Open(t) \/ Close(t) \/ Submit(t) \/ Act(t) \/ SignOut(t)
    PROVE  SessionInv'
<1>0. errors \in 0 .. MaxErrors /\ 0 <= issued /\ stored <= issued
  BY Numbers, SMT DEF SessionInv, TypeOK, Tokens
<1>1. \A kind \in Kinds : Sound(Sent(t, kind, stored)) /\ Sound(Sent(t, kind, 0))
  BY <1>0, Numbers, SentIsSound
<1>2. CASE Open(t) /\ stored # 0
  BY <1>0, <1>1, <1>2, ShowTyped, SameTokens DEF Open, Kinds
<1>3. CASE Open(t) /\ stored = 0
  BY <1>0, <1>3, ShowTyped, SameTokens DEF Open
<1>4. CASE Close(t)
  BY <1>0, <1>4, ShowTyped, SameTokens DEF Close
<1>5. CASE Submit(t)
  BY <1>0, <1>1, <1>5, ShowTyped, SameTokens DEF Submit, Kinds
<1>6. CASE Act(t)
  BY <1>0, <1>1, <1>6, Numbers, SameTokens DEF Act, Kinds, server
<1>7. CASE SignOut(t)
  BY <1>0, <1>7, ShowTyped, SameTokens DEF SignOut
<1> QED
  BY <1>2, <1>3, <1>4, <1>5, <1>6, <1>7

LEMMA LoginKeepsInv ==
    ASSUME SessionInv, NEW r \in requests, Login(r)
    PROVE  SessionInv'
<1>0. Sound(r) /\ errors \in 0 .. MaxErrors
  BY DEF SessionInv, TypeOK
<1>1. CASE Answer(r, "denied") /\ UNCHANGED issued
  <2>1. Sound([r EXCEPT !.at = "denied"])
    BY <1>0 DEF Sound, Request, Login
  <2> QED
    BY <1>0, <1>1, <2>1, Numbers, SameTokens DEF Login, Answer, Replace
<1>2. CASE /\ issued < MaxTokens /\ issued' = issued + 1
           /\ Replace(r, {[r EXCEPT !.at = "ok", !.token = issued + 1]})
  <2>0. PICK s : s = [r EXCEPT !.at = "ok", !.token = issued + 1]
    OBVIOUS
  <2>1. issued + 1 \in Tokens /\ issued' \in Tokens /\ issued < issued'
    BY <1>2, Numbers, SMT DEF Tokens
  <2>2. s \in Request /\ s.token = issued + 1 /\ s.kind = "login" /\ s.at = "ok"
    BY <1>0, <2>0, <2>1 DEF Sound, Request, Login
  <2>3. Sound(s)'
    BY <1>2, <2>1, <2>2, Numbers, SMT DEF Sound
  <2>4. \A q \in requests' : q \in requests \/ q = s
    BY <1>2, <2>0 DEF Replace
  <2>5. \A q \in requests' : Sound(q)'
    BY <1>2, <2>3, <2>4, SoundStays DEF Login
  <2>6. requests' \subseteq Request
    BY <2>5 DEF Sound
  <2>7. stored <= issued' /\ 1 .. issued \subseteq 1 .. issued'
    BY <1>2, Numbers, SMT
  <2> QED
    BY <2>1, <2>5, <2>6, <2>7 DEF Login, SessionInv, TypeOK
<1> QED
  BY <1>1, <1>2 DEF Login

LEMMA AdmitKeepsInv ==
    ASSUME SessionInv, NEW r \in requests, Admit(r)
    PROVE  SessionInv'
<1> DEFINE s == [r EXCEPT !.at = IF Valid(r.token) THEN "ok" ELSE "denied"]
<1>1. Sound(s)
  BY DEF SessionInv, Sound, Request, Admit
<1> QED
  BY <1>1, Numbers, SameTokens DEF Admit, Answer, Replace, SessionInv, TypeOK, server

LEMMA FailKeepsInv ==
    ASSUME SessionInv, NEW r \in requests, Fail(r)
    PROVE  SessionInv'
<1>1. Sound([r EXCEPT !.at = "error"])
  BY DEF SessionInv, Sound, Request
<1>2. errors' \in 0 .. MaxErrors
  BY Numbers, SMT DEF Fail, SessionInv, TypeOK
<1> QED
  BY <1>1, <1>2, Numbers, SameTokens DEF Fail, Answer, Replace, server

LEMMA DeliverKeepsInv ==
    ASSUME SessionInv, NEW r \in requests, Deliver(r)
    PROVE  SessionInv'
<1>0. Sound(r) /\ r.tab \in Tab /\ r.token \in Tokens /\ r.token <= issued /\ stored <= issued
      /\ stored \in Tokens
  BY Numbers DEF SessionInv, Sound
<1>1. \A s \in Follow(r) : Sound(s)
  BY <1>0, SentIsSound DEF Follow, Kinds
<1>2. After(r) \in {"closed", "checking", "login", "submitting", "table"}
  BY <1>0, Numbers DEF After
<1>3. stored' \in {stored, 0} \/ (stored' \in Tokens /\ stored' <= issued)
  BY <1>0 DEF Deliver, Stored
<1>4. view' \in [Tab -> {"closed", "checking", "login", "submitting", "table"}]
  BY <1>0, <1>2, ShowTyped DEF Deliver
<1> QED
  BY <1>1, <1>3, <1>4, SameTokens DEF Deliver, Replace, SessionInv, TypeOK

LEMMA ExpireKeepsInv ==
    ASSUME SessionInv, NEW k \in 1 .. MaxTokens, Expire(k)
    PROVE  SessionInv'
<1>1. \A r \in requests' : Sound(r)'
  BY SoundStays DEF Expire
<1>2. expired' \subseteq 1 .. issued'
  BY DEF Expire, Valid, SessionInv, TypeOK
<1> QED
  BY <1>1, <1>2 DEF Expire, SessionInv, TypeOK

LEMMA NextKeepsInv ==
    ASSUME SessionInv, [Next]_vars
    PROVE  SessionInv'
<1>1. CASE UNCHANGED vars
  BY <1>1, Numbers, SameTokens DEF vars, SessionInv, TypeOK
<1> QED
  BY <1>1, TabKeepsInv, LoginKeepsInv, AdmitKeepsInv, FailKeepsInv, DeliverKeepsInv,
     ExpireKeepsInv DEF Next, Process

LEMMA AlwaysSession == Spec => []SessionInv
  BY InitSession, NextKeepsInv, PTL DEF Spec

\* Every reachable state is well typed.
THEOREM TypeCorrect == Spec => []TypeOK
<1>1. SessionInv => TypeOK
  BY DEF SessionInv
<1> QED
  BY <1>1, AlwaysSession, PTL

\* The reasons for which a good token is forgotten.
Reason ==
    \/ \E t \in Tab : view[t] = "table" /\ view'[t] = "login" /\ requests' = requests
    \/ \E r \in requests \ requests' :
           \/ r.at = "denied" /\ r.kind # "login" /\ ~Valid(r.token)
           \/ r.at = "error" /\ r.kind = "mount"

LEMMA DeliverHasReason ==
    ASSUME SessionInv, NEW r \in requests, Deliver(r), Valid(stored), stored' = 0
    PROVE  Reason
<1>1. stored # 0 /\ Sound(r)
  BY Numbers, SMT DEF Valid, SessionInv
<1>2. SignsOut(r) \/ (r.kind = "mount" /\ r.at = "error")
  BY <1>1 DEF Deliver, Stored, Sound
<1>3. r \in requests \ requests'
  BY <1>2 DEF Deliver, Replace, Follow, SignsOut
<1> QED
  BY <1>1, <1>2, <1>3 DEF Reason, SignsOut, Sound

LEMMA SignOutHasReason ==
    ASSUME SessionInv, NEW t \in Tab, SignOut(t)
    PROVE  Reason
  BY Numbers DEF SignOut, Show, Reason

LEMMA StepHasReason ==
    ASSUME SessionInv, [Next]_vars, Valid(stored), stored' = 0
    PROVE  Reason
<1>1. stored' # stored
  BY Numbers, SMT DEF Valid
<1>2. (\E t \in Tab : SignOut(t)) \/ (\E r \in requests : Deliver(r))
  BY <1>1 DEF Next, vars, Open, Close, Submit, Act, Process, Login, Admit, Fail, Expire, server
<1> QED
  BY <1>2, SignOutHasReason, DeliverHasReason

\* Neither a wrong password in one tab nor a call that fails in another ends the session: a
\* good token goes by sign-out, by a 401 of a request that was sent with another token, or by
\* a mount check without an answer (api.js, App.js).
THEOREM TokensSurvive == Spec => TokenSurvives
<1>1. SessionInv /\ [Next]_vars =>
          [Valid(stored) /\ stored' = 0 =>
             \/ \E t \in Tab : view[t] = "table" /\ view'[t] = "login" /\ requests' = requests
             \/ \E r \in requests \ requests' :
                    \/ r.at = "denied" /\ r.kind # "login" /\ ~Valid(r.token)
                    \/ r.at = "error" /\ r.kind = "mount"]_vars
  BY StepHasReason DEF Reason
<1> QED
  BY <1>1, AlwaysSession, PTL DEF Spec, TokenSurvives
=============================================================================
