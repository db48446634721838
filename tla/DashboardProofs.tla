--------------------------- MODULE DashboardProofs --------------------------
(***************************************************************************)
(* Theorems of the dashboard's accounts, sessions and sites, for every     *)
(* value of the constants.  A step on the connections changes none of      *)
(* them.                                                                   *)
(***************************************************************************)
EXTENDS Dashboard, FiniteSetTheorems, TLAPS

\* What a session has to satisfy, in a cookie and in a request's copy.
Sound(session) ==
    /\ session \in Sessions
    /\ session.user # None => users[session.user] # None
    /\ session.visitor # None => session.visitor \in accounts
    /\ session.count >= 2 => session.captured
    /\ session.count >= 1 => session.visitor # None

\* An audit under way was allowed, and has its visitor's account.
Admitted(r) ==
    requests[r].kind = "audit" =>
      Allowed(requests[r].copy) /\ requests[r].copy.visitor # None

AccountsInv ==
    /\ accounts \subseteq AllAccounts
    /\ users \in [Emails -> Users \union {None}]
    /\ users[Staff] # None
    /\ links \subseteq {e \in Emails : users[e] # None}
    /\ cookies \in [Clients -> Sessions]
    /\ \A c \in Clients : Sound(cookies[c])
    /\ sites \subseteq Sites /\ IsFiniteSet(sites)
    /\ lastSite \in 0..MaxSites
    /\ requests \in [Requests -> RequestType \union {Idle}]
    /\ \A r \in Requests : Sound(requests[r].copy) /\ Admitted(r)

\* An account has a domain once (uq_sites_account_domain).
OneSitePerDomain ==
    \A s, t \in sites : s.account = t.account /\ s.domain = t.domain => s = t

\* A site's id and its account's domain are its own, and ids are not reused.
SiteKeys ==
    /\ OneSitePerDomain
    /\ \A s \in sites : s.id <= lastSite
    /\ \A s, t \in sites : s.id = t.id => s = t

\* The audits under way for a browser whose email was not known when they
\* began, and those of them that are still to be queued.
Early(c) ==
    {r \in Requests : /\ requests[r].kind = "audit"
                      /\ requests[r].client = c
                      /\ ~requests[r].copy.captured}
Unqueued(c) == {r \in Early(c) : requests[r].stage # "answer"}

\* As long as the cookie counts no audit, every one that was queued without an
\* email is still under way; none is let in after that.
FirstAudits(c) ==
    /\ unmailed[c] \in Nat
    /\ unmailed[c] + Cardinality(Unqueued(c)) <= Cardinality(Requests)
    /\ cookies[c].count = 0 =>
         unmailed[c] + Cardinality(Unqueued(c)) <= Cardinality(Early(c))
    /\ cookies[c].user # None => unmailed[c] = 0

\* Only who is signed in creates a site or runs one, and the response keeps it so.
EarlyInv ==
    /\ unmailed \in [Clients -> Nat]
    /\ \A r \in Requests :
         requests[r].kind \in {"create", "run"} => requests[r].copy.user # None
    /\ \A c \in Clients : FirstAudits(c)

\* The requests, other than audits, that are still to insert a site.
Placing(account) ==
    {r \in Requests : /\ requests[r].kind \in {"create", "run"}
                      /\ requests[r].stage \in {"find", "insert"}
                      /\ requests[r].account = account}

\* The domains that the account has, or will have from them.
Held(account) ==
    {s.domain : s \in SitesOf(account)} \union {requests[r].domain : r \in Placing(account)}

\* A request that passed the limit has its place among the requests; a run's
\* domain was there when the request began.
Overshoot ==
    /\ opened \in [AllAccounts -> Nat]
    /\ \A account \in AllAccounts \ {House} :
         Cardinality(Held(account))
           <= FreeLimit - 1 + Cardinality(Requests) + opened[account]

SitesInv == AccountsInv /\ SiteKeys /\ EarlyInv /\ Overshoot

(***************************************************************************)
(* Accounts, users and sessions                                            *)
(***************************************************************************)
\* A visitor has the allowance of the free plan.
LEMMA VisitorAllowance == MAX_VISITOR_AUDITS = FreeLimit /\ FreeLimit \in Nat \ {0}
  BY AccountsAssumption DEF MAX_VISITOR_AUDITS, max_sites_for

\* An empty session is sound.
LEMMA BlankSound == Sound(Blank)
  BY VisitorAllowance DEF Sound, Blank, Sessions

\* Users and accounts are only added: what is sound stays so.
LEMMA StaysSound ==
  ASSUME NEW session, Sound(session), accounts \subseteq accounts',
         \A e \in Emails : users[e] # None => users'[e] # None
  PROVE  Sound(session)'
  BY DEF Sound, Sessions

\* A request is idle, or a request with sound types.
LEMMA RequestTypes ==
  ASSUME AccountsInv, NEW r \in Requests
  PROVE  requests[r] = Idle
         \/ /\ requests[r].kind \in {"audit", "create", "run"}
            /\ requests[r].stage \in {"find", "insert", "answer"}
            /\ requests[r].client \in Clients /\ requests[r].copy \in Sessions
            /\ requests[r].account \in AllAccounts /\ requests[r].domain \in Domains
            /\ requests[r] \in RequestType
  BY DEF AccountsInv, RequestType

\* The program starts on a database, without sessions and requests.
LEMMA InitAccounts ==
  ASSUME NEW db \in Databases, AccountsInit(db) PROVE AccountsInv
<1> USE DEF AccountsInit
<1>1. accounts \subseteq AllAccounts /\ users \in [Emails -> Users \union {None}]
      /\ users[Staff] # None /\ links \subseteq {e \in Emails : users[e] # None}
      /\ sites \subseteq Sites /\ IsFiniteSet(sites) /\ lastSite \in 0..MaxSites
  BY DatabasesAssumption
<1>2. cookies \in [Clients -> Sessions] /\ \A c \in Clients : Sound(cookies[c])
  BY BlankSound DEF Sound
<1>3. requests \in [Requests -> RequestType \union {Idle}]
      /\ \A r \in Requests : Sound(requests[r].copy) /\ Admitted(r)
  BY BlankSound DEF Idle, Admitted
<1>4. QED BY <1>1, <1>2, <1>3 DEF AccountsInv

\* A step that only writes a sound session into a cookie.
LEMMA CookieInv ==
  ASSUME AccountsInv, NEW c \in Clients, NEW session, Sound(session)',
         cookies' = [cookies EXCEPT ![c] = session],
         accounts' = accounts, links' \subseteq {e \in Emails : users'[e] # None},
         users' \in [Emails -> Users \union {None}],
         \A e \in Emails : users[e] # None => users'[e] # None,
         UNCHANGED <<sites, lastSite, requests>>
  PROVE  AccountsInv'
<1>1. session \in Sessions BY DEF Sound, Sessions
<1>2. \A s : Sound(s) => Sound(s)' BY StaysSound
<1>3. \A d \in Clients : Sound(cookies[d])' BY <1>2 DEF AccountsInv
<1>4. \A r \in Requests : Sound(requests[r].copy)' /\ Admitted(r)'
  BY <1>2 DEF AccountsInv, Admitted, Allowed
<1>5. users'[Staff] # None BY DEF AccountsInv, Emails
<1>6. QED BY <1>1, <1>3, <1>4, <1>5 DEF AccountsInv

\* Signing in and out.
LEMMA SignInInv ==
  ASSUME AccountsInv, NEW c \in Clients,
         Login(c) \/ Logout(c) \/ \E email \in Emails : MagicLogin(c, email)
  PROVE  AccountsInv'
<1>1. /\ UNCHANGED <<accounts, users, links, sites, lastSite, requests>>
      /\ links \subseteq {e \in Emails : users[e] # None}
      /\ users \in [Emails -> Users \union {None}]
      /\ \A s : Sound(s) => Sound(s)'
  BY StaysSound DEF AccountsInv, Login, Logout, MagicLogin
<1>2. ASSUME NEW email \in Emails, users[email] # None, login_session(c, email)
      PROVE  AccountsInv'
  <2> DEFINE session == [cookies[c] EXCEPT !.user = email]
  <2>1. Sound(cookies[c]) /\ cookies[c] \in Sessions BY DEF AccountsInv
  <2>2. /\ session \in Sessions /\ session.user = email
        /\ session.visitor = cookies[c].visitor /\ session.count = cookies[c].count
        /\ session.captured = cookies[c].captured
    BY <2>1 DEF Sessions
  <2>3. Sound(session) BY <1>2, <2>1, <2>2 DEF Sound
  <2>4. cookies' = [cookies EXCEPT ![c] = session] BY <1>2 DEF login_session
  <2> HIDE DEF session
  <2>5. QED BY <1>1, <2>3, <2>4, CookieInv
<1>3. CASE Login(c) BY <1>2, <1>3 DEF Login, AccountsInv, Emails
<1>4. CASE \E email \in Emails : MagicLogin(c, email)
  BY <1>2, <1>4 DEF MagicLogin, AccountsInv
<1>5. CASE Logout(c) BY <1>1, <1>5, BlankSound, CookieInv DEF Logout
<1>6. QED BY <1>3, <1>4, <1>5

\* Registering an email, and changing a role.
LEMMA RegisterInv ==
  ASSUME AccountsInv, NEW c \in Clients, NEW email \in Emails,
         CaptureEmail(c, email) \/ \E role \in {"admin", "member"} : SetRole(c, email, role)
  PROVE  AccountsInv'
<1>1. CASE CaptureEmail(c, email)
  <2>0. PICK session : session = [cookies[c] EXCEPT !.captured = TRUE] OBVIOUS
  <2>1. cookies[c].visitor # None /\ Sound(cookies[c]) /\ cookies[c] \in Sessions
    BY <1>1 DEF CaptureEmail, AccountsInv
  <2>2. users' \in [Emails -> Users \union {None}] /\ users'[email] # None
        /\ \A e \in Emails : users[e] # None => users'[e] # None
    <3>1. cookies[c].visitor \in AllAccounts BY <2>1 DEF Sessions, AllAccounts
    <3>2. [account |-> cookies[c].visitor, role |-> "member"] \in Users
      BY <3>1 DEF Users
    <3>3. [account |-> cookies[c].visitor, role |-> "member"] # None
      BY <3>2, AccountsAssumption
    <3>4. QED BY <1>1, <3>2, <3>3 DEF CaptureEmail, AccountsInv
  <2>3. Sound(session)
    <3>1. session \in Sessions /\ session.user = cookies[c].user
          /\ session.visitor = cookies[c].visitor
          /\ session.count = cookies[c].count /\ session.captured = TRUE
      BY <2>0, <2>1 DEF Sessions
    <3>2. QED BY <2>1, <3>1 DEF Sound
  <2>4. cookies' = [cookies EXCEPT ![c] = session]
    BY <1>1, <2>0 DEF CaptureEmail
  <2>5. links' \subseteq {e \in Emails : users'[e] # None}
        /\ UNCHANGED <<accounts, sites, lastSite, requests>>
    BY <1>1, <2>2 DEF CaptureEmail, AccountsInv
  <2>6. Sound(session)' BY <2>2, <2>3, <2>5, StaysSound
  <2>7. QED BY <2>2, <2>4, <2>5, <2>6, CookieInv
<1>2. ASSUME NEW role \in {"admin", "member"}, SetRole(c, email, role)
      PROVE  AccountsInv'
  <2>1. users[email] \in Users BY <1>2 DEF SetRole, AccountsInv
  <2>2. [users[email] EXCEPT !.role = role] \in Users BY <2>1 DEF Users
  <2>3. users' = [users EXCEPT ![email] = [users[email] EXCEPT !.role = role]]
    BY <1>2 DEF SetRole
  <2>4. users' \in [Emails -> Users \union {None}]
        /\ \A e \in Emails : users[e] # None => users'[e] # None
    BY <2>2, <2>3, AccountsAssumption DEF AccountsInv
  <2>5. UNCHANGED <<accounts, links, cookies, sites, lastSite, requests>>
    BY <1>2 DEF SetRole
  <2>6. Sound(cookies[c])' BY <2>4, <2>5, StaysSound DEF AccountsInv
  <2>7. cookies' = [cookies EXCEPT ![c] = cookies'[c]]
    BY <2>5 DEF AccountsInv
  <2>8. links' \subseteq {e \in Emails : users'[e] # None}
    BY <2>4, <2>5 DEF AccountsInv
  <2>9. PICK session : session = cookies'[c] OBVIOUS
  <2>10. QED BY <2>4, <2>5, <2>6, <2>7, <2>8, <2>9, CookieInv
<1>3. QED BY <1>1, <1>2

(***************************************************************************)
(* Requests and sites                                                      *)
(***************************************************************************)
\* A step that only writes a sound request, or none, into a slot.
LEMMA SlotInv ==
  ASSUME AccountsInv, NEW r \in Requests, NEW request,
         request = Idle \/ request \in RequestType,
         Sound(request.copy)',
         request.kind = "audit" => Allowed(request.copy) /\ request.copy.visitor # None,
         requests' = [requests EXCEPT ![r] = request],
         accounts \subseteq accounts', accounts' \subseteq AllAccounts,
         sites' \subseteq Sites, IsFiniteSet(sites'), lastSite' \in 0..MaxSites,
         UNCHANGED <<users, links, cookies>>
  PROVE  AccountsInv'
<1>1. \A s : Sound(s) => Sound(s)' BY StaysSound
<1>2. \A c \in Clients : Sound(cookies[c])' BY <1>1 DEF AccountsInv
<1>3. ASSUME NEW q \in Requests PROVE Sound(requests[q].copy)' /\ Admitted(q)'
  <2>1. CASE q = r
    <3>1. requests'[q] = request BY <2>1 DEF AccountsInv
    <3>2. QED BY <3>1 DEF Admitted, Allowed
  <2>2. CASE q # r
    <3>1. requests'[q] = requests[q] BY <2>2 DEF AccountsInv
    <3>2. Sound(requests[q].copy) /\ Admitted(q) BY DEF AccountsInv
    <3>3. QED BY <1>1, <3>1, <3>2 DEF Admitted, Allowed
  <2>3. QED BY <2>1, <2>2
<1>4. requests' \in [Requests -> RequestType \union {Idle}] BY DEF AccountsInv
<1>5. QED BY <1>2, <1>3, <1>4 DEF AccountsInv

\* A new request: an audit of a visitor, a new site, a run of a site.
LEMMA BeginInv ==
  ASSUME AccountsInv, NEW c \in Clients, NEW r \in Requests,
         \/ \E domain \in Domains : StartAudit(c, r, domain) \/ CreateSite(c, r, domain)
         \/ \E s \in sites : RunSite(c, r, s)
  PROVE  AccountsInv'
<1>1. Sound(cookies[c]) /\ cookies[c] \in Sessions BY DEF AccountsInv
<1>2. ASSUME NEW domain \in Domains, StartAudit(c, r, domain) PROVE AccountsInv'
  <2>1. PICK account \in IF cookies[c].visitor = None
                         THEN Visitors \ accounts ELSE {cookies[c].visitor} :
          /\ accounts' = accounts \union {account}
          /\ Begin(r, "audit", "find", c, [cookies[c] EXCEPT !.visitor = account],
                   account, domain)
    BY <1>2 DEF StartAudit
  <2>2. account \in Visitors /\ account \in AllAccounts /\ account # None
        /\ accounts' \subseteq AllAccounts
    BY <1>1, <2>1, AccountsAssumption DEF Sessions, AllAccounts, AccountsInv
  <2>0. PICK copy : copy = [cookies[c] EXCEPT !.visitor = account] OBVIOUS
  <2>13. PICK request :
          request = [kind |-> "audit", stage |-> "find", client |-> c,
                     copy |-> copy, account |-> account, domain |-> domain]
    OBVIOUS
  <2>3. /\ copy \in Sessions /\ copy.user = cookies[c].user
        /\ copy.visitor = account /\ copy.count = cookies[c].count
        /\ copy.captured = cookies[c].captured
    BY <1>1, <2>0, <2>2 DEF Sessions
  <2>4. /\ UNCHANGED <<users, links, cookies, sites, lastSite>>
        /\ Allowed(cookies[c]) /\ requests' = [requests EXCEPT ![r] = request]
    BY <1>2, <2>1, <2>0, <2>13 DEF StartAudit, Begin
  <2>5. Sound(copy)' BY <1>1, <2>1, <2>2, <2>3, <2>4 DEF Sound
  <2>6. Allowed(copy) BY <2>3, <2>4 DEF Allowed
  <2>7. request \in RequestType BY <2>13, <2>2, <2>3 DEF RequestType
  <2>8. sites' \subseteq Sites /\ IsFiniteSet(sites') /\ lastSite' \in 0..MaxSites
    BY <2>4 DEF AccountsInv
  <2>9. request.copy = copy /\ request.kind = "audit" BY <2>13
  <2>10. accounts \subseteq accounts' /\ copy.visitor # None BY <2>1, <2>2, <2>3
  <2>11. QED
    BY <2>2, <2>4, <2>5, <2>6, <2>7, <2>8, <2>9, <2>10, SlotInv
<1>3. ASSUME NEW domain \in Domains, NEW account \in AllAccounts,
             NEW kind \in {"create", "run"}, NEW stage \in {"find", "insert"},
             Begin(r, kind, stage, c, cookies[c], account, domain),
             UNCHANGED <<accounts, users, links, cookies, sites, lastSite, roles>>
      PROVE  AccountsInv'
  <2>0. PICK request :
          request = [kind |-> kind, stage |-> stage, client |-> c,
                     copy |-> cookies[c], account |-> account, domain |-> domain]
    OBVIOUS
  <2>1. request \in RequestType BY <1>1, <2>0 DEF RequestType
  <2>2. requests' = [requests EXCEPT ![r] = request] BY <1>3, <2>0 DEF Begin
  <2>3. request.copy = cookies[c] /\ request.kind # "audit" BY <2>0
  <2>4. Sound(request.copy) BY <1>1, <2>3
  <2>5. Sound(request.copy)' BY <1>3, <2>4, StaysSound
  <2>6. /\ accounts \subseteq accounts' /\ accounts' \subseteq AllAccounts
        /\ sites' \subseteq Sites /\ IsFiniteSet(sites') /\ lastSite' \in 0..MaxSites
    BY <1>3 DEF AccountsInv
  <2>7. QED BY <1>3, <2>1, <2>2, <2>3, <2>5, <2>6, SlotInv
<1>4. ASSUME NEW domain \in Domains, CreateSite(c, r, domain) PROVE AccountsInv'
  <2>1. users[cookies[c].user] \in Users
    BY <1>1, <1>4 DEF CreateSite, SignedIn, Sound, AccountsInv, Sessions
  <2>2. CurrentAccount(c) \in AllAccounts
    BY <2>1 DEF CurrentAccount, CurrentUser, Users
  <2>3. QED BY <1>3, <1>4, <2>2 DEF CreateSite
<1>5. ASSUME NEW s \in sites, RunSite(c, r, s) PROVE AccountsInv'
  <2>1. s.domain \in Domains /\ s.account \in AllAccounts BY DEF AccountsInv, Sites
  <2>2. QED BY <1>3, <1>5, <2>1 DEF RunSite
<1>6. QED BY <1>2, <1>4, <1>5

\* The steps of a request before its answer.
LEMMA ProgressInv ==
  ASSUME AccountsInv, NEW r \in Requests,
         FindSite(r) \/ InsertSite(r) \/ RefuseSite(r)
  PROVE  AccountsInv'
<1>1. /\ requests[r] \in RequestType /\ Sound(requests[r].copy) /\ Admitted(r)
      /\ UNCHANGED <<accounts, users, links, cookies>>
  BY RequestTypes
  DEF Idle, FindSite, InsertSite, RefuseSite, AccountsInv
<1>2. ASSUME NEW stage \in {"find", "insert", "answer"},
             requests' = [requests EXCEPT ![r].stage = stage],
             sites' \subseteq Sites, IsFiniteSet(sites'), lastSite' \in 0..MaxSites
      PROVE  AccountsInv'
  <2>0. PICK request : request = [requests[r] EXCEPT !.stage = stage] OBVIOUS
  <2>1. /\ request \in RequestType /\ request.copy = requests[r].copy
        /\ request.kind = requests[r].kind
    BY <1>1, <2>0 DEF RequestType
  <2>2. requests' = [requests EXCEPT ![r] = request] BY <1>2, <2>0
  <2>3. Sound(request.copy) BY <1>1, <2>1
  <2>5. Sound(request.copy)' BY <1>1, <2>3, StaysSound
  <2>6. request.kind = "audit" => Allowed(request.copy) /\ request.copy.visitor # None
    BY <1>1, <2>1 DEF Admitted
  <2>7. accounts \subseteq accounts' /\ accounts' \subseteq AllAccounts
    BY <1>1 DEF AccountsInv
  <2>8. QED BY <1>1, <1>2, <2>1, <2>2, <2>5, <2>6, <2>7, SlotInv
<1>3. sites \subseteq Sites /\ IsFiniteSet(sites) /\ lastSite \in 0..MaxSites
  BY DEF AccountsInv
<1>4. CASE FindSite(r)
  <2>1. PICK stage \in {"insert", "answer"} :
          requests' = [requests EXCEPT ![r].stage = stage]
    BY <1>4 DEF FindSite
  <2>2. sites' = sites /\ lastSite' = lastSite BY <1>4 DEF FindSite
  <2>3. QED BY <1>2, <1>3, <2>1, <2>2
<1>5. CASE InsertSite(r)
  <2> DEFINE site == [id |-> lastSite + 1, account |-> requests[r].account,
                      domain |-> requests[r].domain]
  <2>1. sites' = sites \union {site} /\ lastSite' = lastSite + 1
        /\ lastSite < MaxSites /\ requests' = [requests EXCEPT ![r].stage = "answer"]
    BY <1>5 DEF InsertSite
  <2>2. lastSite' \in 0..MaxSites /\ lastSite + 1 \in 1..MaxSites
    BY <1>3, <2>1, AccountsAssumption
  <2>3. site \in Sites BY <1>1, <2>2 DEF RequestType, Sites
  <2> HIDE DEF site
  <2>4. IsFiniteSet(sites') BY <1>3, <2>1, FS_AddElement
  <2>5. QED BY <1>2, <1>3, <2>1, <2>2, <2>3, <2>4
<1>6. CASE RefuseSite(r)
  <2>1. UNCHANGED <<sites, lastSite>> BY <1>6 DEF RefuseSite
  <2>2. CASE requests' = [requests EXCEPT ![r].stage = "answer"]
    BY <1>2, <1>3, <2>1, <2>2
  <2>3. CASE requests' = [requests EXCEPT ![r] = Idle]
    <3>1. Sound(Blank)' BY BlankSound, StaysSound, <1>1
    <3>2. PICK request : request = Idle OBVIOUS
    <3>3. Sound(request.copy)' /\ request.kind # "audit" BY <3>1, <3>2 DEF Idle
    <3>4. accounts \subseteq accounts' /\ accounts' \subseteq AllAccounts
      BY <1>1 DEF AccountsInv
    <3>5. QED BY <1>1, <1>3, <2>1, <2>3, <3>2, <3>3, <3>4, SlotInv
  <2>4. QED BY <1>6, <2>2, <2>3 DEF RefuseSite
<1>7. QED BY <1>4, <1>5, <1>6

\* The answer writes the request's copy into the cookie, counting an audit.
LEMMA AnswerInv ==
  ASSUME AccountsInv, NEW r \in Requests, Answer(r) PROVE AccountsInv'
<1>1. /\ requests[r] \in RequestType /\ Sound(requests[r].copy) /\ Admitted(r)
      /\ requests[r].copy \in Sessions
      /\ UNCHANGED <<accounts, users, links, sites, lastSite>>
      /\ requests' = [requests EXCEPT ![r] = Idle]
  BY RequestTypes DEF Idle, Answer, AccountsInv, RequestType
<1>2. PICK session :
        session = IF requests[r].kind = "audit"
                  THEN [requests[r].copy EXCEPT !.count = requests[r].copy.count + 1]
                  ELSE requests[r].copy
  OBVIOUS
<1>3. cookies' = [cookies EXCEPT ![requests[r].client] = session]
  BY <1>2 DEF Answer
<1>4. Sound(session)
  <2>1. CASE requests[r].kind = "audit"
    <3>1. /\ requests[r].copy.count \in 0..(FreeLimit - 1)
          /\ requests[r].copy.count >= 1 => requests[r].copy.captured
          /\ requests[r].copy.visitor # None
      BY <1>1, <2>1, VisitorAllowance DEF Admitted, Allowed, Sessions
    <3>2. requests[r].copy.count + 1 \in 0..FreeLimit
      BY <3>1, VisitorAllowance
    <3>3. /\ session \in Sessions /\ session.user = requests[r].copy.user
          /\ session.visitor = requests[r].copy.visitor
          /\ session.count = requests[r].copy.count + 1
          /\ session.captured = requests[r].copy.captured
      BY <1>1, <1>2, <2>1, <3>2, VisitorAllowance DEF Sessions
    <3>4. session.count >= 2 => session.captured
      BY <3>1, <3>3, VisitorAllowance
    <3>5. QED BY <1>1, <3>1, <3>3, <3>4 DEF Sound
  <2>2. CASE requests[r].kind # "audit" BY <1>1, <1>2, <2>2
  <2>3. QED BY <2>1, <2>2
<1>5. \A s : Sound(s) => Sound(s)' BY <1>1, StaysSound
<1>6. \A c \in Clients : cookies'[c] \in Sessions /\ Sound(cookies[c])'
  BY <1>3, <1>4, <1>5 DEF AccountsInv, Sound
<1>7. \A q \in Requests : Sound(requests[q].copy)' /\ Admitted(q)'
  <2> SUFFICES ASSUME NEW q \in Requests
               PROVE  Sound(requests[q].copy)' /\ Admitted(q)'
    OBVIOUS
  <2>1. CASE q = r
    <3>1. requests'[q] = Idle BY <1>1, <2>1 DEF AccountsInv
    <3>2. requests'[q].copy = Blank /\ requests'[q].kind = "idle" BY <3>1 DEF Idle
    <3>3. QED BY <1>5, <3>2, BlankSound DEF Admitted
  <2>2. CASE q # r
    <3>1. requests'[q] = requests[q] BY <1>1, <2>2 DEF AccountsInv
    <3>2. Sound(requests[q].copy) /\ Admitted(q) BY DEF AccountsInv
    <3>3. QED BY <1>5, <3>1, <3>2 DEF Admitted, Allowed
  <2>3. QED BY <2>1, <2>2
<1>8. cookies' \in [Clients -> Sessions]
      /\ requests' \in [Requests -> RequestType \union {Idle}]
  BY <1>1, <1>3, <1>6 DEF AccountsInv
<1>9. QED BY <1>1, <1>6, <1>7, <1>8 DEF AccountsInv

\* A deletion takes a site.
LEMMA DeleteInv ==
  ASSUME AccountsInv, NEW c \in Clients, NEW s \in sites, DeleteSite(c, s)
  PROVE  AccountsInv'
<1>1. sites' = sites \ {s}
      /\ UNCHANGED <<accounts, users, links, cookies, lastSite, requests>>
  BY DEF DeleteSite
<1>2. IsFiniteSet(sites') BY <1>1, FS_Subset DEF AccountsInv
<1>3. \A x : Sound(x) => Sound(x)' BY <1>1, StaysSound
<1>4. \A d \in Clients : Sound(cookies[d])' BY <1>1, <1>3 DEF AccountsInv
<1>5. \A r \in Requests : Sound(requests[r].copy)' /\ Admitted(r)'
  BY <1>1, <1>3 DEF AccountsInv, Admitted, Allowed
<1>6. QED BY <1>1, <1>2, <1>4, <1>5 DEF AccountsInv

\* A step on the connections.
LEMMA AccountsStutter ==
  ASSUME AccountsInv, UNCHANGED accountVars PROVE AccountsInv'
<1>1. UNCHANGED <<accounts, users, links, cookies, sites, lastSite, requests>>
  BY DEF accountVars
<1>2. \A x : Sound(x) => Sound(x)' BY <1>1, StaysSound
<1>3. \A d \in Clients : Sound(cookies[d])' BY <1>1, <1>2 DEF AccountsInv
<1>4. \A r \in Requests : Sound(requests[r].copy)' /\ Admitted(r)'
  BY <1>1, <1>2 DEF AccountsInv, Admitted, Allowed
<1>5. QED BY <1>1, <1>3, <1>4 DEF AccountsInv

\* Every step of the dashboard keeps accounts and sessions in order.
LEMMA NextAccounts == ASSUME AccountsInv, [Next]_vars PROVE AccountsInv'
<1>1. ASSUME AccountsNext PROVE AccountsInv'
  BY <1>1, SignInInv, RegisterInv, BeginInv, ProgressInv, AnswerInv
  DEF AccountsNext
<1>2. CASE Delete BY <1>2, DeleteInv DEF Delete
<1>3. CASE UNCHANGED accountVars BY <1>3, AccountsStutter
<1>4. QED BY <1>1, <1>2, <1>3 DEF Next, vars

(***************************************************************************)
(* The keys of the sites                                                   *)
(***************************************************************************)
\* Sites come by an insertion that the constraint lets through, and go by a
\* deletion.
LEMMA SitesChange ==
  ASSUME AccountsInv, [Next]_vars
  PROVE  \/ \E r \in Requests : InsertSite(r)
         \/ \E c \in Clients, s \in sites : DeleteSite(c, s)
         \/ sites' = sites /\ lastSite' = lastSite
  BY ZenonT(30)
     DEF Next, AccountsNext, Login, Logout, MagicLogin, CaptureEmail, SetRole,
         StartAudit, CreateSite, RunSite, FindSite, RefuseSite, Answer, Delete,
         accountVars, vars

\* Only an insertion opens a site.
LEMMA OpenedChange ==
  ASSUME [Next]_vars, ~\E r \in Requests : InsertSite(r)
  PROVE  opened' = opened
  BY ZenonT(30)
     DEF Next, AccountsNext, Login, Logout, MagicLogin, CaptureEmail, SetRole,
         StartAudit, CreateSite, RunSite, FindSite, RefuseSite, Answer, Delete,
         DeleteSite, given, accountVars, vars

\* The new site's key is new.
LEMMA NextKeys ==
  ASSUME AccountsInv, SiteKeys, [Next]_vars PROVE SiteKeys'
<1>1. ASSUME NEW r \in Requests, InsertSite(r) PROVE SiteKeys'
  <2>1. PICK site :
          site = [id |-> lastSite + 1, account |-> requests[r].account,
                  domain |-> requests[r].domain]
    OBVIOUS
  <2>2. /\ sites' = sites \union {site} /\ lastSite' = lastSite + 1
        /\ \A s \in sites : ~(s.account = site.account /\ s.domain = site.domain)
        /\ site.id = lastSite + 1
    BY <1>1, <2>1 DEF InsertSite, Duplicate, SitesOf
  <2>3. \A s \in sites : s.id \in Nat /\ s.id <= lastSite /\ lastSite \in Nat
    BY DEF AccountsInv, Sites, SiteKeys
  <2>4. lastSite \in Nat BY AccountsAssumption DEF AccountsInv
  <2>5. OneSitePerDomain' BY <2>2 DEF SiteKeys, OneSitePerDomain
  <2>6. \A s \in sites' : s.id <= lastSite' BY <2>2, <2>3, <2>4
  <2>7. \A s, t \in sites' : s.id = t.id => s = t
    <3>1. \A s \in sites : s.id # site.id BY <2>2, <2>3
    <3>2. QED BY <2>2, <3>1 DEF SiteKeys
  <2>8. QED BY <2>5, <2>6, <2>7 DEF SiteKeys
<1>2. ASSUME NEW c \in Clients, NEW s \in sites, DeleteSite(c, s) PROVE SiteKeys'
  BY <1>2 DEF DeleteSite, SiteKeys, OneSitePerDomain
<1>3. CASE sites' = sites /\ lastSite' = lastSite
  BY <1>3 DEF SiteKeys, OneSitePerDomain
<1>4. QED BY <1>1, <1>2, <1>3, SitesChange

(***************************************************************************)
(* The first audits                                                        *)
(***************************************************************************)
\* The sets that are counted are finite, and some of the requests.
LEMMA EarlyCounts ==
  ASSUME NEW c
  PROVE  /\ IsFiniteSet(Early(c)) /\ IsFiniteSet(Unqueued(c))
         /\ Cardinality(Early(c)) \in Nat /\ Cardinality(Unqueued(c)) \in Nat
         /\ Cardinality(Requests) \in Nat
         /\ Cardinality(Unqueued(c)) <= Cardinality(Early(c))
         /\ Cardinality(Early(c)) <= Cardinality(Requests)
<1>1. Early(c) \subseteq Requests /\ Unqueued(c) \subseteq Early(c)
  BY DEF Early, Unqueued
<1>2. IsFiniteSet(Early(c)) /\ Cardinality(Early(c)) <= Cardinality(Requests)
  BY <1>1, FS_Subset, AccountsAssumption
<1>3. IsFiniteSet(Unqueued(c)) /\ Cardinality(Unqueued(c)) <= Cardinality(Early(c))
  BY <1>1, <1>2, FS_Subset
<1>4. QED BY <1>2, <1>3, FS_CardinalityType, AccountsAssumption

\* So they are after a step.
LEMMA EarlyCountsNext ==
  ASSUME NEW c
  PROVE  (/\ Cardinality(Early(c)) \in Nat /\ Cardinality(Unqueued(c)) \in Nat
          /\ Cardinality(Requests) \in Nat
          /\ Cardinality(Unqueued(c)) <= Cardinality(Early(c))
          /\ Cardinality(Early(c)) <= Cardinality(Requests))'
<1>1. Early(c)' \subseteq Requests /\ Unqueued(c)' \subseteq Early(c)'
  BY DEF Early, Unqueued
<1>2. IsFiniteSet(Early(c)') /\ Cardinality(Early(c)') <= Cardinality(Requests)
  BY <1>1, FS_Subset, AccountsAssumption
<1>3. IsFiniteSet(Unqueued(c)') /\ Cardinality(Unqueued(c)') <= Cardinality(Early(c)')
  BY <1>1, <1>2, FS_Subset
<1>4. QED BY <1>2, <1>3, FS_CardinalityType, AccountsAssumption

\* A browser that none of it concerns.
LEMMA EarlyKept ==
  ASSUME NEW c \in Clients, FirstAudits(c), unmailed'[c] = unmailed[c],
         cookies'[c].count = cookies[c].count, cookies'[c].user = cookies[c].user,
         Early(c)' = Early(c), Unqueued(c)' = Unqueued(c)
  PROVE  FirstAudits(c)'
  BY DEF FirstAudits

\* A browser where somebody signs in or out.
LEMMA EarlyReset ==
  ASSUME NEW c \in Clients, unmailed'[c] = 0 PROVE FirstAudits(c)'
<1>1. /\ Cardinality(Early(c))' \in Nat /\ Cardinality(Unqueued(c))' \in Nat
      /\ Cardinality(Requests) \in Nat
      /\ Cardinality(Unqueued(c))' <= Cardinality(Early(c))'
      /\ Cardinality(Early(c))' <= Cardinality(Requests)
  BY EarlyCountsNext
<1>2. QED BY <1>1 DEF FirstAudits

\* Signing in and out, and giving an email.
LEMMA SessionEarly ==
  ASSUME AccountsInv, EarlyInv, NEW c \in Clients,
         \/ Login(c) \/ Logout(c)
         \/ \E email \in Emails : MagicLogin(c, email) \/ CaptureEmail(c, email)
  PROVE  EarlyInv'
<1>1. requests' = requests /\ cookies \in [Clients -> Sessions] /\ cookies' \in [Clients -> Sessions]
  <2>1. requests' = requests BY DEF Login, Logout, MagicLogin, CaptureEmail
  <2>2. AccountsInv' BY SignInInv, RegisterInv
  <2>3. QED BY <2>1, <2>2 DEF AccountsInv
<1>2. \A d \in Clients : Early(d)' = Early(d) /\ Unqueued(d)' = Unqueued(d)
  BY <1>1 DEF Early, Unqueued
<1>3. CASE Login(c) \/ Logout(c) \/ \E email \in Emails : MagicLogin(c, email)
  <2>1. unmailed' = [unmailed EXCEPT ![c] = 0]
    BY <1>3 DEF Login, Logout, MagicLogin, login_session
  <2>2. \A d \in Clients : d # c => cookies'[d] = cookies[d]
    BY <1>1, <1>3 DEF Login, Logout, MagicLogin, login_session
  <2>3. ASSUME NEW d \in Clients PROVE FirstAudits(d)'
    <3>1. CASE d = c BY <2>1, <3>1, EarlyReset DEF EarlyInv
    <3>2. CASE d # c
      BY <1>2, <2>1, <2>2, <3>2, EarlyKept DEF EarlyInv
    <3>3. QED BY <3>1, <3>2
  <2>4. QED BY <1>1, <2>1, <2>3 DEF EarlyInv
<1>4. CASE \E email \in Emails : CaptureEmail(c, email)
  <2>1. unmailed' = unmailed /\ cookies' = [cookies EXCEPT ![c].captured = TRUE]
    BY <1>4 DEF CaptureEmail, given
  <2>2. \A d \in Clients : cookies'[d].count = cookies[d].count
                           /\ cookies'[d].user = cookies[d].user
    BY <1>1, <2>1 DEF Sessions
  <2>3. \A d \in Clients : FirstAudits(d)'
    BY <1>2, <2>1, <2>2, EarlyKept DEF EarlyInv
  <2>4. QED BY <1>1, <2>1, <2>3 DEF EarlyInv
<1>5. QED BY <1>3, <1>4

\* A step that changes neither requests nor sessions.
LEMMA StutterEarly ==
  ASSUME EarlyInv, UNCHANGED <<requests, cookies, unmailed>> PROVE EarlyInv'
<1>1. \A c \in Clients : Early(c)' = Early(c) /\ Unqueued(c)' = Unqueued(c)
  BY DEF Early, Unqueued
<1>2. \A c \in Clients : FirstAudits(c)' BY <1>1, EarlyKept DEF EarlyInv
<1>3. QED BY <1>2 DEF EarlyInv

\* A first audit is let in while the cookie counts none: it is one of the
\* requests, as are all that were let in before it.
LEMMA BeginEarly ==
  ASSUME AccountsInv, EarlyInv, NEW c \in Clients, NEW r \in Requests,
         \/ \E domain \in Domains : StartAudit(c, r, domain) \/ CreateSite(c, r, domain)
         \/ \E s \in sites : RunSite(c, r, s)
  PROVE  EarlyInv'
<1>1. /\ requests[r] = Idle /\ UNCHANGED <<cookies, unmailed>>
      /\ cookies[c] \in Sessions
  BY DEF StartAudit, CreateSite, RunSite, Begin, given, AccountsInv
<1>2. PICK request :
        /\ requests' = [requests EXCEPT ![r] = request]
        /\ request.client = c /\ request.stage # "answer"
        /\ request.copy.captured = cookies[c].captured
        /\ request.copy.user = cookies[c].user
        /\ \/ request.kind = "audit" /\ Allowed(cookies[c])
           \/ request.kind # "audit" /\ cookies[c].user # None
  <2>1. CASE \E domain \in Domains : StartAudit(c, r, domain)
    <3>1. PICK account, domain :
            /\ Allowed(cookies[c])
            /\ Begin(r, "audit", "find", c, [cookies[c] EXCEPT !.visitor = account],
                     account, domain)
      BY <2>1 DEF StartAudit
    <3>2. PICK copy : copy = [cookies[c] EXCEPT !.visitor = account] OBVIOUS
    <3>3. copy.captured = cookies[c].captured /\ copy.user = cookies[c].user
      BY <1>1, <3>2 DEF Sessions
    <3>4. PICK request :
            request = [kind |-> "audit", stage |-> "find", client |-> c, copy |-> copy,
                       account |-> account, domain |-> domain]
      OBVIOUS
    <3>5. requests' = [requests EXCEPT ![r] = request] BY <3>1, <3>2, <3>4 DEF Begin
    <3>6. /\ request.client = c /\ request.stage # "answer" /\ request.kind = "audit"
          /\ request.copy.captured = cookies[c].captured
          /\ request.copy.user = cookies[c].user
      BY <3>3, <3>4
    <3>7. QED BY <3>1, <3>5, <3>6, Zenon
  <2>2. CASE \/ \E domain \in Domains : CreateSite(c, r, domain)
             \/ \E s \in sites : RunSite(c, r, s)
    <3>1. PICK kind, stage, account, domain :
            /\ kind # "audit" /\ stage # "answer" /\ cookies[c].user # None
            /\ Begin(r, kind, stage, c, cookies[c], account, domain)
      BY <2>2 DEF CreateSite, RunSite, SignedIn
    <3>2. PICK request :
            request = [kind |-> kind, stage |-> stage, client |-> c, copy |-> cookies[c],
                       account |-> account, domain |-> domain]
      OBVIOUS
    <3>3. requests' = [requests EXCEPT ![r] = request] BY <3>1, <3>2 DEF Begin
    <3>4. /\ request.client = c /\ request.stage # "answer" /\ request.kind # "audit"
          /\ request.copy = cookies[c]
      BY <3>1, <3>2
    <3>5. QED BY <3>1, <3>3, <3>4, Zenon
  <2>3. QED BY <2>1, <2>2
<1>3. /\ requests'[r] = request
      /\ \A q \in Requests : q # r => requests'[q] = requests[q]
  BY <1>2 DEF AccountsInv
<1>4. \A q \in Requests :
        requests'[q].kind \in {"create", "run"} => requests'[q].copy.user # None
  BY <1>2, <1>3 DEF EarlyInv
<1>5. ASSUME NEW d \in Clients PROVE FirstAudits(d)'
  <2>1. FirstAudits(d) /\ unmailed'[d] = unmailed[d] /\ cookies' = cookies
    BY <1>1 DEF EarlyInv
  <2>2. CASE request.kind = "audit" /\ d = c /\ ~cookies[c].captured
    <3>1. Early(d)' = Early(d) \union {r} /\ r \notin Early(d)
      BY <1>1, <1>2, <1>3, <2>2 DEF Early, Idle
    <3>2. Unqueued(d)' = Unqueued(d) \union {r} /\ r \notin Unqueued(d)
      BY <1>2, <1>3, <3>1 DEF Unqueued
    <3>3. /\ Cardinality(Early(d))' = Cardinality(Early(d)) + 1
          /\ Cardinality(Unqueued(d))' = Cardinality(Unqueued(d)) + 1
      BY <3>1, <3>2, EarlyCounts, FS_AddElement
    <3>4. Cardinality(Early(d))' <= Cardinality(Requests)
      BY EarlyCountsNext
    <3>5. cookies[d].count = 0
      BY <1>1, <1>2, <2>2, VisitorAllowance DEF Allowed, Sessions
    <3>6. QED BY <2>1, <3>3, <3>4, <3>5, EarlyCounts DEF FirstAudits
  <2>3. CASE ~(request.kind = "audit" /\ d = c /\ ~cookies[c].captured)
    <3>1. Early(d)' = Early(d) BY <1>1, <1>2, <1>3, <2>3 DEF Early, Idle
    <3>2. Unqueued(d)' = Unqueued(d)
      BY <1>1, <1>3, <3>1, <2>3 DEF Unqueued, Early, Idle
    <3>3. QED BY <2>1, <3>1, <3>2, EarlyKept
  <2>4. QED BY <2>2, <2>3
<1>6. QED BY <1>1, <1>4, <1>5 DEF EarlyInv

\* Queueing an audit takes it from those still to be queued.
LEMMA ProgressEarly ==
  ASSUME AccountsInv, EarlyInv, NEW r \in Requests,
         FindSite(r) \/ InsertSite(r) \/ RefuseSite(r)
  PROVE  EarlyInv'
<1>1. /\ requests[r] \in RequestType /\ requests[r].stage # "answer"
      /\ requests[r].client \in Clients /\ cookies' = cookies
      /\ requests \in [Requests -> RequestType \union {Idle}]
  BY RequestTypes
  DEF Idle, FindSite, InsertSite, RefuseSite, AccountsInv, RequestType
<1>2. unmailed \in [Clients -> Nat] BY DEF EarlyInv
<1>3. CASE requests' = [requests EXCEPT ![r].stage = "answer"] /\ Queue(r)
  <2>1. /\ \A q \in Requests : q # r => requests'[q] = requests[q]
        /\ requests'[r].kind = requests[r].kind /\ requests'[r].copy = requests[r].copy
        /\ requests'[r].client = requests[r].client /\ requests'[r].stage = "answer"
    BY <1>1, <1>3 DEF RequestType
  <2>2. \A d \in Clients : Early(d)' = Early(d) BY <2>1 DEF Early
  <2>3. \A d \in Clients : Unqueued(d)' = Unqueued(d) \ {r}
    <3>1. \A d \in Clients : Early(d) \subseteq Requests BY DEF Early
    <3>2. QED BY <2>1, <2>2, <3>1 DEF Unqueued
  <2>4. ASSUME NEW d \in Clients PROVE FirstAudits(d)' /\ unmailed'[d] \in Nat
    <3>0. FirstAudits(d) BY DEF EarlyInv
    <3>1. CASE r \in Early(d)
      <4>1. r \in Unqueued(d) BY <1>1, <3>1 DEF Unqueued
      <4>2. Cardinality(Unqueued(d) \ {r}) = Cardinality(Unqueued(d)) - 1
        BY <4>1, EarlyCounts, FS_RemoveElement
      <4>3. d = requests[r].client /\ requests[r].kind = "audit"
            /\ ~requests[r].copy.captured
        BY <3>1 DEF Early
      <4>4. unmailed'[d] = IF cookies[d].user # None THEN unmailed[d] ELSE unmailed[d] + 1
        BY <1>2, <1>3, <4>3 DEF Queue, SignedIn
      <4>5. Cardinality(Unqueued(d))' = Cardinality(Unqueued(d)) - 1
        BY <2>3, <4>2
      <4>6. Cardinality(Early(d))' = Cardinality(Early(d)) BY <2>2
      <4>7. QED BY <1>1, <3>0, <4>4, <4>5, <4>6, EarlyCounts DEF FirstAudits
    <3>2. CASE r \notin Early(d)
      <4>1. Unqueued(d)' = Unqueued(d) BY <2>3, <3>2 DEF Unqueued
      <4>2. unmailed'[d] = unmailed[d] BY <1>2, <1>3, <3>2 DEF Queue, Early
      <4>3. QED BY <1>1, <2>2, <3>0, <4>1, <4>2, EarlyKept DEF FirstAudits
    <3>3. QED BY <3>1, <3>2
  <2>5. unmailed' \in [Clients -> Nat] BY <1>2, <1>3, <1>1 DEF Queue
  <2>6. \A q \in Requests :
          requests'[q].kind \in {"create", "run"} => requests'[q].copy.user # None
    BY <2>1 DEF EarlyInv
  <2>7. QED BY <2>4, <2>5, <2>6 DEF EarlyInv
<1>4. CASE /\ unmailed' = unmailed
           /\ \/ requests' = [requests EXCEPT ![r].stage = "insert"]
              \/ /\ requests' = [requests EXCEPT ![r].stage = "answer"]
                 /\ requests[r].kind # "audit"
  <2>1. /\ \A q \in Requests : q # r => requests'[q] = requests[q]
        /\ requests'[r].kind = requests[r].kind /\ requests'[r].copy = requests[r].copy
        /\ requests'[r].client = requests[r].client
        /\ requests'[r].stage # "answer" \/ requests[r].kind # "audit"
    BY <1>1, <1>4 DEF RequestType
  <2>2. \A d \in Clients : Early(d)' = Early(d) BY <2>1 DEF Early
  <2>3. \A d \in Clients : Unqueued(d)' = Unqueued(d)
    BY <1>1, <2>1, <2>2 DEF Unqueued, Early
  <2>4. \A d \in Clients : FirstAudits(d)'
    BY <1>1, <1>4, <2>2, <2>3, EarlyKept DEF EarlyInv
  <2>5. QED BY <1>2, <1>4, <2>1, <2>4 DEF EarlyInv
<1>5. CASE unmailed' = unmailed /\ requests' = [requests EXCEPT ![r] = Idle]
  <2>1. /\ \A q \in Requests : q # r => requests'[q] = requests[q]
        /\ requests'[r].kind = "idle"
    BY <1>1, <1>5 DEF Idle
  <2>2. ASSUME NEW d \in Clients PROVE FirstAudits(d)'
    <3>0. FirstAudits(d) BY DEF EarlyInv
    <3>1. Early(d)' = Early(d) \ {r} BY <2>1 DEF Early
    <3>2. Unqueued(d)' = Unqueued(d) \ {r}
      <4>1. Early(d) \subseteq Requests BY DEF Early
      <4>2. QED BY <2>1, <3>1, <4>1 DEF Unqueued
    <3>3. CASE r \in Early(d)
      <4>1. r \in Unqueued(d) BY <1>1, <3>3 DEF Unqueued
      <4>2. /\ Cardinality(Early(d) \ {r}) = Cardinality(Early(d)) - 1
            /\ Cardinality(Unqueued(d) \ {r}) = Cardinality(Unqueued(d)) - 1
        <5>1. Cardinality(Early(d) \ {r}) = Cardinality(Early(d)) - 1
          BY <3>3, EarlyCounts, FS_RemoveElement
        <5>2. Cardinality(Unqueued(d) \ {r}) = Cardinality(Unqueued(d)) - 1
          BY <4>1, EarlyCounts, FS_RemoveElement
        <5>3. QED BY <5>1, <5>2
      <4>3. /\ Cardinality(Early(d))' = Cardinality(Early(d)) - 1
            /\ Cardinality(Unqueued(d))' = Cardinality(Unqueued(d)) - 1
        BY <3>1, <3>2, <4>2
      <4>4. unmailed'[d] = unmailed[d] /\ cookies'[d] = cookies[d] BY <1>1, <1>5
      <4>5. QED BY <3>0, <4>3, <4>4, EarlyCounts DEF FirstAudits
    <3>4. CASE r \notin Early(d)
      <4>1. Early(d)' = Early(d) /\ Unqueued(d)' = Unqueued(d)
        BY <3>1, <3>2, <3>4 DEF Unqueued
      <4>2. QED BY <1>1, <1>5, <3>0, <4>1, EarlyKept
    <3>5. QED BY <3>3, <3>4
  <2>3. \A q \in Requests :
          requests'[q].kind \in {"create", "run"} => requests'[q].copy.user # None
    BY <2>1 DEF EarlyInv
  <2>4. QED BY <1>2, <1>5, <2>2, <2>3 DEF EarlyInv
<1>6. QED
  <2>1. CASE FindSite(r) BY <1>3, <1>4, <2>1 DEF FindSite
  <2>2. CASE InsertSite(r) BY <1>3, <2>2 DEF InsertSite
  <2>3. CASE RefuseSite(r) BY <1>4, <1>5, <2>3 DEF RefuseSite, given
  <2>4. QED BY <2>1, <2>2, <2>3

\* Once an audit is answered, the cookie counts one, or somebody is signed in.
LEMMA AnswerEarly ==
  ASSUME AccountsInv, EarlyInv, NEW r \in Requests, Answer(r) PROVE EarlyInv'
<1>1. /\ requests[r] \in RequestType /\ requests[r].stage = "answer"
      /\ requests[r].client \in Clients /\ requests[r].copy \in Sessions
      /\ requests \in [Requests -> RequestType \union {Idle}]
      /\ requests' = [requests EXCEPT ![r] = Idle]
  BY RequestTypes DEF Idle, Answer, AccountsInv, RequestType
<1>2. PICK session :
        session = IF requests[r].kind = "audit"
                  THEN [requests[r].copy EXCEPT !.count = requests[r].copy.count + 1]
                  ELSE requests[r].copy
  OBVIOUS
<1>3. cookies' = [cookies EXCEPT ![requests[r].client] = session]
  BY <1>2 DEF Answer
<1>4. requests[r].copy.user = None => session.user = None /\ session.count # 0
  <2>1. SUFFICES ASSUME requests[r].copy.user = None
                 PROVE  session.user = None /\ session.count # 0
    OBVIOUS
  <2>2. requests[r].kind = "audit" BY <1>1, <2>1 DEF EarlyInv, RequestType
  <2>3. requests[r].copy.count \in Nat BY <1>1, VisitorAllowance DEF Sessions
  <2>4. session.user = requests[r].copy.user /\ session.count = requests[r].copy.count + 1
    BY <1>1, <1>2, <2>2 DEF Sessions
  <2>5. QED BY <2>1, <2>3, <2>4
<1>5. /\ \A q \in Requests : q # r => requests'[q] = requests[q]
      /\ requests'[r].kind = "idle"
  BY <1>1 DEF Idle
<1>6. unmailed \in [Clients -> Nat]
      /\ unmailed' = IF requests[r].copy.user = None THEN unmailed
                     ELSE [unmailed EXCEPT ![requests[r].client] = 0]
  BY DEF EarlyInv, Answer
<1>7. ASSUME NEW d \in Clients PROVE FirstAudits(d)'
  <2>0. FirstAudits(d) /\ cookies \in [Clients -> Sessions] BY DEF EarlyInv, AccountsInv
  <2>1. Early(d)' = Early(d) \ {r} BY <1>5 DEF Early
  <2>2. Unqueued(d)' = Unqueued(d) BY <1>1, <1>5, <2>1 DEF Unqueued
  <2>3. CASE d # requests[r].client
    <3>1. Early(d)' = Early(d) BY <2>1, <2>3 DEF Early
    <3>2. cookies'[d] = cookies[d] /\ unmailed'[d] = unmailed[d]
      BY <1>3, <1>6, <2>0, <2>3
    <3>3. QED BY <2>0, <2>2, <3>1, <3>2, EarlyKept
  <2>4. CASE d = requests[r].client /\ requests[r].copy.user # None
    BY <1>6, <2>4, EarlyReset
  <2>5. CASE d = requests[r].client /\ requests[r].copy.user = None
    <3>1. cookies'[d] = session BY <1>3, <2>0, <2>5
    <3>2. unmailed'[d] = unmailed[d] BY <1>6, <2>5
    <3>3. QED BY <1>4, <2>0, <2>2, <2>5, <3>1, <3>2 DEF FirstAudits
  <2>6. QED BY <2>3, <2>4, <2>5
<1>8. unmailed' \in [Clients -> Nat] BY <1>1, <1>6
<1>9. QED BY <1>5, <1>7, <1>8 DEF EarlyInv

\* Every step keeps it, and it holds before anybody came.
LEMMA NextEarly == ASSUME AccountsInv, EarlyInv, [Next]_vars PROVE EarlyInv'
<1>1. CASE AccountsNext
  <2>1. ASSUME NEW c \in Clients, NEW email \in Emails, NEW role, SetRole(c, email, role)
        PROVE  EarlyInv'
    BY <2>1, StutterEarly DEF SetRole, given
  <2>2. QED
    BY <1>1, <2>1, SessionEarly, BeginEarly, ProgressEarly, AnswerEarly DEF AccountsNext
<1>2. CASE Delete BY <1>2, StutterEarly DEF Delete, DeleteSite, given
<1>3. CASE UNCHANGED accountVars BY <1>3, StutterEarly DEF accountVars, given
<1>4. QED BY <1>1, <1>2, <1>3 DEF Next, vars

\* The program starts without an audit under way.
LEMMA InitEarly == ASSUME NEW db \in Databases, AccountsInit(db) PROVE EarlyInv
<1>1. \A r \in Requests : requests[r] = Idle BY DEF AccountsInit
<1>2. unmailed = [c \in Clients |-> 0] BY DEF AccountsInit
<1>3. ASSUME NEW c \in Clients PROVE FirstAudits(c)
  BY <1>2, EarlyCounts DEF FirstAudits
<1>4. QED BY <1>1, <1>2, <1>3 DEF EarlyInv, Idle

(***************************************************************************)
(* The plan's limit                                                        *)
(***************************************************************************)
\* The image of a finite set has no more elements than the set.
LEMMA ImageCounts ==
  ASSUME NEW S, IsFiniteSet(S), NEW g, NEW T, T = {g[x] : x \in S}
  PROVE  IsFiniteSet(T) /\ Cardinality(T) <= Cardinality(S)
<1> DEFINE f == [x \in S |-> g[x]]
<1>1. f \in Surjection(S, T) BY DEF Surjection
<1>2. QED BY <1>1, FS_Surjection

\* Two finite sets together have no more elements than both have.
LEMMA UnionCounts ==
  ASSUME NEW A, IsFiniteSet(A), NEW B, IsFiniteSet(B)
  PROVE  /\ IsFiniteSet(A \union B) /\ Cardinality(A \union B) \in Nat
         /\ Cardinality(A) \in Nat /\ Cardinality(B) \in Nat
         /\ Cardinality(A \union B) <= Cardinality(A) + Cardinality(B)
<1>1. /\ IsFiniteSet(A \union B)
      /\ Cardinality(A \union B)
           = Cardinality(A) + Cardinality(B) - Cardinality(A \cap B)
  BY FS_Union
<1>2. IsFiniteSet(A \cap B) BY FS_Intersection
<1>3. Cardinality(A) \in Nat /\ Cardinality(B) \in Nat BY FS_CardinalityType
<1>4. Cardinality(A \cap B) \in Nat /\ Cardinality(A \union B) \in Nat
  BY <1>1, <1>2, FS_CardinalityType
<1> DEFINE n == Cardinality(A)  m == Cardinality(B)
           i == Cardinality(A \cap B)  u == Cardinality(A \union B)
<1>5. n \in Nat /\ m \in Nat /\ i \in Nat /\ u \in Nat /\ u = n + m - i BY <1>1, <1>3, <1>4
<1>6. u <= n + m
  <2> HIDE DEF n, m, i, u
  <2> QED BY <1>5
<1>7. QED BY <1>1, <1>3, <1>4, <1>6

\* The sets that are counted are finite.
LEMMA HeldCounts ==
  ASSUME IsFiniteSet(sites), NEW account
  PROVE  /\ IsFiniteSet(SitesOf(account)) /\ IsFiniteSet(Placing(account))
         /\ IsFiniteSet(Held(account)) /\ Cardinality(Held(account)) \in Nat
         /\ Cardinality(SitesOf(account)) \in Nat /\ Cardinality(Requests) \in Nat
         /\ Cardinality(Held(account))
              <= Cardinality(SitesOf(account)) + Cardinality(Placing(account))
         /\ Cardinality(Placing(account)) <= Cardinality(Requests)
         /\ Cardinality(Placing(account)) \in Nat
<1>1. IsFiniteSet(SitesOf(account)) BY FS_Subset DEF SitesOf
<1>2. IsFiniteSet(Placing(account)) /\ Cardinality(Placing(account)) <= Cardinality(Requests)
  BY FS_Subset, AccountsAssumption DEF Placing
<1>3. /\ IsFiniteSet(Held(account)) /\ Cardinality(Held(account)) \in Nat
      /\ Cardinality(SitesOf(account)) \in Nat /\ Cardinality(Placing(account)) \in Nat
      /\ Cardinality(Held(account))
           <= Cardinality(SitesOf(account)) + Cardinality(Placing(account))
  <2>1. PICK S, R, A, B :
          /\ S = SitesOf(account) /\ A = {s.domain : s \in SitesOf(account)}
          /\ R = Placing(account) /\ B = {requests[r].domain : r \in Placing(account)}
    OBVIOUS
  <2>2. PICK g, h : g = [s \in S |-> s.domain] /\ h = [r \in R |-> requests[r].domain]
    OBVIOUS
  <2>3. A = {g[s] : s \in S} /\ B = {h[r] : r \in R} BY <2>1, <2>2
  <2>4. IsFiniteSet(S) /\ IsFiniteSet(R) BY <1>1, <1>2, <2>1
  <2>5. IsFiniteSet(A) /\ Cardinality(A) <= Cardinality(S) BY <2>3, <2>4, ImageCounts
  <2>6. IsFiniteSet(B) /\ Cardinality(B) <= Cardinality(R) BY <2>3, <2>4, ImageCounts
  <2>7. Cardinality(S) \in Nat /\ Cardinality(R) \in Nat BY <2>4, FS_CardinalityType
  <2>8. /\ IsFiniteSet(A \union B) /\ Cardinality(A \union B) \in Nat
        /\ Cardinality(A) \in Nat /\ Cardinality(B) \in Nat
        /\ Cardinality(A \union B) <= Cardinality(A) + Cardinality(B)
    BY <2>5, <2>6, UnionCounts
  <2>9. Cardinality(A \union B) <= Cardinality(S) + Cardinality(R)
    BY <2>5, <2>6, <2>7, <2>8
  <2>10. Held(account) = A \union B BY <2>1 DEF Held
  <2>11. QED BY <2>1, <2>7, <2>8, <2>9, <2>10
<1>4. QED BY <1>1, <1>2, <1>3, FS_CardinalityType, AccountsAssumption

\* So they are after a step.
LEMMA HeldCountsNext ==
  ASSUME IsFiniteSet(sites'), NEW account
  PROVE  (/\ IsFiniteSet(SitesOf(account)) /\ IsFiniteSet(Placing(account))
          /\ Cardinality(Held(account)) \in Nat
          /\ Cardinality(SitesOf(account)) \in Nat /\ Cardinality(Requests) \in Nat
          /\ Cardinality(Held(account))
               <= Cardinality(SitesOf(account)) + Cardinality(Placing(account))
          /\ Cardinality(Placing(account)) <= Cardinality(Requests)
          /\ Cardinality(Placing(account)) \in Nat)'
<1>1. IsFiniteSet(SitesOf(account)') BY FS_Subset DEF SitesOf
<1>2. IsFiniteSet(Placing(account)') /\ Cardinality(Placing(account)') <= Cardinality(Requests)
  BY FS_Subset, AccountsAssumption DEF Placing
<1>3. /\ IsFiniteSet(Held(account)') /\ Cardinality(Held(account)') \in Nat
      /\ Cardinality(SitesOf(account)') \in Nat /\ Cardinality(Placing(account)') \in Nat
      /\ Cardinality(Held(account)')
           <= Cardinality(SitesOf(account)') + Cardinality(Placing(account)')
  <2>1. PICK S, R, A, B :
          /\ S = SitesOf(account)' /\ A = {s.domain : s \in SitesOf(account)'}
          /\ R = Placing(account)' /\ B = {requests'[r].domain : r \in Placing(account)'}
    OBVIOUS
  <2>2. PICK g, h : g = [s \in S |-> s.domain] /\ h = [r \in R |-> requests'[r].domain]
    OBVIOUS
  <2>3. A = {g[s] : s \in S} /\ B = {h[r] : r \in R} BY <2>1, <2>2
  <2>4. IsFiniteSet(S) /\ IsFiniteSet(R) BY <1>1, <1>2, <2>1
  <2>5. IsFiniteSet(A) /\ Cardinality(A) <= Cardinality(S) BY <2>3, <2>4, ImageCounts
  <2>6. IsFiniteSet(B) /\ Cardinality(B) <= Cardinality(R) BY <2>3, <2>4, ImageCounts
  <2>7. Cardinality(S) \in Nat /\ Cardinality(R) \in Nat BY <2>4, FS_CardinalityType
  <2>8. /\ IsFiniteSet(A \union B) /\ Cardinality(A \union B) \in Nat
        /\ Cardinality(A) \in Nat /\ Cardinality(B) \in Nat
        /\ Cardinality(A \union B) <= Cardinality(A) + Cardinality(B)
    BY <2>5, <2>6, UnionCounts
  <2>9. Cardinality(A \union B) <= Cardinality(S) + Cardinality(R)
    BY <2>5, <2>6, <2>7, <2>8
  <2>10. Held(account)' = A \union B BY <2>1 DEF Held
  <2>11. QED BY <2>1, <2>7, <2>8, <2>9, <2>10
<1>4. QED BY <1>1, <1>2, <1>3, FS_CardinalityType, AccountsAssumption

\* Its sites have a domain each.
LEMMA SitesHeld ==
  ASSUME AccountsInv, SiteKeys, NEW account
  PROVE  Cardinality(SitesOf(account)) <= Cardinality(Held(account))
<1>1. PICK g : g = [s \in SitesOf(account) |-> s.domain] OBVIOUS
<1>2. g \in Injection(SitesOf(account), Held(account))
  BY <1>1 DEF Injection, IsInjective, Held, SitesOf, SiteKeys, OneSitePerDomain
<1>3. IsFiniteSet(Held(account)) BY HeldCounts DEF AccountsInv
<1>4. QED BY <1>2, <1>3, FS_Injection

\* A step that wants no domain but those that are held.
LEMMA HeldKept ==
  ASSUME AccountsInv, AccountsInv', Overshoot, NEW account \in AllAccounts \ {House},
         Held(account)' \subseteq Held(account), opened' \in [AllAccounts -> Nat],
         opened'[account] >= opened[account]
  PROVE  (Cardinality(Held(account))
            <= FreeLimit - 1 + Cardinality(Requests) + opened[account])'
<1>1. Cardinality(Held(account))' <= Cardinality(Held(account))
      /\ Cardinality(Held(account)) \in Nat /\ Cardinality(Held(account))' \in Nat
      /\ Cardinality(Requests) \in Nat
  <2>1. IsFiniteSet(Held(account)) BY HeldCounts DEF AccountsInv
  <2>2. QED BY <2>1, FS_Subset, FS_CardinalityType, AccountsAssumption
<1>2. Cardinality(Held(account)) <= FreeLimit - 1 + Cardinality(Requests) + opened[account]
      /\ opened[account] \in Nat /\ opened'[account] \in Nat
  BY DEF Overshoot
<1>3. QED BY <1>1, <1>2, AccountsAssumption

\* A database keeps to its plans but for the audits, and no request is under way.
LEMMA InitOvershoot ==
  ASSUME NEW db \in Databases, AccountsInit(db) PROVE Overshoot
<1>1. AccountsInv BY InitAccounts
<1>2. \A r \in Requests : requests[r] = Idle BY DEF AccountsInit
<1>3. \A account \in AllAccounts : opened[account] = db.opened[account]
      /\ db.opened[account] \in Nat
      /\ Cardinality(SitesOf(account)) <= FreeLimit + db.opened[account]
  BY DatabasesAssumption DEF AccountsInit, SitesOf
<1>4. opened \in [AllAccounts -> Nat] BY <1>3 DEF AccountsInit
<1>5. ASSUME NEW account \in AllAccounts \ {House}
      PROVE  Cardinality(Held(account))
               <= FreeLimit - 1 + Cardinality(Requests) + opened[account]
  <2>1. Placing(account) = {} BY <1>2 DEF Placing, Idle
  <2>2. Cardinality(Placing(account)) = 0 BY <2>1, FS_EmptySet
  <2>3. Cardinality(Requests) # 0 BY AccountsAssumption, FS_EmptySet
  <2>4. QED
    BY <1>1, <1>3, <2>2, <2>3, HeldCounts, AccountsAssumption DEF AccountsInv
<1>6. QED BY <1>4, <1>5 DEF Overshoot

\* A request that passes the limit is counted before it inserts.
LEMMA CreateOvershoot ==
  ASSUME AccountsInv, AccountsInv', Overshoot, NEW c \in Clients, NEW r \in Requests,
         NEW domain \in Domains, CreateSite(c, r, domain)
  PROVE  Overshoot'
<1>1. PICK owner : owner = CurrentAccount(c) OBVIOUS
<1>2. /\ ~at_site_limit(Cardinality(SitesOf(owner)), plan_tier(owner))
      /\ requests[r] = Idle /\ sites' = sites /\ opened' = opened
      /\ requests' = [requests EXCEPT ![r] =
           [kind |-> "create", stage |-> "insert", client |-> c,
            copy |-> cookies[c], account |-> owner, domain |-> domain]]
  BY <1>1 DEF CreateSite, Begin, given
<1>3. /\ \A q \in Requests : q # r => requests'[q] = requests[q]
      /\ requests'[r].account = owner
  BY <1>2 DEF AccountsInv
<1>4. ASSUME NEW account \in AllAccounts \ {House}
      PROVE  (Cardinality(Held(account))
                <= FreeLimit - 1 + Cardinality(Requests) + opened[account])'
  <2>1. SitesOf(account)' = SitesOf(account) BY <1>2 DEF SitesOf
  <2>2. CASE account = owner
    <3>1. plan_tier(account) = "free" /\ max_sites_for("free") = FreeLimit
          /\ max_sites_for("free") # None
      BY AccountsAssumption DEF plan_tier, max_sites_for
    <3>2. ~(Cardinality(SitesOf(account)) >= FreeLimit)
      BY <1>2, <2>2, <3>1 DEF at_site_limit
    <3>3. Cardinality(SitesOf(account)) <= FreeLimit - 1
          /\ Cardinality(SitesOf(account)) \in Nat
      BY <3>2, HeldCounts, AccountsAssumption DEF AccountsInv
    <3>4. /\ IsFiniteSet(SitesOf(account)') /\ IsFiniteSet(Placing(account)')
          /\ Cardinality(Placing(account)') <= Cardinality(Requests)
          /\ Cardinality(Placing(account)') \in Nat /\ Cardinality(Requests) \in Nat
          /\ Cardinality(Held(account)') \in Nat
          /\ Cardinality(Held(account)')
               <= Cardinality(SitesOf(account)') + Cardinality(Placing(account)')
      BY HeldCountsNext DEF AccountsInv
    <3>5. opened'[account] \in Nat BY <1>2 DEF Overshoot
    <3>6. QED BY <2>1, <3>3, <3>4, <3>5, AccountsAssumption
  <2>3. CASE account # owner
    <3>1. Placing(account)' = Placing(account)
      BY <1>2, <1>3, <2>3 DEF Placing, Idle
    <3>2. \A q \in Placing(account) : requests'[q] = requests[q]
      BY <1>2, <1>3 DEF Placing, Idle
    <3>3. Held(account)' = Held(account) BY <2>1, <3>1, <3>2 DEF Held
    <3>4. QED BY <1>2, <3>3, HeldKept DEF Overshoot
  <2>4. QED BY <2>2, <2>3
<1>5. QED BY <1>2, <1>4 DEF Overshoot

\* An insertion's domain is held already, or it is one more that an audit opened.
LEMMA InsertOvershoot ==
  ASSUME AccountsInv, AccountsInv', Overshoot, NEW r \in Requests, InsertSite(r)
  PROVE  Overshoot'
<1>1. PICK site :
        site = [id |-> lastSite + 1, account |-> requests[r].account,
                domain |-> requests[r].domain]
  OBVIOUS
<1>2. /\ sites' = sites \union {site} /\ site.account = requests[r].account
      /\ site.domain = requests[r].domain /\ requests[r].stage = "insert"
      /\ requests' = [requests EXCEPT ![r].stage = "answer"]
  BY <1>1 DEF InsertSite
<1>3. requests[r] \in RequestType /\ requests[r].account \in AllAccounts
      /\ opened \in [AllAccounts -> Nat]
  BY <1>2, RequestTypes DEF Idle, RequestType, Overshoot
<1>4. /\ requests'[r].stage = "answer"
      /\ \A q \in Requests : q # r => requests'[q] = requests[q]
  BY <1>2, <1>3 DEF AccountsInv, RequestType
<1>5. \A account : Placing(account)' = Placing(account) \ {r}
  BY <1>4 DEF Placing
<1>6. opened' = IF requests[r].kind = "audit"
                THEN [opened EXCEPT ![requests[r].account] = opened[requests[r].account] + 1]
                ELSE opened
  BY DEF InsertSite
<1>7. opened' \in [AllAccounts -> Nat]
      /\ \A account \in AllAccounts : opened'[account] >= opened[account]
  BY <1>3, <1>6
<1>8. ASSUME NEW account \in AllAccounts \ {House}
      PROVE  (Cardinality(Held(account))
                <= FreeLimit - 1 + Cardinality(Requests) + opened[account])'
  <2>1. \A q \in Placing(account)' : q \in Placing(account) /\ requests'[q] = requests[q]
    BY <1>4, <1>5 DEF Placing
  <2>2. CASE account # requests[r].account
    <3>1. SitesOf(account)' = SitesOf(account) BY <1>2, <2>2 DEF SitesOf
    <3>2. Held(account)' \subseteq Held(account) BY <2>1, <3>1 DEF Held
    <3>3. QED BY <1>7, <3>2, HeldKept
  <2>3. CASE account = requests[r].account /\ requests[r].kind # "audit"
    <3>1. r \in Placing(account) BY <1>2, <1>3, <2>3 DEF Placing, RequestType
    <3>2. SitesOf(account)' = SitesOf(account) \union {site} BY <1>2, <2>3 DEF SitesOf
    <3>3. Held(account)' \subseteq Held(account) BY <1>2, <2>1, <3>1, <3>2 DEF Held
    <3>4. QED BY <1>7, <3>3, HeldKept
  <2>4. CASE account = requests[r].account /\ requests[r].kind = "audit"
    <3>1. SitesOf(account)' = SitesOf(account) \union {site} BY <1>2, <2>4 DEF SitesOf
    <3>2. Held(account)' \subseteq Held(account) \union {site.domain}
      BY <2>1, <3>1 DEF Held
    <3>3. IsFiniteSet(Held(account)) /\ Cardinality(Held(account)) \in Nat
          /\ Cardinality(Requests) \in Nat
      BY HeldCounts DEF AccountsInv
    <3>4. /\ IsFiniteSet(Held(account) \union {site.domain})
          /\ \/ Cardinality(Held(account) \union {site.domain}) = Cardinality(Held(account))
             \/ Cardinality(Held(account) \union {site.domain})
                  = Cardinality(Held(account)) + 1
      BY <3>3, FS_AddElement
    <3>5. /\ Cardinality(Held(account)') \in Nat
          /\ Cardinality(Held(account)')
               <= Cardinality(Held(account) \union {site.domain})
      BY <3>2, <3>4, FS_Subset, FS_CardinalityType
    <3>6. opened'[account] = opened[account] + 1 /\ opened[account] \in Nat
      BY <1>3, <1>6, <2>4
    <3>7. Cardinality(Held(account))
            <= FreeLimit - 1 + Cardinality(Requests) + opened[account]
      BY DEF Overshoot
    <3>8. QED BY <3>3, <3>4, <3>5, <3>6, <3>7, AccountsAssumption
  <2>5. QED BY <2>2, <2>3, <2>4
<1>9. QED BY <1>7, <1>8 DEF Overshoot

\* No other step wants a domain that is not held.
LEMMA OtherOvershoot ==
  ASSUME AccountsInv, AccountsInv', Overshoot, [Next]_vars,
         ~\E r \in Requests : InsertSite(r),
         ~\E c \in Clients, r \in Requests, domain \in Domains : CreateSite(c, r, domain)
  PROVE  Overshoot'
<1>1. sites' \subseteq sites
  <2>1. CASE \E c \in Clients, s \in sites : DeleteSite(c, s) BY <2>1 DEF DeleteSite
  <2>2. QED BY <2>1, SitesChange
<1>2. opened' = opened BY OpenedChange
<1>3. ASSUME NEW r \in Requests, requests'[r] # requests[r],
             requests'[r].kind \in {"create", "run"},
             requests'[r].stage \in {"find", "insert"}
      PROVE  \/ /\ requests[r].kind = requests'[r].kind
                /\ requests[r].stage \in {"find", "insert"}
                /\ requests[r].account = requests'[r].account
                /\ requests[r].domain = requests'[r].domain
             \/ \E s \in SitesOf(requests'[r].account) :
                  s \in sites' /\ s.domain = requests'[r].domain
  <2> DEFINE Slot(q, request) == requests' = [requests EXCEPT ![q] = request]
  <2>1. ASSUME NEW q \in Requests, NEW request, Slot(q, request)
        PROVE  requests'[r] = request /\ q = r
    BY <1>3, <2>1 DEF AccountsInv
  <2>2. requests' # requests BY <1>3
  <2>3. AccountsNext BY <2>2 DEF Next, Delete, DeleteSite, accountVars, vars
  <2>4. ASSUME NEW c \in Clients, NEW q \in Requests, NEW domain \in Domains,
               StartAudit(c, q, domain)
        PROVE  FALSE
    <3>1. PICK copy, account : Begin(q, "audit", "find", c, copy, account, domain)
      BY <2>4 DEF StartAudit
    <3>2. PICK request :
            request = [kind |-> "audit", stage |-> "find", client |-> c, copy |-> copy,
                       account |-> account, domain |-> domain]
      OBVIOUS
    <3>3. Slot(q, request) BY <3>1, <3>2 DEF Begin
    <3>4. requests'[r] = request BY <2>1, <3>3
    <3>5. QED BY <1>3, <3>2, <3>4
  <2>5. ASSUME NEW c \in Clients, NEW q \in Requests, NEW s \in sites, RunSite(c, q, s)
        PROVE  s \in SitesOf(requests'[r].account) /\ s \in sites'
               /\ s.domain = requests'[r].domain
    <3>1. PICK request :
            request = [kind |-> "run", stage |-> "find", client |-> c,
                       copy |-> cookies[c], account |-> s.account, domain |-> s.domain]
      OBVIOUS
    <3>2. Slot(q, request) /\ sites' = sites BY <2>5, <3>1 DEF RunSite, Begin
    <3>3. requests'[r] = request BY <2>1, <3>2
    <3>4. QED BY <3>1, <3>2, <3>3 DEF SitesOf
  <2>6. ASSUME NEW q \in Requests, FindSite(q) \/ RefuseSite(q) \/ Answer(q)
        PROVE  /\ requests[r].kind = requests'[r].kind
               /\ requests[r].stage \in {"find", "insert"}
               /\ requests[r].account = requests'[r].account
               /\ requests[r].domain = requests'[r].domain
    <3>1. CASE requests' = [requests EXCEPT ![q] = Idle]
      <4>1. PICK request : request = Idle OBVIOUS
      <4>2. Slot(q, request) BY <3>1, <4>1
      <4>3. requests'[r] = request BY <2>1, <4>2
      <4>4. QED BY <1>3, <4>1, <4>3 DEF Idle
    <3>2. CASE /\ requests[q].stage \in {"find", "insert"}
               /\ \E stage \in {"insert", "answer"} :
                    requests' = [requests EXCEPT ![q].stage = stage]
      <4>1. PICK stage \in {"insert", "answer"} :
              requests' = [requests EXCEPT ![q].stage = stage]
        BY <3>2
      <4>2. PICK request : request = [requests[q] EXCEPT !.stage = stage] OBVIOUS
      <4>3. Slot(q, request) BY <4>1, <4>2
      <4>4. requests'[r] = request /\ q = r BY <2>1, <4>3
      <4>5. requests[q] \in RequestType BY <3>2, RequestTypes DEF Idle
      <4>6. /\ request.kind = requests[q].kind /\ request.account = requests[q].account
            /\ request.domain = requests[q].domain
        BY <4>2, <4>5 DEF RequestType
      <4>7. QED BY <3>2, <4>4, <4>6
    <3>3. QED BY <2>6, <3>1, <3>2 DEF FindSite, RefuseSite, Answer
  <2>7. ASSUME NEW c \in Clients PROVE /\ ~Login(c) /\ ~Logout(c)
                                       /\ \A email \in Emails :
                                            /\ ~MagicLogin(c, email)
                                            /\ ~CaptureEmail(c, email)
                                            /\ \A role : ~SetRole(c, email, role)
    BY <2>2 DEF Login, Logout, MagicLogin, CaptureEmail, SetRole
  <2>8. \/ \E c \in Clients, q \in Requests, domain \in Domains : StartAudit(c, q, domain)
        \/ \E c \in Clients, q \in Requests, s \in sites : RunSite(c, q, s)
        \/ \E q \in Requests : FindSite(q) \/ RefuseSite(q) \/ Answer(q)
    BY <2>3, <2>7 DEF AccountsNext
  <2>9. QED BY <2>4, <2>5, <2>6, <2>8
<1>4. ASSUME NEW account \in AllAccounts \ {House}
      PROVE  (Cardinality(Held(account))
                <= FreeLimit - 1 + Cardinality(Requests) + opened[account])'
  <2>1. ASSUME NEW r \in Placing(account)' PROVE requests'[r].domain \in Held(account)
    <3>1. /\ r \in Requests /\ requests'[r].account = account
          /\ requests'[r].kind \in {"create", "run"}
          /\ requests'[r].stage \in {"find", "insert"}
      BY <2>1 DEF Placing
    <3>2. CASE requests'[r] = requests[r] BY <3>1, <3>2 DEF Placing, Held
    <3>3. CASE requests'[r] # requests[r] BY <1>3, <3>1, <3>3 DEF Placing, Held
    <3>4. QED BY <3>2, <3>3
  <2>2. SitesOf(account)' \subseteq SitesOf(account) BY <1>1 DEF SitesOf
  <2>3. Held(account)' \subseteq Held(account) BY <2>1, <2>2 DEF Held
  <2>4. QED BY <1>2, <2>3, HeldKept DEF Overshoot
<1>5. QED BY <1>2, <1>4 DEF Overshoot

(***************************************************************************)
(* The inductive invariant                                                 *)
(***************************************************************************)
\* It holds on every database.
LEMMA InitSites == Init => SitesInv
<1> SUFFICES ASSUME NEW db \in Databases, AccountsInit(db) PROVE SitesInv
  BY DEF Init
<1>1. SiteKeys BY DatabasesAssumption DEF AccountsInit, SiteKeys, OneSitePerDomain
<1>2. QED BY <1>1, InitAccounts, InitEarly, InitOvershoot DEF SitesInv

\* Every step keeps it.
LEMMA NextSites == ASSUME SitesInv, [Next]_vars PROVE SitesInv'
<1>1. AccountsInv' /\ SiteKeys' /\ EarlyInv'
  BY NextAccounts, NextKeys, NextEarly DEF SitesInv
<1>2. Overshoot'
  BY <1>1, CreateOvershoot, InsertOvershoot, OtherOvershoot DEF SitesInv
<1>3. QED BY <1>1, <1>2 DEF SitesInv

\* The invariant of accounts, sessions and sites.
THEOREM SitesInvariant == Spec => []SitesInv
  BY InitSites, NextSites, PTL DEF Spec

\* However many requests overlap and overwrite each other's cookie, until
\* somebody signs in with the browser it gets no more audits without an email
\* than the server handles at a time.
THEOREM EmailTheorem == Spec => []EmailComesFirst
<1>1. SitesInv => EmailComesFirst
  <2> SUFFICES ASSUME SitesInv, NEW c \in Clients
               PROVE  unmailed[c] <= Cardinality(Requests)
    BY DEF EmailComesFirst
  <2>1. FirstAudits(c) BY DEF SitesInv, EarlyInv
  <2>2. QED BY <2>1, EarlyCounts DEF FirstAudits
<1>2. QED BY <1>1, SitesInvariant, PTL

\* But for the sites that audits open, the plan's limit is passed by less than
\* the number of parallel requests.
THEOREM OvershootTheorem == Spec => []LimitOvershootBounded
<1>1. SitesInv => LimitOvershootBounded
  <2> SUFFICES ASSUME SitesInv, NEW account \in AllAccounts,
                      max_sites_for(plan_tier(account)) # None
               PROVE  Cardinality(SitesOf(account))
                        <= max_sites_for(plan_tier(account)) - 1 + Cardinality(Requests)
                           + opened[account]
    BY DEF LimitOvershootBounded
  <2>1. account # House /\ max_sites_for(plan_tier(account)) = FreeLimit
    BY DEF max_sites_for, plan_tier
  <2>2. Cardinality(Held(account))
          <= FreeLimit - 1 + Cardinality(Requests) + opened[account]
        /\ opened[account] \in Nat
    BY <2>1 DEF SitesInv, Overshoot
  <2>3. Cardinality(SitesOf(account)) <= Cardinality(Held(account))
    BY SitesHeld DEF SitesInv
  <2>4. QED BY <2>1, <2>2, <2>3, HeldCounts, AccountsAssumption DEF SitesInv, AccountsInv
<1>2. QED BY <1>1, SitesInvariant, PTL

(***************************************************************************)
(* Theorems of the dashboard as a whole: its connections, on top of its    *)
(* accounts and sites.                                                     *)
(***************************************************************************)
Binds ==
    [site : 1..MaxSites,
     found : UNION {[S -> 1..MaxRows \union {None}] : S \in SUBSET Sources},
     granted : AllAccounts, bound : AllAccounts]

ConnectionsTypeOK ==
    /\ consents \subseteq 1..MaxSites
    /\ grants \subseteq [site : 1..MaxSites, by : AllAccounts]
    /\ rows \subseteq Rows
    /\ lastRow \in 0..MaxRows
    /\ binds \in [Requests -> Binds \union {NoBind}]
    /\ fetch \in [site : 1..MaxSites, todo : SUBSET Rows] \union {None}

\* A connection's site exists (its foreign key, and the cascade).
RowsHaveSites == \A row \in rows : Exists(row.site)

\* A site that existed once, of this account if it still exists.
AccountOf(site, account) ==
    /\ site <= lastSite
    /\ \A s \in sites : s.id = site => s.account = account

\* What a consent leads to keeps to the account of its site.
Granted ==
    /\ \A row \in rows : AccountOf(row.site, row.granted) /\ AccountOf(row.site, row.bound)
    /\ \A grant \in grants : AccountOf(grant.site, grant.by)
    /\ \A r \in Requests : binds[r] # NoBind =>
         /\ AccountOf(binds[r].site, binds[r].granted)
         /\ AccountOf(binds[r].site, binds[r].bound)

\* A row's id is its own within its source, and a bind finds rows of its site.
RowKeys ==
    /\ \A row \in rows : row.id <= lastRow
    /\ \A row, other \in rows :
         row.id = other.id /\ row.source = other.source => row = other
    /\ \A r \in Requests : binds[r] # NoBind =>
         /\ \A row \in Found(binds[r]) : row.site = binds[r].site
         /\ \A source \in DOMAIN binds[r].found :
              binds[r].found[source] # None => binds[r].found[source] <= lastRow

\* The binds that found no row for a source, and are to insert one.
Inserting(site, source) ==
    {r \in Requests : /\ binds[r] # NoBind
                      /\ binds[r].site = site
                      /\ source \in Missing(binds[r])}

\* They and the rows they insert have their place among the requests.
Placed(site, source) ==
    /\ IsFiniteSet(RowsFor(site, source))
    /\ Cardinality(RowsFor(site, source)) + Cardinality(Inserting(site, source))
         <= Cardinality(Requests)

ConnectionsInv ==
    /\ ConnectionsTypeOK
    /\ RowsHaveSites
    /\ Granted
    /\ RowKeys
    /\ \A site \in 1..MaxSites, source \in Sources : Placed(site, source)

(***************************************************************************)
(* Facts about sites, rows and binds                                       *)
(***************************************************************************)
\* A bind has its site, its columns and its accounts; NoBind has no site.
LEMMA BindTypes ==
  ASSUME ConnectionsTypeOK, NEW r \in Requests, binds[r] # NoBind
  PROVE  /\ binds[r] \in Binds
         /\ binds[r].site \in 1..MaxSites
         /\ DOMAIN binds[r].found \subseteq Sources
         /\ \A source \in DOMAIN binds[r].found :
              binds[r].found[source] \in 1..MaxRows \union {None}
         /\ binds[r].granted \in AllAccounts /\ binds[r].bound \in AllAccounts
  BY DEF ConnectionsTypeOK, Binds

\* The sets that are counted.
LEMMA CountedBinds ==
  ASSUME NEW site, NEW source
  PROVE  /\ IsFiniteSet(Inserting(site, source))
         /\ Cardinality(Inserting(site, source)) \in Nat
         /\ Cardinality(Requests) \in Nat
<1>1. Inserting(site, source) \subseteq Requests BY DEF Inserting
<1>2. QED BY <1>1, FS_Subset, FS_CardinalityType, AccountsAssumption

\* A step that adds neither a row nor a bind, and takes no site from an
\* account.
LEMMA FewerRows ==
  ASSUME ConnectionsInv, ConnectionsTypeOK', RowsHaveSites',
         rows' \subseteq rows, lastRow' = lastRow,
         \A r \in Requests : binds'[r] \in {binds[r], NoBind},
         \A site \in 1..MaxSites, account \in AllAccounts :
           AccountOf(site, account) => AccountOf(site, account)',
         \A grant \in grants' : AccountOf(grant.site, grant.by)'
  PROVE  ConnectionsInv'
<1>1. Granted'
  <2>1. \A row \in rows' : AccountOf(row.site, row.granted)' /\ AccountOf(row.site, row.bound)'
    BY DEF ConnectionsInv, Granted, ConnectionsTypeOK, Rows
  <2>2. ASSUME NEW r \in Requests, binds'[r] # NoBind
        PROVE  (AccountOf(binds[r].site, binds[r].granted)
                /\ AccountOf(binds[r].site, binds[r].bound))'
    <3>1. binds'[r] = binds[r] /\ binds[r] # NoBind BY <2>2
    <3>2. PICK bind : bind = binds[r] OBVIOUS
    <3>3. AccountOf(bind.site, bind.granted) /\ AccountOf(bind.site, bind.bound)
      BY <3>1, <3>2 DEF ConnectionsInv, Granted
    <3>4. AccountOf(bind.site, bind.granted)' /\ AccountOf(bind.site, bind.bound)'
      BY <3>1, <3>2, <3>3, BindTypes DEF ConnectionsInv
    <3>5. binds'[r] = bind BY <3>1, <3>2
    <3>6. QED BY <3>4, <3>5 DEF AccountOf
  <2>3. QED BY <2>1, <2>2 DEF Granted
<1>2. RowKeys' BY DEF ConnectionsInv, RowKeys, Found
<1>3. ASSUME NEW site \in 1..MaxSites, NEW source \in Sources
      PROVE  Placed(site, source)'
  <2>1. Placed(site, source) BY DEF ConnectionsInv
  <2>2. /\ RowsFor(site, source)' \subseteq RowsFor(site, source)
        /\ Inserting(site, source)' \subseteq Inserting(site, source)
    BY DEF RowsFor, Inserting, Missing
  <2>3. /\ IsFiniteSet(RowsFor(site, source)')
        /\ Cardinality(RowsFor(site, source)') <= Cardinality(RowsFor(site, source))
        /\ Cardinality(Inserting(site, source)') <= Cardinality(Inserting(site, source))
    BY <2>1, <2>2, CountedBinds, FS_Subset DEF Placed
  <2>4. /\ Cardinality(RowsFor(site, source)) \in Nat
        /\ Cardinality(RowsFor(site, source)') \in Nat
        /\ Cardinality(Inserting(site, source)') \in Nat
    BY <2>1, <2>2, <2>3, CountedBinds, FS_Subset, FS_CardinalityType DEF Placed
  <2>5. QED BY <2>1, <2>3, <2>4, CountedBinds DEF Placed
<1>4. QED BY <1>1, <1>2, <1>3 DEF ConnectionsInv

\* A step that rewrites rows in place, and may add a row for each source that
\* a bind found none of: the bind ends with it.
LEMMA RowsStep ==
  ASSUME ConnectionsInv, ConnectionsTypeOK', NEW g, NEW news,
         rows' = {g[row] : row \in rows} \union news,
         \A row \in rows : /\ g[row].id = row.id /\ g[row].site = row.site
                           /\ g[row].source = row.source
                           /\ AccountOf(row.site, g[row].granted)
                           /\ AccountOf(row.site, g[row].bound),
         \A row \in news : /\ row.id = lastRow + 1 /\ Exists(row.site)
                           /\ AccountOf(row.site, row.granted)
                           /\ AccountOf(row.site, row.bound)
                           /\ \E r \in Inserting(row.site, row.source) :
                                binds'[r] = NoBind,
         \A row, other \in news : row.source = other.source => row = other,
         lastRow' = IF news = {} THEN lastRow ELSE lastRow + 1,
         \A r \in Requests : binds'[r] \in {binds[r], NoBind},
         UNCHANGED <<sites, lastSite, grants>>
  PROVE  ConnectionsInv'
<1>1. lastRow \in Nat /\ \A row \in rows : row.id \in Nat /\ row.id <= lastRow
  BY ConnectionsAssumption DEF ConnectionsInv, ConnectionsTypeOK, Rows, RowKeys
<1>2. RowsHaveSites' BY DEF ConnectionsInv, RowsHaveSites, Exists
<1>3. ASSUME NEW r \in Requests, binds'[r] # NoBind
      PROVE  binds'[r] = binds[r] /\ binds[r] # NoBind
  BY <1>3
<1>4. Granted' BY <1>3 DEF ConnectionsInv, Granted, AccountOf
<1>5. RowKeys'
  <2>1. \A row \in rows' : row.id <= lastRow' BY <1>1
  <2>2. ASSUME NEW row \in rows', NEW other \in rows',
               row.id = other.id, row.source = other.source
        PROVE  row = other
    <3>1. CASE row \in news /\ other \in news BY <2>2, <3>1
    <3>2. CASE row \notin news /\ other \notin news
      BY <2>2, <3>2 DEF ConnectionsInv, RowKeys
    <3>3. CASE (row \in news) # (other \in news) BY <1>1, <2>2, <3>3
    <3>4. QED BY <3>1, <3>2, <3>3
  <2>3. ASSUME NEW r \in Requests, binds'[r] # NoBind
        PROVE  (/\ \A row \in Found(binds[r]) : row.site = binds[r].site
                /\ \A source \in DOMAIN binds[r].found :
                     binds[r].found[source] # None => binds[r].found[source] <= lastRow)'
    <3>1. PICK bind : bind = binds[r] OBVIOUS
    <3>2. /\ binds'[r] = bind
          /\ \A row \in Found(bind) : row.site = bind.site
          /\ \A source \in DOMAIN bind.found :
               /\ bind.found[source] \in Nat \union {None}
               /\ bind.found[source] # None => bind.found[source] <= lastRow
      BY <1>3, <2>3, <3>1, BindTypes, ConnectionsAssumption
      DEF ConnectionsInv, RowKeys
    <3>3. \A row \in Found(bind)' : row.site = bind.site
      <4>1. ASSUME NEW row \in rows', row.source \in DOMAIN bind.found,
                   row.id = bind.found[row.source]
            PROVE  row.site = bind.site
        <5>1. row \notin news BY <1>1, <3>2, <4>1, AccountsAssumption
        <5>2. PICK old \in rows : row = g[old] BY <5>1
        <5>3. old \in Found(bind) BY <4>1, <5>2 DEF Found
        <5>4. QED BY <3>2, <5>2, <5>3
      <4>2. QED BY <4>1 DEF Found
    <3>4. \A source \in DOMAIN bind.found :
            bind.found[source] # None => bind.found[source] <= lastRow'
      BY <1>1, <3>2
    <3>5. QED BY <3>2, <3>3, <3>4 DEF Found
  <2>4. QED BY <2>1, <2>2, <2>3 DEF RowKeys
<1>6. ASSUME NEW site \in 1..MaxSites, NEW source \in Sources
      PROVE  Placed(site, source)'
  <2> DEFINE new == {row \in news : row.site = site /\ row.source = source}
  <2>1. PICK kept : kept = {g[row] : row \in RowsFor(site, source)} OBVIOUS
  <2>2. RowsFor(site, source)' = kept \union new BY <2>1 DEF RowsFor
  <2>3. /\ IsFiniteSet(kept) /\ Cardinality(kept) <= Cardinality(RowsFor(site, source))
        /\ Cardinality(kept) \in Nat /\ Cardinality(RowsFor(site, source)) \in Nat
        /\ Cardinality(RowsFor(site, source)) + Cardinality(Inserting(site, source))
             <= Cardinality(Requests)
    BY <2>1, ImageCounts, FS_CardinalityType DEF ConnectionsInv, Placed
  <2>4. Inserting(site, source)' \subseteq Inserting(site, source)
    BY <1>3 DEF Inserting, Missing
  <2>5. CASE new = {}
    <3>1. Cardinality(Inserting(site, source)') <= Cardinality(Inserting(site, source))
          /\ Cardinality(Inserting(site, source)') \in Nat
      BY <2>4, CountedBinds, FS_Subset, FS_CardinalityType
    <3>2. RowsFor(site, source)' = kept BY <2>2, <2>5
    <3>3. Cardinality(Inserting(site, source)) \in Nat /\ Cardinality(Requests) \in Nat
      BY CountedBinds
    <3>4. QED BY <2>3, <3>1, <3>2, <3>3 DEF Placed
  <2>6. CASE new # {}
    <3>1. PICK row \in news : row.site = site /\ row.source = source BY <2>6
    <3>2. new = {row} BY <3>1
    <3>3. PICK r \in Inserting(site, source) : binds'[r] = NoBind BY <3>1
    <3>4. Inserting(site, source)' \subseteq Inserting(site, source) \ {r}
      BY <2>4, <3>3 DEF Inserting
    <3>5. /\ IsFiniteSet(Inserting(site, source) \ {r})
          /\ Cardinality(Inserting(site, source) \ {r})
               = Cardinality(Inserting(site, source)) - 1
      BY <3>3, CountedBinds, FS_RemoveElement
    <3>6. Cardinality(Inserting(site, source)') <= Cardinality(Inserting(site, source)) - 1
          /\ Cardinality(Inserting(site, source)') \in Nat
      BY <3>4, <3>5, FS_Subset, FS_CardinalityType
    <3>7. /\ IsFiniteSet(kept \union {row})
          /\ Cardinality(kept \union {row}) <= Cardinality(kept) + 1
      <4>1. /\ IsFiniteSet(kept \union {row})
            /\ Cardinality(kept \union {row})
                 = IF row \in kept THEN Cardinality(kept) ELSE Cardinality(kept) + 1
        BY <2>3, FS_AddElement
      <4>2. Cardinality(kept) \in Nat BY <2>3
      <4>3. QED BY <4>1, <4>2
    <3>8. Cardinality(kept \union {row}) \in Nat BY <3>7, FS_CardinalityType
    <3>9. RowsFor(site, source)' = kept \union {row} BY <2>2, <3>2
    <3>10. Cardinality(Inserting(site, source)) \in Nat /\ Cardinality(Requests) \in Nat
      BY CountedBinds
    <3>11. QED BY <2>3, <3>6, <3>7, <3>8, <3>9, <3>10 DEF Placed
  <2>7. QED BY <2>5, <2>6
<1>7. QED BY <1>2, <1>4, <1>5, <1>6 DEF ConnectionsInv

(***************************************************************************)
(* The steps                                                               *)
(***************************************************************************)
\* Who is signed in with a site owns it.
LEMMA OwnedAccount ==
  ASSUME SitesInv, NEW c \in Clients, NEW site, OwnedBy(c, site)
  PROVE  /\ site \in 1..MaxSites /\ Exists(site)
         /\ CurrentAccount(c) \in AllAccounts
         /\ AccountOf(site, CurrentAccount(c))
<1>1. PICK s \in sites : s.id = site /\ s.account = CurrentAccount(c)
  BY DEF OwnedBy, owned_site
<1>2. s \in Sites /\ s.id <= lastSite /\ \A t \in sites : t.id = s.id => t = s
  BY DEF SitesInv, AccountsInv, SiteKeys
<1>3. QED BY <1>1, <1>2 DEF Sites, Exists, AccountOf

\* The program starts without connections.
LEMMA InitConnections ==
  ASSUME NEW db \in Databases, ConnectionsInit(db) PROVE ConnectionsInv
<1> USE DEF ConnectionsInit
<1>1. ConnectionsTypeOK BY ConnectionsAssumption DEF ConnectionsTypeOK
<1>2. RowsHaveSites /\ Granted /\ RowKeys
  BY DEF RowsHaveSites, Granted, RowKeys
<1>3. ASSUME NEW site \in 1..MaxSites, NEW source \in Sources
      PROVE  Placed(site, source)
  <2>1. RowsFor(site, source) = {} /\ Inserting(site, source) = {}
    BY DEF RowsFor, Inserting
  <2>2. Cardinality(RowsFor(site, source)) = 0 /\ IsFiniteSet(RowsFor(site, source))
        /\ Cardinality(Inserting(site, source)) = 0
    BY <2>1, FS_EmptySet
  <2>3. Cardinality(Requests) \in Nat BY CountedBinds
  <2>4. QED BY <2>2, <2>3 DEF Placed
<1>4. QED BY <1>1, <1>2, <1>3 DEF ConnectionsInv

\* A site is inserted, or nothing of sites and connections changes.
LEMMA AccountsStep ==
  ASSUME SitesInv, SitesInv', ConnectionsInv, UNCHANGED connectionVars,
         (\E r \in Requests : InsertSite(r)) \/ (sites' = sites /\ lastSite' = lastSite)
  PROVE  ConnectionsInv'
<1>1. /\ UNCHANGED <<consents, grants, rows, lastRow, binds, fetch>>
      /\ sites \subseteq sites' /\ lastSite \in Nat /\ lastSite' \in Nat
      /\ lastSite <= lastSite'
      /\ \A s \in sites' : s \in sites \/ s.id = lastSite + 1
  <2>1. lastSite \in Nat BY AccountsAssumption DEF SitesInv, AccountsInv
  <2>2. QED BY <2>1 DEF connectionVars, InsertSite
<1>2. ConnectionsTypeOK' BY <1>1 DEF ConnectionsInv, ConnectionsTypeOK
<1>3. RowsHaveSites' BY <1>1 DEF ConnectionsInv, RowsHaveSites, Exists
<1>4. ASSUME NEW site \in 1..MaxSites, NEW account, AccountOf(site, account)
      PROVE  AccountOf(site, account)'
  <2>1. \A s \in sites' : s.id = site => s \in sites BY <1>1, <1>4 DEF AccountOf
  <2>2. site <= lastSite' BY <1>1, <1>4, AccountsAssumption DEF AccountOf
  <2>3. QED BY <1>4, <2>1, <2>2 DEF AccountOf
<1>5. \A grant \in grants' : AccountOf(grant.site, grant.by)'
  BY <1>1, <1>4 DEF ConnectionsInv, Granted, ConnectionsTypeOK
<1>6. QED BY <1>1, <1>2, <1>3, <1>4, <1>5, FewerRows

\* A site is deleted with its rows.
LEMMA DeleteStep ==
  ASSUME ConnectionsInv, NEW c \in Clients, NEW s \in sites,
         DeleteSite(c, s), Cascade(s.id)
  PROVE  ConnectionsInv'
<1>1. /\ UNCHANGED <<consents, grants, lastRow, binds, fetch, lastSite>>
      /\ sites' = sites \ {s} /\ rows' = {row \in rows : row.site # s.id}
  BY DEF DeleteSite, Cascade
<1>2. ConnectionsTypeOK' BY <1>1 DEF ConnectionsInv, ConnectionsTypeOK
<1>3. RowsHaveSites' BY <1>1 DEF ConnectionsInv, RowsHaveSites, Exists
<1>4. \A site, account : AccountOf(site, account) => AccountOf(site, account)'
  BY <1>1 DEF AccountOf
<1>5. QED BY <1>1, <1>2, <1>3, <1>4, FewerRows DEF ConnectionsInv, Granted

\* Consents, grants, a run's reading, and a bind that finds its site gone.
LEMMA ConsentStep ==
  ASSUME SitesInv, ConnectionsInv, UNCHANGED accountVars,
         \/ \E c \in Clients, s \in sites :
              GoogleStart(c, s.id) \/ GoogleCallback(c, s.id)
         \/ \E s \in sites : LoadRows(s.id)
         \/ LoadEnds
         \/ \E r \in Requests : BindFails(r)
  PROVE  ConnectionsInv'
<1>1. /\ UNCHANGED <<sites, lastSite, rows, lastRow>>
      /\ binds' \in [Requests -> Binds \union {NoBind}]
      /\ \A r \in Requests : binds'[r] \in {binds[r], NoBind}
  BY DEF accountVars, GoogleStart, GoogleCallback, LoadRows, LoadEnds, BindFails,
         ConnectionsInv, ConnectionsTypeOK
<1>2. \A s \in sites : s.id \in 1..MaxSites BY DEF SitesInv, AccountsInv, Sites
<1>3. /\ consents' \subseteq 1..MaxSites
      /\ grants' \subseteq [site : 1..MaxSites, by : AllAccounts]
      /\ \A grant \in grants' : AccountOf(grant.site, grant.by)
  <2>1. ASSUME NEW c \in Clients, NEW s \in sites, GoogleCallback(c, s.id)
        PROVE  /\ consents' \subseteq 1..MaxSites
               /\ grants' \subseteq [site : 1..MaxSites, by : AllAccounts]
               /\ \A grant \in grants' : AccountOf(grant.site, grant.by)
    <3>1. grants' = grants \union {[site |-> s.id, by |-> CurrentAccount(c)]}
          /\ consents' = consents /\ OwnedBy(c, s.id)
      BY <2>1 DEF GoogleCallback
    <3>2. CurrentAccount(c) \in AllAccounts /\ AccountOf(s.id, CurrentAccount(c))
      BY <3>1, OwnedAccount
    <3>3. QED
      BY <1>2, <3>1, <3>2 DEF ConnectionsInv, ConnectionsTypeOK, Granted
  <2>2. CASE grants' = grants /\ consents' \subseteq consents \union {s.id : s \in sites}
    BY <1>2, <2>2 DEF ConnectionsInv, ConnectionsTypeOK, Granted
  <2>3. QED BY <2>1, <2>2 DEF GoogleStart, LoadRows, LoadEnds, BindFails
<1>4. fetch' \in [site : 1..MaxSites, todo : SUBSET Rows] \union {None}
  BY <1>2
  DEF GoogleStart, GoogleCallback, LoadRows, LoadEnds, BindFails,
      ConnectionsInv, ConnectionsTypeOK
<1>5. ConnectionsTypeOK' BY <1>1, <1>3, <1>4 DEF ConnectionsInv, ConnectionsTypeOK
<1>6. RowsHaveSites' BY <1>1 DEF ConnectionsInv, RowsHaveSites, Exists
<1>7. \A site, account : AccountOf(site, account) => AccountOf(site, account)'
  BY <1>1 DEF AccountOf
<1>8. QED BY <1>1, <1>3, <1>5, <1>6, <1>7, FewerRows

\* A lookup finds None exactly where the site has no row.
LEMMA GetConnection ==
  ASSUME ConnectionsInv, NEW site, NEW source
  PROVE  \/ RowsFor(site, source) = {} /\ get_connection(site, source) = None
         \/ \E row \in RowsFor(site, source) : get_connection(site, source) = row.id
  BY DEF get_connection

\* A bind looks its rows up.
LEMMA LookupStep ==
  ASSUME SitesInv, ConnectionsInv, UNCHANGED accountVars,
         NEW c \in Clients, NEW r \in Requests, NEW grant \in grants,
         NEW sources \in SUBSET Sources, BindLookup(c, r, grant, sources)
  PROVE  ConnectionsInv'
<1>1. /\ UNCHANGED <<sites, lastSite, consents, grants, rows, lastRow, fetch>>
      /\ binds[r] = NoBind /\ OwnedBy(c, grant.site)
  BY DEF accountVars, BindLookup
<1>2. PICK found :
        found = [source \in sources |-> get_connection(grant.site, source)]
  OBVIOUS
<1>3. PICK bind :
        bind = [site |-> grant.site, granted |-> grant.by,
                bound |-> CurrentAccount(c), found |-> found]
  OBVIOUS
<1>4. binds' = [binds EXCEPT ![r] = bind] BY <1>2, <1>3 DEF BindLookup
<1>5. /\ grant.site \in 1..MaxSites /\ grant.by \in AllAccounts
      /\ CurrentAccount(c) \in AllAccounts
      /\ AccountOf(grant.site, grant.by) /\ AccountOf(grant.site, CurrentAccount(c))
  BY <1>1, OwnedAccount DEF ConnectionsInv, ConnectionsTypeOK, Granted
<1>6. ASSUME NEW source \in sources
      PROVE  \/ RowsFor(grant.site, source) = {} /\ found[source] = None
             \/ /\ found[source] \in 1..MaxRows /\ found[source] <= lastRow
                /\ \A row \in rows : row.source = source /\ row.id = found[source]
                                     => row.site = grant.site
  <2>1. CASE RowsFor(grant.site, source) = {} /\ get_connection(grant.site, source) = None
    BY <1>2, <2>1
  <2>2. CASE \E row \in RowsFor(grant.site, source) :
               get_connection(grant.site, source) = row.id
    <3>1. PICK row \in RowsFor(grant.site, source) : found[source] = row.id
      BY <1>2, <2>2
    <3>2. row \in rows /\ row.site = grant.site /\ row.source = source
      BY <3>1 DEF RowsFor
    <3>3. row.id \in 1..MaxRows /\ row.id <= lastRow
      BY <3>2 DEF ConnectionsInv, ConnectionsTypeOK, Rows, RowKeys
    <3>4. QED BY <3>1, <3>2, <3>3 DEF ConnectionsInv, RowKeys
  <2>3. QED BY <2>1, <2>2, GetConnection
<1>7. bind \in Binds /\ bind # NoBind
  <2>1. found \in [sources -> 1..MaxRows \union {None}] BY <1>2, <1>6
  <2>2. bind \in Binds BY <1>3, <1>5, <2>1 DEF Binds
  <2>3. bind.site # None BY <1>3, <1>5, AccountsAssumption
  <2>4. QED BY <2>2, <2>3 DEF NoBind
<1>8. \A q \in Requests : binds'[q] = IF q = r THEN bind ELSE binds[q]
  BY <1>4 DEF ConnectionsInv, ConnectionsTypeOK
<1>9. ConnectionsTypeOK' BY <1>1, <1>4, <1>7 DEF ConnectionsInv, ConnectionsTypeOK
<1>10. RowsHaveSites' BY <1>1 DEF ConnectionsInv, RowsHaveSites, Exists
<1>11. Granted'
  <2>1. AccountOf(bind.site, bind.granted) /\ AccountOf(bind.site, bind.bound)
    BY <1>3, <1>5
  <2>2. QED BY <1>1, <1>8, <2>1 DEF ConnectionsInv, Granted, AccountOf
<1>12. RowKeys'
  <2>1. /\ \A row \in Found(bind) : row.site = bind.site
        /\ \A source \in DOMAIN bind.found :
             bind.found[source] # None => bind.found[source] <= lastRow
    <3>1. DOMAIN bind.found = sources /\ bind.found = found /\ bind.site = grant.site
      BY <1>2, <1>3
    <3>2. \A row \in rows : row.id # None
      BY AccountsAssumption DEF ConnectionsInv, ConnectionsTypeOK, Rows
    <3>3. QED BY <1>6, <3>1, <3>2 DEF Found
  <2>2. QED BY <1>1, <1>8, <2>1 DEF ConnectionsInv, RowKeys, Found
<1>13. ASSUME NEW site \in 1..MaxSites, NEW source \in Sources
       PROVE  Placed(site, source)'
  <2>1. RowsFor(site, source)' = RowsFor(site, source) BY <1>1 DEF RowsFor
  <2>2. IsFiniteSet(RowsFor(site, source)) /\ Placed(site, source)
    BY DEF ConnectionsInv, Placed
  <2>3. CASE site = grant.site /\ source \in sources /\ RowsFor(site, source) = {}
    <3>1. Inserting(site, source)' \subseteq Requests BY DEF Inserting
    <3>2. Cardinality(Inserting(site, source)') <= Cardinality(Requests)
          /\ Cardinality(Inserting(site, source)') \in Nat
      BY <3>1, FS_Subset, FS_CardinalityType, AccountsAssumption
    <3>3. Cardinality(RowsFor(site, source)') = 0 BY <2>1, <2>3, FS_EmptySet
    <3>4. QED BY <2>1, <2>2, <3>2, <3>3 DEF Placed
  <2>4. CASE ~(site = grant.site /\ source \in sources /\ RowsFor(site, source) = {})
    <3>1. ~(bind.site = site /\ source \in Missing(bind))
      BY <1>2, <1>3, <1>6, <2>4, AccountsAssumption DEF Missing
    <3>2. Inserting(site, source)' = Inserting(site, source)
      BY <1>1, <1>8, <3>1 DEF Inserting, Missing
    <3>3. QED BY <2>1, <2>2, <3>2 DEF Placed
  <2>5. QED BY <2>3, <2>4
<1>14. QED BY <1>9, <1>10, <1>11, <1>12, <1>13 DEF ConnectionsInv

\* A disconnection, and the status that a run writes.
LEMMA StatusStep ==
  ASSUME SitesInv, ConnectionsInv, UNCHANGED accountVars,
         \/ \E c \in Clients, s \in sites, source \in Sources :
              Disconnect(c, s.id, source)
         \/ /\ fetch # None
            /\ \E loaded \in fetch.todo, outcome \in {"connected", "error"} :
                 FetchRow(loaded, outcome)
  PROVE  ConnectionsInv'
<1>1. ASSUME NEW status \in {"connected", "error", "disconnected"}, NEW g,
             rows' = {g[row] : row \in rows},
             \A row \in rows : g[row] = row \/ g[row] = [row EXCEPT !.status = status],
             UNCHANGED <<consents, grants, lastRow, binds>>,
             fetch' \in [site : 1..MaxSites, todo : SUBSET Rows] \union {None}
      PROVE  ConnectionsInv'
  <2>1. PICK news : news = {} OBVIOUS
  <2>2. rows' = {g[row] : row \in rows} \union news BY <1>1, <2>1
  <2>3. UNCHANGED <<sites, lastSite, grants>> BY <1>1 DEF accountVars
  <2>4. \A row \in rows :
          /\ g[row] \in Rows /\ g[row].id = row.id /\ g[row].site = row.site
          /\ g[row].source = row.source /\ g[row].granted = row.granted
          /\ g[row].bound = row.bound
    <3>1. ASSUME NEW row \in rows, NEW new,
                 new = row \/ new = [row EXCEPT !.status = status]
          PROVE  /\ new \in Rows /\ new.id = row.id /\ new.site = row.site
                 /\ new.source = row.source /\ new.granted = row.granted
                 /\ new.bound = row.bound
      <4>1. row \in Rows BY DEF ConnectionsInv, ConnectionsTypeOK
      <4>2. QED BY <3>1, <4>1 DEF Rows
    <3>2. QED BY <1>1, <3>1
  <2>5. ConnectionsTypeOK'
    BY <1>1, <2>4 DEF ConnectionsInv, ConnectionsTypeOK
  <2>6. \A row \in rows :
          /\ g[row].id = row.id /\ g[row].site = row.site
          /\ g[row].source = row.source
          /\ AccountOf(row.site, g[row].granted)
          /\ AccountOf(row.site, g[row].bound)
    BY <2>4 DEF ConnectionsInv, Granted
  <2>7. /\ lastRow' = IF news = {} THEN lastRow ELSE lastRow + 1
        /\ \A r \in Requests : binds'[r] \in {binds[r], NoBind}
    BY <1>1, <2>1
  <2>8. \A row \in news : FALSE BY <2>1
  <2>9. QED BY <2>2, <2>3, <2>5, <2>6, <2>7, <2>8, RowsStep
<1>2. fetch \in [site : 1..MaxSites, todo : SUBSET Rows] \union {None}
  BY DEF ConnectionsInv, ConnectionsTypeOK
<1>3. ASSUME NEW c \in Clients, NEW s \in sites, NEW source \in Sources,
             Disconnect(c, s.id, source)
      PROVE  ConnectionsInv'
  <2>1. PICK g : g = [row \in rows |-> IF row \in RowsFor(s.id, source)
                                       THEN [row EXCEPT !.status = "disconnected"]
                                       ELSE row]
    OBVIOUS
  <2>2. rows' = {g[row] : row \in rows} BY <1>3, <2>1 DEF Disconnect
  <2>3. UNCHANGED <<consents, grants, lastRow, binds, fetch>>
    BY <1>3 DEF Disconnect
  <2>4. PICK status \in {"connected", "error", "disconnected"} : status = "disconnected"
    OBVIOUS
  <2>5. \A row \in rows : g[row] = row \/ g[row] = [row EXCEPT !.status = status]
    BY <2>1, <2>4
  <2>6. QED BY <1>1, <1>2, <2>2, <2>3, <2>5
<1>4. ASSUME fetch # None, NEW loaded \in fetch.todo,
             NEW outcome \in {"connected", "error"}, FetchRow(loaded, outcome)
      PROVE  ConnectionsInv'
  <2>1. fetch' \in [site : 1..MaxSites, todo : SUBSET Rows] \union {None}
        /\ UNCHANGED <<consents, grants, lastRow, binds>>
    BY <1>2, <1>4 DEF FetchRow
  <2>2. PICK g : g = [row \in rows |->
                        IF /\ outcome # loaded.status
                           /\ row.id = loaded.id /\ row.source = loaded.source
                        THEN [row EXCEPT !.status = outcome] ELSE row]
    OBVIOUS
  <2>3. rows' = {g[row] : row \in rows} BY <1>4, <2>2 DEF FetchRow
  <2>4. \A row \in rows : g[row] = row \/ g[row] = [row EXCEPT !.status = outcome]
    BY <2>2
  <2>5. outcome \in {"connected", "error", "disconnected"} OBVIOUS
  <2>6. QED BY <1>1, <2>1, <2>3, <2>4, <2>5
<1>5. QED BY <1>3, <1>4

\* A bind is committed.
LEMMA CommitStep ==
  ASSUME SitesInv, ConnectionsInv, UNCHANGED accountVars,
         NEW r \in Requests, BindCommit(r)
  PROVE  ConnectionsInv'
<1>1. PICK bind : bind = binds[r] OBVIOUS
<1>2. /\ bind # NoBind /\ Exists(bind.site) /\ lastRow < MaxRows
      /\ rows' = (rows \ Found(bind))
                   \union {Written(bind, row) : row \in Found(bind)}
                   \union {NewRow(bind, source) : source \in Missing(bind)}
      /\ lastRow' = IF Missing(bind) = {} THEN lastRow ELSE lastRow + 1
      /\ binds' = [binds EXCEPT ![r] = NoBind]
      /\ UNCHANGED <<consents, grants, fetch, sites, lastSite>>
  BY <1>1 DEF BindCommit, accountVars
<1>3. /\ bind.site \in 1..MaxSites /\ bind.granted \in AllAccounts
      /\ bind.bound \in AllAccounts /\ Missing(bind) \subseteq Sources
      /\ AccountOf(bind.site, bind.granted) /\ AccountOf(bind.site, bind.bound)
      /\ \A row \in Found(bind) : row \in rows /\ row.site = bind.site
  BY <1>1, <1>2, BindTypes
  DEF ConnectionsInv, Granted, RowKeys, Missing, Found
<1>4. PICK g : g = [row \in rows |-> IF row \in Found(bind) THEN Written(bind, row) ELSE row]
  OBVIOUS
<1>5. PICK news : news = {NewRow(bind, source) : source \in Missing(bind)} OBVIOUS
<1>6. rows' = {g[row] : row \in rows} \union news BY <1>2, <1>3, <1>4, <1>5
<1>7. \A row \in rows :
        /\ g[row] \in Rows /\ g[row].id = row.id /\ g[row].site = row.site
        /\ g[row].source = row.source
        /\ AccountOf(row.site, g[row].granted) /\ AccountOf(row.site, g[row].bound)
  <2>1. ASSUME NEW row \in Found(bind)
        PROVE  /\ Written(bind, row) \in Rows /\ Written(bind, row).id = row.id
               /\ Written(bind, row).site = row.site
               /\ Written(bind, row).source = row.source
               /\ Written(bind, row).granted = bind.granted
               /\ Written(bind, row).bound = bind.bound
    BY <1>3 DEF Written, ConnectionsInv, ConnectionsTypeOK, Rows
  <2>2. QED
    BY <1>3, <1>4, <2>1 DEF ConnectionsInv, ConnectionsTypeOK, Granted
<1>8. ASSUME NEW source \in Missing(bind)
      PROVE  /\ NewRow(bind, source) \in Rows
             /\ NewRow(bind, source).id = lastRow + 1
             /\ NewRow(bind, source).site = bind.site
             /\ NewRow(bind, source).source = source
             /\ NewRow(bind, source).granted = bind.granted
             /\ NewRow(bind, source).bound = bind.bound
             /\ r \in Inserting(bind.site, source)
  <2>1. lastRow + 1 \in 1..MaxRows
    BY <1>2, ConnectionsAssumption DEF ConnectionsInv, ConnectionsTypeOK
  <2>2. r \in Inserting(bind.site, source) BY <1>1, <1>2 DEF Inserting
  <2>3. QED BY <1>3, <2>1, <2>2 DEF NewRow, Rows
<1>9. /\ news \subseteq Rows
      /\ \A row \in news :
           /\ row.id = lastRow + 1 /\ Exists(row.site)
           /\ AccountOf(row.site, row.granted) /\ AccountOf(row.site, row.bound)
           /\ r \in Inserting(row.site, row.source)
      /\ \A row, other \in news : row.source = other.source => row = other
      /\ news = {} <=> Missing(bind) = {}
  BY <1>2, <1>3, <1>5, <1>8
<1>10. /\ binds' \in [Requests -> Binds \union {NoBind}] /\ binds'[r] = NoBind
       /\ \A q \in Requests : binds'[q] \in {binds[q], NoBind}
  BY <1>2 DEF ConnectionsInv, ConnectionsTypeOK
<1>11. ConnectionsTypeOK'
  <2>1. rows' \subseteq Rows BY <1>6, <1>7, <1>9
  <2>2. lastRow' \in 0..MaxRows
    BY <1>2, ConnectionsAssumption DEF ConnectionsInv, ConnectionsTypeOK
  <2>3. QED
    BY <1>2, <1>10, <2>1, <2>2 DEF ConnectionsInv, ConnectionsTypeOK
<1>12. \A row \in rows :
         /\ g[row].id = row.id /\ g[row].site = row.site
         /\ g[row].source = row.source
         /\ AccountOf(row.site, g[row].granted)
         /\ AccountOf(row.site, g[row].bound)
  BY <1>7
<1>13. \A row \in news :
         /\ row.id = lastRow + 1 /\ Exists(row.site)
         /\ AccountOf(row.site, row.granted)
         /\ AccountOf(row.site, row.bound)
         /\ \E q \in Inserting(row.site, row.source) : binds'[q] = NoBind
  BY <1>9, <1>10
<1>14. lastRow' = IF news = {} THEN lastRow ELSE lastRow + 1 BY <1>2, <1>9
<1>15. \A row, other \in news : row.source = other.source => row = other BY <1>9
<1>16. UNCHANGED <<sites, lastSite, grants>> BY <1>2
<1>17. QED
  BY <1>6, <1>10, <1>11, <1>12, <1>13, <1>14, <1>15, <1>16, RowsStep

(***************************************************************************)
(* The inductive invariant                                                 *)
(***************************************************************************)
\* Every step keeps it.
LEMMA NextConnections ==
  ASSUME SitesInv, SitesInv', ConnectionsInv, [Next]_vars PROVE ConnectionsInv'
<1>1. CASE AccountsNext /\ UNCHANGED connectionVars
  <2>1. (\E r \in Requests : InsertSite(r)) \/ (sites' = sites /\ lastSite' = lastSite)
    BY <1>1, ZenonT(30)
    DEF AccountsNext, Login, Logout, MagicLogin, CaptureEmail, SetRole, StartAudit,
        CreateSite, RunSite, FindSite, RefuseSite, Answer
  <2>2. QED BY <1>1, <2>1, AccountsStep
<1>2. CASE ConnectionsNext /\ UNCHANGED accountVars
  BY <1>2, ConsentStep, LookupStep, StatusStep, CommitStep DEF ConnectionsNext
<1>3. CASE Delete BY <1>3, DeleteStep DEF Delete
<1>4. CASE UNCHANGED vars
  BY <1>4, AccountsStep DEF vars, accountVars
<1>5. QED BY <1>1, <1>2, <1>3, <1>4 DEF Next

\* The invariant of the dashboard.
THEOREM ConnectionsInvariant == Spec => [](SitesInv /\ ConnectionsInv)
<1>1. Init => SitesInv /\ ConnectionsInv
  BY InitSites, InitConnections DEF Init
<1>2. SitesInv /\ ConnectionsInv /\ [Next]_vars => (SitesInv /\ ConnectionsInv)'
  BY NextSites, NextConnections
<1>3. QED BY <1>1, <1>2, PTL DEF Spec

\* Sessions, accounts, sites and rows keep their types, and what a session
\* names exists.
THEOREM DashboardTypes == Spec => []TypeOK
<1>1. SitesInv /\ ConnectionsInv => TypeOK
  <2> SUFFICES ASSUME SitesInv, ConnectionsInv PROVE TypeOK OBVIOUS
  <2>1. unmailed \in [Clients -> Nat] /\ opened \in [AllAccounts -> Nat]
    BY DEF SitesInv, EarlyInv, Overshoot
  <2>2. QED
    BY <2>1 DEF SitesInv, AccountsInv, Sound, ConnectionsInv, ConnectionsTypeOK, TypeOK,
                SignedIn, CurrentUser
<1>2. QED BY <1>1, ConnectionsInvariant, PTL

\* Credentials stay with the account that consented and bound them.
THEOREM GrantTheorem == Spec => []GrantStaysWithItsAccount
<1>1. ConnectionsInv => GrantStaysWithItsAccount
  BY DEF ConnectionsInv, Granted, AccountOf, GrantStaysWithItsAccount
<1>2. QED BY <1>1, ConnectionsInvariant, PTL

\* A source of a site has no more rows than requests that may bind together.
THEOREM DuplicatesTheorem == Spec => []DuplicatesBounded
<1>1. ConnectionsInv => DuplicatesBounded
  <2> SUFFICES ASSUME ConnectionsInv, NEW site \in 1..MaxSites, NEW source \in Sources
               PROVE  Cardinality(RowsFor(site, source)) <= Cardinality(Requests)
    BY DEF DuplicatesBounded
  <2>1. Placed(site, source) BY DEF ConnectionsInv
  <2>2. Cardinality(RowsFor(site, source)) \in Nat
    BY <2>1, FS_CardinalityType DEF Placed
  <2>3. QED BY <2>1, <2>2, CountedBinds DEF Placed
<1>2. QED BY <1>1, ConnectionsInvariant, PTL

(***************************************************************************)
(* What a disconnection is worth                                           *)
(***************************************************************************)
\* A run loads the rows that are not disconnected.
LoadedConnected == fetch # None => \A loaded \in fetch.todo : loaded.status # "disconnected"

\* Every step keeps what a run loads to the connected rows.
LEMMA NextLoaded ==
  ASSUME ConnectionsInv, LoadedConnected, [Next]_vars PROVE LoadedConnected'
<1>1. CASE fetch' = fetch BY <1>1 DEF LoadedConnected
<1>2. ASSUME NEW s \in sites, LoadRows(s.id) PROVE LoadedConnected'
  <2>1. fetch' = [site |-> s.id,
                  todo |-> {row \in rows : row.site = s.id /\ row.status # "disconnected"}]
    BY <1>2 DEF LoadRows
  <2>2. QED BY <2>1 DEF LoadedConnected
<1>3. CASE LoadEnds BY <1>3 DEF LoadEnds, LoadedConnected
<1>4. ASSUME fetch # None, NEW loaded \in fetch.todo,
             NEW outcome \in {"connected", "error"}, FetchRow(loaded, outcome)
      PROVE  LoadedConnected'
  <2>1. fetch' = [fetch EXCEPT !.todo = @ \ {loaded}] BY <1>4 DEF FetchRow
  <2>2. fetch \in [site : 1..MaxSites, todo : SUBSET Rows]
    BY <1>4 DEF ConnectionsInv, ConnectionsTypeOK
  <2>3. fetch'.todo \subseteq fetch.todo BY <2>1, <2>2
  <2>4. QED BY <1>4, <2>3 DEF LoadedConnected
<1>5. CASE UNCHANGED vars BY <1>1, <1>5 DEF vars, connectionVars
<1>6. CASE AccountsNext /\ UNCHANGED connectionVars BY <1>1, <1>6 DEF connectionVars
<1>7. CASE Delete BY <1>1, <1>7 DEF Delete, Cascade
<1>8. CASE ConnectionsNext
  BY <1>1, <1>2, <1>3, <1>4, <1>8
  DEF ConnectionsNext, GoogleStart, GoogleCallback, Disconnect, BindLookup,
      BindCommit, BindFails
<1>9. QED BY <1>5, <1>6, <1>7, <1>8 DEF Next

\* The step of a bind that commits or fails is the end of a bind.
LEMMA CommitEnds ==
  ASSUME ConnectionsInv, NEW r \in Requests, BindCommit(r) \/ BindFails(r)
  PROVE  BindEnds
<1>1. binds[r] # NoBind /\ binds' = [binds EXCEPT ![r] = NoBind]
  BY DEF BindCommit, BindFails
<1>2. binds'[r] = NoBind BY <1>1 DEF ConnectionsInv, ConnectionsTypeOK
<1>3. QED BY <1>1, <1>2 DEF BindEnds

\* What one step does to a row that is disconnected.
LEMMA DisconnectedStays ==
  ASSUME SitesInv, ConnectionsInv, LoadedConnected, [Next]_vars,
         NEW row \in rows, row.status = "disconnected", ~ReadBefore(row), ~BindEnds
  PROVE  row \in rows' \/ ~Exists(row.site)'
<1>1. CASE rows \subseteq rows' BY <1>1
<1>2. ASSUME NEW c \in Clients, NEW s \in sites, NEW source \in Sources,
             Disconnect(c, s.id, source)
      PROVE  row \in rows'
  <2>1. row \in Rows BY DEF ConnectionsInv, ConnectionsTypeOK
  <2>2. [row EXCEPT !.status = "disconnected"] = row BY <2>1 DEF Rows
  <2>3. rows' = {IF other \in RowsFor(s.id, source)
                 THEN [other EXCEPT !.status = "disconnected"] ELSE other : other \in rows}
    BY <1>2 DEF Disconnect
  <2>4. QED BY <2>2, <2>3
<1>3. ASSUME fetch # None, NEW loaded \in fetch.todo,
             NEW outcome \in {"connected", "error"}, FetchRow(loaded, outcome)
      PROVE  row \in rows'
  <2>1. ~(row.id = loaded.id /\ row.source = loaded.source)
    BY <1>3 DEF LoadedConnected, ReadBefore
  <2>2. \/ rows' = rows
        \/ rows' = {IF other.id = loaded.id /\ other.source = loaded.source
                    THEN [other EXCEPT !.status = outcome] ELSE other : other \in rows}
    BY <1>3 DEF FetchRow
  <2>3. QED BY <2>1, <2>2
<1>4. CASE Delete
  <2>1. PICK c \in Clients, s \in sites : DeleteSite(c, s) /\ Cascade(s.id)
    BY <1>4 DEF Delete
  <2>2. sites' = sites \ {s} /\ rows' = {other \in rows : other.site # s.id}
    BY <2>1 DEF DeleteSite, Cascade
  <2>3. CASE row.site # s.id BY <2>2, <2>3
  <2>4. CASE row.site = s.id
    <3>1. \A t \in sites : t.id = s.id => t = s BY DEF SitesInv, SiteKeys
    <3>2. QED BY <2>2, <2>4, <3>1 DEF Exists
  <2>5. QED BY <2>3, <2>4
<1>5. CASE UNCHANGED vars BY <1>1, <1>5 DEF vars, connectionVars
<1>6. CASE AccountsNext /\ UNCHANGED connectionVars BY <1>1, <1>6 DEF connectionVars
<1>7. CASE ConnectionsNext
  <2>1. CASE \E r \in Requests : BindCommit(r) \/ BindFails(r) BY <2>1, CommitEnds
  <2>2. CASE rows' = rows
    BY <1>1, <2>2
  <2>3. QED
    BY <1>2, <1>3, <1>7, <2>1, <2>2
    DEF ConnectionsNext, GoogleStart, GoogleCallback, BindLookup, LoadRows, LoadEnds
<1>8. QED BY <1>4, <1>5, <1>6, <1>7 DEF Next

\* A source that is disconnected comes back only with a bind, or with the run
\* that read it before.
THEOREM DisconnectTheorem == Spec => DisconnectHolds
<1> DEFINE Holds ==
      \A row \in rows :
        row.status = "disconnected" /\ ~ReadBefore(row) /\ ~BindEnds
        => row \in rows' \/ ~Exists(row.site)'
<1>1. Init => LoadedConnected BY DEF Init, ConnectionsInit, LoadedConnected
<1>2. SitesInv /\ ConnectionsInv /\ LoadedConnected /\ [Next]_vars => LoadedConnected'
  BY NextLoaded
<1>3. SitesInv /\ ConnectionsInv /\ LoadedConnected /\ [Next]_vars => [Holds]_vars
  BY DisconnectedStays
<1>4. QED BY <1>1, <1>2, <1>3, ConnectionsInvariant, PTL DEF Spec, DisconnectHolds
=============================================================================
