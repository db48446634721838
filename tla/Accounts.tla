------------------------------ MODULE Accounts ------------------------------
(***************************************************************************)
(* Accounts, users, browser sessions and sites: the sign-in routes, the    *)
(* visitor's audits and the site routes of web/routes.py, with auth.py,    *)
(* tenancy.py, plans.py, onboarding.py and magic.py.                       *)
(*                                                                         *)
(* The session is a signed cookie that the browser holds.  A request works *)
(* on the copy it came with, and its response replaces the cookie by that  *)
(* copy.  Requests that take several transactions, or seconds, hold a slot *)
(* of `requests`; the others are one step.                                 *)
(***************************************************************************)
EXTENDS Integers, FiniteSets

CONSTANTS
    None,
    Clients,       \* browsers
    Requests,      \* slots of the server's thread pool
    Domains,
    House,         \* Goyande's own account, the default one
    Customer,      \* a customer's account
    Visitors,      \* accounts that visitors may get
    Staff,         \* the owner's email, who signs in with a password
    Member,        \* the customer's email
    Guests,        \* other emails
    Databases,     \* the databases that the program may start on
    FreeLimit,     \* 5: the sites of a free account
    MaxSites,      \* bound on the sites ever created
    MaxRoles       \* bound on the changes of a role

AllAccounts == {House, Customer} \union Visitors
Emails == {Staff, Member} \union Guests

Users == [account : AllAccounts, role : {"owner", "admin", "member"}]
Sites == [id : 1..MaxSites, account : AllAccounts, domain : Domains]

ASSUME AccountsAssumption ==
    /\ FreeLimit \in Nat \ {0}
    /\ MaxSites \in Nat
    /\ IsFiniteSet(Requests) /\ Requests # {}
    /\ None \notin AllAccounts \union Emails \union Domains \union Nat \union Users

\* A database holds the accounts, users, sent links and sites of earlier days:
\* a user's account exists, an account has a domain once and keeps to its
\* plan but for the sites that audits opened, and site ids are not used again.
ASSUME DatabasesAssumption ==
    \A db \in Databases :
      /\ db.accounts \subseteq AllAccounts
      /\ db.users \in [Emails -> Users \union {None}]
      /\ \A e \in Emails : db.users[e] # None => db.users[e].account \in db.accounts
      /\ db.links \subseteq {e \in Emails : db.users[e] # None}
      /\ db.users[Staff] # None
      /\ db.sites \subseteq Sites /\ IsFiniteSet(db.sites)
      /\ db.lastSite \in 0..MaxSites
      /\ \A s \in db.sites : s.id <= db.lastSite
      /\ \A s, t \in db.sites :
           s.id = t.id \/ (s.account = t.account /\ s.domain = t.domain) => s = t
      /\ \A a \in AllAccounts :
           /\ db.opened[a] \in Nat
           /\ Cardinality({s \in db.sites : s.account = a}) <= FreeLimit + db.opened[a]

VARIABLES
    accounts,      \* the accounts created
    users,         \* the user registered under an email, or None
    links,         \* the emails a magic link was sent to
    cookies,       \* the session of each browser
    sites,         \* the rows of `sites`
    lastSite,      \* the last site id given
    requests,      \* the requests under way
    roles,         \* the changes of a role so far
    unmailed,      \* the audits queued for a browser without an email, since
                   \* somebody signed in or out there
    opened         \* the sites that audits opened in an account

\* What visitors got is recorded here, not in the program.
given == <<unmailed, opened>>

accountVars == <<accounts, users, links, cookies, sites, lastSite, requests,
                 roles, given>>

\* A session: the user, and the visitor's account, audits and whether the
\* email is captured ("ob").
Blank == [user |-> None, visitor |-> None, count |-> 0, captured |-> FALSE]
Idle == [kind |-> "idle", stage |-> "idle", client |-> None, copy |-> Blank,
         account |-> None, domain |-> None]

AccountsInit(db) ==
    /\ accounts = db.accounts
    /\ users = db.users
    /\ links = db.links
    /\ cookies = [c \in Clients |-> Blank]
    /\ sites = db.sites
    /\ lastSite = db.lastSite
    /\ requests = [r \in Requests |-> Idle]
    /\ roles = 0
    /\ unmailed = [c \in Clients |-> 0]
    /\ opened = [account \in AllAccounts |-> db.opened[account]]

(***************************************************************************)
(* Plans and tenancy                                                       *)
(***************************************************************************)
plan_tier(account) == IF account = House THEN "internal" ELSE "free"

max_sites_for(plan) == IF plan = "internal" THEN None ELSE FreeLimit

\* Mutant: one site more than the plan allows.
AboveLimit(count, plan) ==
    max_sites_for(plan) # None /\ count > max_sites_for(plan)

at_site_limit(count, plan) ==
    max_sites_for(plan) # None /\ count >= max_sites_for(plan)

MAX_VISITOR_AUDITS == max_sites_for("free")

SitesOf(account) == {s \in sites : s.account = account}

\* require_user and get_current_account: the user is read from the database.
SignedIn(c) == cookies[c].user # None
CurrentUser(c) == users[cookies[c].user]
CurrentAccount(c) == CurrentUser(c).account
IsAdmin(c) == SignedIn(c) /\ CurrentUser(c).role \in {"owner", "admin"}
owned_site(s, account) == s \in sites /\ s.account = account

(***************************************************************************)
(* Sessions                                                                *)
(***************************************************************************)
login_session(c, email) ==
    /\ cookies' = [cookies EXCEPT ![c].user = email]
    /\ unmailed' = [unmailed EXCEPT ![c] = 0]

\* Only staff have a password (set_password.py).
Login(c) ==
    /\ login_session(c, Staff)
    /\ UNCHANGED <<accounts, users, links, sites, lastSite, requests, roles, opened>>

\* The link of an email, as long as it is valid.
MagicLogin(c, email) ==
    /\ email \in links
    /\ login_session(c, email)
    /\ UNCHANGED <<accounts, users, links, sites, lastSite, requests, roles, opened>>

\* The visitor's allowance goes with the session.
Logout(c) ==
    /\ cookies' = [cookies EXCEPT ![c] = Blank]
    /\ unmailed' = [unmailed EXCEPT ![c] = 0]
    /\ UNCHANGED <<accounts, users, links, sites, lastSite, requests, roles, opened>>

SetRole(c, email, role) ==
    /\ IsAdmin(c)
    /\ roles < MaxRoles
    /\ users[email] # None
    /\ \/ role = "admin"
       \/ /\ role = "member"
          /\ email # cookies[c].user
          /\ users[email].role # "owner"
    /\ users' = [users EXCEPT ![email].role = role]
    /\ roles' = roles + 1
    /\ UNCHANGED <<accounts, links, cookies, sites, lastSite, requests, given>>

(***************************************************************************)
(* The visitor                                                             *)
(***************************************************************************)
Begin(r, kind, stage, c, copy, account, domain) ==
    /\ requests[r] = Idle
    /\ requests' = [requests EXCEPT ![r] =
                      [kind |-> kind, stage |-> stage, client |-> c,
                       copy |-> copy, account |-> account, domain |-> domain]]

\* Mutant: the email is never asked for.
AllowedByCount(session) == session.count < MAX_VISITOR_AUDITS

\* Allowed a first audit, and more once the email is known, up to the limit.
Allowed(session) ==
    /\ session.count < MAX_VISITOR_AUDITS
    /\ session.count >= 1 => session.captured

\* start_audit up to the commit of the visitor's account.
StartAudit(c, r, domain) ==
    /\ Allowed(cookies[c])
    /\ \E account \in IF cookies[c].visitor = None
                      THEN Visitors \ accounts ELSE {cookies[c].visitor} :
         /\ accounts' = accounts \union {account}
         /\ Begin(r, "audit", "find", c, [cookies[c] EXCEPT !.visitor = account],
                  account, domain)
    /\ UNCHANGED <<users, links, cookies, sites, lastSite, roles, given>>

\* Mutant: the link is sent, and no user registered.
CaptureWithoutUser(c, email) ==
    /\ cookies[c].visitor # None
    /\ links' = links \union {email}
    /\ cookies' = [cookies EXCEPT ![c].captured = TRUE]
    /\ UNCHANGED <<accounts, users, sites, lastSite, requests, roles, given>>

\* An email that is registered keeps its user and account.
CaptureEmail(c, email) ==
    /\ cookies[c].visitor # None
    /\ users' = IF users[email] # None THEN users
                ELSE [users EXCEPT ![email] = [account |-> cookies[c].visitor,
                                               role |-> "member"]]
    /\ links' = links \union {email}
    /\ cookies' = [cookies EXCEPT ![c].captured = TRUE]
    /\ UNCHANGED <<accounts, sites, lastSite, requests, roles, given>>

(***************************************************************************)
(* Sites                                                                   *)
(***************************************************************************)
\* create_site counts the account's sites, and inserts in a later statement.
CreateSite(c, r, domain) ==
    /\ SignedIn(c)
    /\ ~at_site_limit(Cardinality(SitesOf(CurrentAccount(c))),
                      plan_tier(CurrentAccount(c)))
    /\ Begin(r, "create", "insert", c, cookies[c], CurrentAccount(c), domain)
    /\ UNCHANGED <<accounts, users, links, cookies, sites, lastSite, roles, given>>

RunSite(c, r, s) ==
    /\ SignedIn(c)
    /\ owned_site(s, CurrentAccount(c))
    /\ Begin(r, "run", "find", c, cookies[c], s.account, s.domain)
    /\ UNCHANGED <<accounts, users, links, cookies, sites, lastSite, roles, given>>

\* An audit is queued; it counts here when no email came with the request.
Queue(r) ==
    unmailed' = IF /\ requests[r].kind = "audit" /\ ~requests[r].copy.captured
                   /\ ~SignedIn(requests[r].client)
                THEN [unmailed EXCEPT ![requests[r].client] = @ + 1] ELSE unmailed

\* create_pending_run looks for the site of the account, and queues the run;
\* RunQueue has what it does with it.
FindSite(r) ==
    /\ requests[r].stage = "find"
    /\ \/ /\ \E s \in SitesOf(requests[r].account) : s.domain = requests[r].domain
          /\ requests' = [requests EXCEPT ![r].stage = "answer"]
          /\ Queue(r)
       \/ /\ ~\E s \in SitesOf(requests[r].account) : s.domain = requests[r].domain
          /\ requests' = [requests EXCEPT ![r].stage = "insert"]
          /\ UNCHANGED unmailed
    /\ UNCHANGED <<accounts, users, links, cookies, sites, lastSite, roles, opened>>

\* uq_sites_account_domain
Duplicate(account, domain) ==
    \E s \in SitesOf(account) : s.domain = domain

InsertSite(r) ==
    /\ requests[r].stage = "insert"
    /\ ~Duplicate(requests[r].account, requests[r].domain)
    /\ lastSite < MaxSites
    /\ lastSite' = lastSite + 1
    /\ sites' = sites \union
         {[id |-> lastSite + 1, account |-> requests[r].account,
           domain |-> requests[r].domain]}
    /\ requests' = [requests EXCEPT ![r].stage = "answer"]
    /\ Queue(r)
    /\ opened' = IF requests[r].kind = "audit"
                 THEN [opened EXCEPT ![requests[r].account] = @ + 1] ELSE opened
    /\ UNCHANGED <<accounts, users, links, cookies, roles>>

\* The constraint refuses the row: create_site says so, create_pending_run
\* lets the error through and the request dies without writing a cookie.
RefuseSite(r) ==
    /\ requests[r].stage = "insert"
    /\ Duplicate(requests[r].account, requests[r].domain)
    /\ requests' = IF requests[r].kind = "create"
                   THEN [requests EXCEPT ![r].stage = "answer"]
                   ELSE [requests EXCEPT ![r] = Idle]
    /\ UNCHANGED <<accounts, users, links, cookies, sites, lastSite, roles, given>>

\* The response, after the screenshot for an audit, replaces the cookie, and
\* may so sign the browser in.
Answer(r) ==
    /\ requests[r].stage = "answer"
    /\ cookies' = [cookies EXCEPT ![requests[r].client] =
         IF requests[r].kind = "audit"
         THEN [requests[r].copy EXCEPT !.count = @ + 1]
         ELSE requests[r].copy]
    /\ requests' = [requests EXCEPT ![r] = Idle]
    /\ unmailed' = IF requests[r].copy.user = None THEN unmailed
                   ELSE [unmailed EXCEPT ![requests[r].client] = 0]
    /\ UNCHANGED <<accounts, users, links, sites, lastSite, roles, opened>>

\* Admins may delete any site, others their own.
DeleteSite(c, s) ==
    /\ SignedIn(c)
    /\ s \in sites
    /\ IsAdmin(c) \/ s.account = CurrentAccount(c)
    /\ sites' = sites \ {s}
    /\ UNCHANGED <<accounts, users, links, cookies, lastSite, requests, roles, given>>

\* Everything but the deletion, which takes the site's other rows with it.
AccountsNext ==
    \/ \E c \in Clients :
         \/ Login(c) \/ Logout(c)
         \/ \E email \in Emails :
              \/ MagicLogin(c, email) \/ CaptureEmail(c, email)
              \/ \E role \in {"admin", "member"} : SetRole(c, email, role)
         \/ \E r \in Requests :
              \/ \E domain \in Domains :
                   StartAudit(c, r, domain) \/ CreateSite(c, r, domain)
              \/ \E s \in sites : RunSite(c, r, s)
    \/ \E r \in Requests :
         FindSite(r) \/ InsertSite(r) \/ RefuseSite(r) \/ Answer(r)
=============================================================================
