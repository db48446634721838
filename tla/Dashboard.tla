----------------------------- MODULE Dashboard -----------------------------
(***************************************************************************)
(* The dashboard as a whole: accounts, sessions and sites with the sites'  *)
(* Google connections.  Deleting a site is what both take part in.         *)
(***************************************************************************)
EXTENDS Connections

vars == <<accountVars, connectionVars>>

Init == \E db \in Databases : AccountsInit(db) /\ ConnectionsInit(db)

Delete == \E c \in Clients, s \in sites : DeleteSite(c, s) /\ Cascade(s.id)

Next ==
    \/ AccountsNext /\ UNCHANGED connectionVars
    \/ ConnectionsNext /\ UNCHANGED accountVars
    \/ Delete

Spec == Init /\ [][Next]_vars

(***************************************************************************)
(* Properties                                                              *)
(***************************************************************************)
Sessions ==
    [user : Emails \union {None}, visitor : Visitors \union {None},
     count : 0..MAX_VISITOR_AUDITS, captured : BOOLEAN]
Rows == [id : 1..MaxRows, site : 1..MaxSites, source : Sources,
         status : {"connected", "error", "disconnected"},
         granted : AllAccounts, bound : AllAccounts]
RequestType ==
    [kind : {"audit", "create", "run"}, stage : {"find", "insert", "answer"},
     client : Clients, copy : Sessions, account : AllAccounts,
     domain : Domains]

\* A session names a registered user, and its visitor an account that exists:
\* handlers read both without a check.
TypeOK ==
    /\ accounts \subseteq AllAccounts
    /\ users \in [Emails -> Users \union {None}]
    /\ links \subseteq {e \in Emails : users[e] # None}
    /\ cookies \in [Clients -> Sessions]
    /\ \A c \in Clients : SignedIn(c) => CurrentUser(c) # None
    /\ \A c \in Clients : cookies[c].visitor \in accounts \union {None}
    /\ sites \subseteq Sites
    /\ lastSite \in 0..MaxSites
    /\ unmailed \in [Clients -> Nat] /\ opened \in [AllAccounts -> Nat]
    /\ requests \in [Requests -> RequestType \union {Idle}]
    /\ consents \subseteq 1..MaxSites
    /\ grants \subseteq [site : 1..MaxSites, by : AllAccounts]
    /\ rows \subseteq Rows
    /\ lastRow \in 0..MaxRows

\* The front door grants a first audit and asks for the email before a second
\* one (routes.py:183-190): it does not keep overlapping requests from being
\* first audits all, but until somebody signs in with the browser these are no
\* more than the server handles at a time, however requests overwrite each
\* other's cookie.
EmailComesFirst ==
    \A c \in Clients : unmailed[c] <= Cardinality(Requests)

\* create_site keeps to the plan's limit, whoever else inserts between its
\* count and its row, but for one site for each other request that the server
\* handles at a time.  start_audit does not look at the limit: the sites that
\* audits open in the account, routes.py:208, come on top, without a bound.
LimitOvershootBounded ==
    \A account \in AllAccounts :
      max_sites_for(plan_tier(account)) # None =>
        Cardinality(SitesOf(account))
          <= max_sites_for(plan_tier(account)) - 1 + Cardinality(Requests)
             + opened[account]

\* Credentials are stored only for a site of the account that consented and
\* that bound them: the browser may sign in as somebody else between the
\* steps, and the state and the grant it carries do not name the account.
GrantStaysWithItsAccount ==
    \A row \in rows : \A s \in sites :
      s.id = row.site => row.granted = s.account /\ row.bound = s.account

\* Nothing keeps two binds from inserting a row each, after which neither a
\* bind nor a disconnection works: but there are never more rows than requests
\* that may look together.
DuplicatesBounded ==
    \A site \in 1..MaxSites, source \in Sources :
      Cardinality(RowsFor(site, source)) <= Cardinality(Requests)

ReadBefore(row) ==
    fetch # None /\ \E loaded \in fetch.todo :
      /\ loaded.id = row.id
      /\ loaded.source = row.source
      /\ loaded.status # "disconnected"
BindEnds == \E r \in Requests : binds[r] # NoBind /\ binds'[r] = NoBind

\* A source that is disconnected comes back only when somebody binds it again,
\* or when a run that read it before the disconnection is still to write its
\* status: that run undoes the disconnection.
DisconnectHolds ==
    [][\A row \in rows :
         row.status = "disconnected" /\ ~ReadBefore(row) /\ ~BindEnds
         => row \in rows' \/ ~Exists(row.site)']_vars
=============================================================================
