---------------------------- MODULE Connections ----------------------------
(***************************************************************************)
(* A site's Google sources: the consent, the choice of the properties and  *)
(* the disconnection (web/connections.py, connectors/store.py), and the    *)
(* fetch during a run (connectors/load.py).                                *)
(*                                                                         *)
(* The state of the consent and the grant are encrypted values that the    *)
(* browser carries.  Each names its site; which account consented and      *)
(* which one bound the grant are recorded here, not in the program.        *)
(***************************************************************************)
EXTENDS Accounts

CONSTANTS
    Sources,       \* search_console, ga4
    MaxRows        \* bound on the connection rows ever inserted

ASSUME ConnectionsAssumption == MaxRows \in Nat

VARIABLES
    configured,    \* Google's OAuth client is configured
    consents,      \* sites with a consent under way (the OAuth state)
    grants,        \* grants to bind: the site and the account that consented
    rows,          \* the rows of `connections`
    lastRow,       \* the last row id given
    binds,         \* the bind requests under way
    fetch          \* the sources a run is fetching, None between runs

connectionVars == <<configured, consents, grants, rows, lastRow, binds, fetch>>

NoBind == [site |-> None, found |-> <<>>, granted |-> None, bound |-> None]

ConnectionsInit(db) ==
    /\ configured = db.configured
    /\ consents = {}
    /\ grants = {}
    /\ rows = {}
    /\ lastRow = 0
    /\ binds = [r \in Requests |-> NoBind]
    /\ fetch = None

RowsFor(site, source) == {row \in rows : row.site = site /\ row.source = source}

OwnedBy(c, site) ==
    /\ SignedIn(c)
    /\ \E s \in sites : s.id = site /\ owned_site(s, CurrentAccount(c))

GoogleStart(c, site) ==
    /\ OwnedBy(c, site)
    /\ configured
    /\ consents' = consents \union {site}
    /\ UNCHANGED <<configured, grants, rows, lastRow, binds, fetch>>

\* Mutant: whoever is signed in may finish the consent.
CallbackSignedIn(c, site) ==
    /\ site \in consents
    /\ SignedIn(c)
    /\ grants' = grants \union {[site |-> site, by |-> CurrentAccount(c)]}
    /\ UNCHANGED <<configured, consents, rows, lastRow, binds, fetch>>

\* The consent is given in time, and Google's answer holds a refresh token:
\* any other answer leaves everything as it is.
GoogleCallback(c, site) ==
    /\ site \in consents
    /\ OwnedBy(c, site)
    /\ grants' = grants \union {[site |-> site, by |-> CurrentAccount(c)]}
    /\ UNCHANGED <<configured, consents, rows, lastRow, binds, fetch>>

\* Mutant: a bind always adds rows.
NeverFound(site, source) == None

\* get_connection, None or the id of the one row; several rows raise.
get_connection(site, source) ==
    IF RowsFor(site, source) = {} THEN None
    ELSE (CHOOSE row \in RowsFor(site, source) : TRUE).id

OneRow(site, source) == Cardinality(RowsFor(site, source)) <= 1

\* The chosen sources are looked up first, and written at the commit.
BindLookup(c, r, grant, sources) ==
    /\ binds[r] = NoBind
    /\ grant \in grants
    /\ sources # {}
    /\ OwnedBy(c, grant.site)
    /\ \A source \in sources : OneRow(grant.site, source)
    /\ binds' = [binds EXCEPT ![r] =
                   [site |-> grant.site, granted |-> grant.by,
                    bound |-> CurrentAccount(c),
                    found |-> [source \in sources |->
                                  get_connection(grant.site, source)]]]
    /\ UNCHANGED <<configured, consents, grants, rows, lastRow, fetch>>

Exists(site) == \E s \in sites : s.id = site

\* The rows that a bind found, and its columns in them.
Found(bind) ==
    {row \in rows : /\ row.source \in DOMAIN bind.found
                    /\ row.id = bind.found[row.source]}
Missing(bind) == {source \in DOMAIN bind.found : bind.found[source] = None}

Written(bind, row) ==
    [row EXCEPT !.status = "connected", !.granted = bind.granted,
                !.bound = bind.bound]

NewRow(bind, source) ==
    [id |-> lastRow + 1, site |-> bind.site, source |-> source,
     status |-> "connected", granted |-> bind.granted, bound |-> bind.bound]

\* New credentials for the rows found, and a row for each source without one.
BindCommit(r) ==
    LET bind == binds[r]
    IN  /\ bind # NoBind
        /\ Exists(bind.site)
        /\ lastRow < MaxRows
        /\ rows' = (rows \ Found(bind))
                     \union {Written(bind, row) : row \in Found(bind)}
                     \union {NewRow(bind, source) : source \in Missing(bind)}
        /\ lastRow' = IF Missing(bind) = {} THEN lastRow ELSE lastRow + 1
        /\ binds' = [binds EXCEPT ![r] = NoBind]
        /\ UNCHANGED <<configured, consents, grants, fetch>>

\* The site is gone: the foreign key refuses a new row, an update finds no
\* row to update, and the request dies.
BindFails(r) ==
    /\ binds[r] # NoBind
    /\ ~Exists(binds[r].site)
    /\ binds' = [binds EXCEPT ![r] = NoBind]
    /\ UNCHANGED <<configured, consents, grants, rows, lastRow, fetch>>

Disconnect(c, site, source) ==
    /\ OwnedBy(c, site)
    /\ OneRow(site, source)
    /\ rows' = {IF row \in RowsFor(site, source)
                THEN [row EXCEPT !.status = "disconnected"] ELSE row : row \in rows}
    /\ UNCHANGED <<configured, consents, grants, lastRow, binds, fetch>>

(***************************************************************************)
(* load_google_connectors, in the transaction of a run                     *)
(***************************************************************************)
\* Mutant: disconnected sources are fetched too.
LoadEveryRow(site) ==
    /\ fetch = None
    /\ Exists(site)
    /\ fetch' = [site |-> site, todo |-> {row \in rows : row.site = site}]
    /\ UNCHANGED <<configured, consents, grants, rows, lastRow, binds>>

\* The site's rows are read at once, and the connected ones fetched in turn.
LoadRows(site) ==
    /\ fetch = None
    /\ Exists(site)
    /\ fetch' = [site |-> site,
                 todo |-> {row \in rows : /\ row.site = site
                                          /\ row.status # "disconnected"}]
    /\ UNCHANGED <<configured, consents, grants, rows, lastRow, binds>>

\* The fetch succeeds or fails, seconds later; a status that differs from the
\* one read is written over what the row has now.
FetchRow(loaded, outcome) ==
    /\ fetch # None
    /\ loaded \in fetch.todo
    /\ Exists(loaded.site)
    /\ rows' = IF outcome = loaded.status THEN rows
               ELSE {IF row.id = loaded.id /\ row.source = loaded.source
                     THEN [row EXCEPT !.status = outcome] ELSE row : row \in rows}
    /\ fetch' = [fetch EXCEPT !.todo = @ \ {loaded}]
    /\ UNCHANGED <<configured, consents, grants, lastRow, binds>>

\* Nothing is left to fetch, or the site is gone and the row with it: the
\* update finds none and the run fails.
LoadEnds ==
    /\ fetch # None
    /\ fetch.todo = {} \/ ~Exists(fetch.site)
    /\ fetch' = None
    /\ UNCHANGED <<configured, consents, grants, rows, lastRow, binds>>

\* The rows of a deleted site go with it (ON DELETE CASCADE).
Cascade(site) ==
    /\ rows' = {row \in rows : row.site # site}
    /\ UNCHANGED <<configured, consents, grants, lastRow, binds, fetch>>

ConnectionsNext ==
    \/ \E c \in Clients : \E s \in sites :
         \/ GoogleStart(c, s.id) \/ GoogleCallback(c, s.id)
         \/ \E source \in Sources : Disconnect(c, s.id, source)
    \/ \E c \in Clients, r \in Requests, grant \in grants,
          sources \in SUBSET Sources : BindLookup(c, r, grant, sources)
    \/ \E r \in Requests : BindCommit(r) \/ BindFails(r)
    \/ \E s \in sites : LoadRows(s.id)
    \/ LoadEnds
    \/ /\ fetch # None
       /\ \E loaded \in fetch.todo, outcome \in {"connected", "error"} :
            FetchRow(loaded, outcome)
=============================================================================
