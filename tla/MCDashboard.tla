---------------------------- MODULE MCDashboard ----------------------------
EXTENDS Dashboard, TLC

CONSTANTS house, acme, v1, owner, member, guest, d1

Registered(account, role) == [account |-> account, role |-> role]
SiteRow(id, account, domain) == [id |-> id, account |-> account, domain |-> domain]

AllRegistered ==
    (owner :> Registered(house, "owner")) @@ (member :> Registered(acme, "member"))
    @@ (guest :> Registered(v1, "member"))

NoneOpened == [account \in AllAccounts |-> 0]

\* Visitors come; no Google client is configured, and one site can be made.
Opening ==
    [accounts |-> {house, acme}, users |-> [AllRegistered EXCEPT ![guest] = None],
     links |-> {}, sites |-> {}, lastSite |-> MaxSites - 1, opened |-> NoneOpened,
     configured |-> FALSE]

\* The customer's account is at its limit; no room for visitors.
AtLimit(x, y) ==
    [accounts |-> {house, acme, v1}, users |-> AllRegistered, links |-> {member},
     sites |-> {SiteRow(1, acme, x), SiteRow(2, acme, y)},
     lastSite |-> 2, opened |-> NoneOpened, configured |-> FALSE]

\* Google is configured; no room for another visitor or site.
Settled(x) ==
    [accounts |-> {house, acme, v1}, users |-> AllRegistered,
     links |-> {member, guest},
     sites |-> {SiteRow(1, acme, x), SiteRow(2, v1, x)},
     lastSite |-> MaxSites, opened |-> [NoneOpened EXCEPT ![v1] = 1],
     configured |-> TRUE]

MCDatabases ==
    {Opening, Settled(d1)} \union {AtLimit(d1, y) : y \in Domains \ {d1}}

\* The roles, and the connections, are explored apart, and while no site
\* request is under way; Goyande's own account, which has no limit, while no
\* other account has a site.
OfHouse ==
    SitesOf(House) # {} \/ \E r \in Requests : requests[r].account = House
MCBound ==
    /\ (configured \/ roles > 0) => \A r \in Requests : requests[r] = Idle
    /\ ~(configured /\ roles > 0)
    /\ OfHouse => sites \subseteq SitesOf(House)

MCSymmetry == Permutations(Domains \ {d1}) \union Permutations(Requests)
=============================================================================
