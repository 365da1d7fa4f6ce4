---------------------------- MODULE SiteRegistry ----------------------------
(***************************************************************************)
(* What pairing promises: a resource has at most one live site, a site     *)
(* that is named once is never named again, and a resource changes hands   *)
(* only through a disconnection.                                           *)
(***************************************************************************)
CONSTANTS Resources, Sites, NoSite

VARIABLES
    owner,  \* the live site of a resource
    named   \* sites that were live once

registry == <<owner, named>>

Init == owner = [r \in Resources |-> NoSite] /\ named = {}

Claim(r, s) ==
    /\ owner[r] = NoSite /\ s \notin named
    /\ owner' = [owner EXCEPT ![r] = s]
    /\ named' = named \cup {s}

Release(r) ==
    /\ owner[r] # NoSite /\ owner' = [owner EXCEPT ![r] = NoSite]
    /\ UNCHANGED named

Next == \E r \in Resources : Release(r) \/ \E s \in Sites : Claim(r, s)

Spec == Init /\ [][Next]_registry
=============================================================================
