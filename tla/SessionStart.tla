---------------------------- MODULE SessionStart ----------------------------
(***************************************************************************)
(* Secure links and the sessions started from them, or anonymously, while  *)
(* the form is released, closed and reopened (Releases).  A start reads    *)
(* the link and the form's state in statements of their own; only a        *)
(* one-time link is consumed in the transaction that inserts the session.  *)
(*                                                                         *)
(* A link's token carries what its row says (its signature is checked), so *)
(* a start is given the row.  The challenge's verdict is an outside choice.*)
(***************************************************************************)
EXTENDS Releases

CONSTANTS
    Links,
    Starts          \* requests to start a session, each used once

ASSUME LinksAssumption ==
    /\ None \notin Links /\ "prod" \in Environments
    /\ None \notin [env : Environments, oneTime : BOOLEAN, consumed : BOOLEAN, revoked : BOOLEAN,
                    expired : BOOLEAN]
    /\ None \notin [link : Links \cup {None}, env : Environments, version : Nat, since : Nat]

VARIABLES
    link,           \* secure_links: each row, or None before it is minted
    session,        \* the session each start inserted, or None
    start           \* starts in flight

linkVars == <<link, session, start>>
allVars == <<vars, linkVars>>

NotStarted == [pc |-> "idle", link |-> None, env |-> None, version |-> 0, since |-> 0]

StartInit ==
    /\ Init
    /\ link = [l \in Links |-> None]
    /\ session = [s \in Starts |-> None]
    /\ start = [s \in Starts |-> NotStarted]

Advance(s, r) == start' = [start EXCEPT ![s] = r]

-----------------------------------------------------------------------------
(* Minting, expiry and revocation.                                         *)

Mint(l) ==
    /\ link[l] = None
    /\ \E e \in Environments, oneTime \in BOOLEAN :
         link' = [link EXCEPT ![l] = [env |-> e, oneTime |-> oneTime, consumed |-> FALSE,
                                      revoked |-> FALSE, expired |-> FALSE]]
    /\ UNCHANGED <<session, start>>

Expire(l) ==
    /\ link[l] # None
    /\ link' = [link EXCEPT ![l].expired = TRUE]
    /\ UNCHANGED <<session, start>>

\* A start that has updated the link's row and not committed yet.
Consuming(l) == \E s \in Starts : start[s].pc = "consumed" /\ start[s].link = l

\* revokeSecureLink: a compare-and-set that waits for the row.
revokeSecureLink(l) ==
    /\ link[l] # None
    /\ ~Consuming(l)
    /\ ~link[l].revoked
    /\ link' = [link EXCEPT ![l].revoked = TRUE]
    /\ UNCHANGED <<session, start>>

-----------------------------------------------------------------------------
(* Starting.                                                               *)

\* The anonymous entry is mounted for prod alone.
startAnonymous(s) ==
    /\ start[s].pc = "idle"
    /\ Advance(s, [NotStarted EXCEPT !.pc = "usable", !.env = "prod",
                                     !.since = Len(releases["prod"])])
    /\ UNCHANGED <<link, session>>

assertLinkUsable(row) == ~row.revoked /\ ~row.consumed /\ ~row.expired

\* Fault: a link of another environment is accepted.
BelongsAnywhere(row, e) == TRUE

\* Another environment's link is refused.
Belongs(row, e) == row.env = e

\* startFromSecureLink: the row is read once.
startFromSecureLink(s, l) ==
    /\ start[s].pc = "idle"
    /\ link[l] # None
    /\ \E e \in Environments :
         /\ Belongs(link[l], e)
         /\ assertLinkUsable(link[l])
         /\ Advance(s, [NotStarted EXCEPT !.pc = "usable", !.link = l, !.env = e,
                                          !.since = Len(releases[e])])
    /\ UNCHANGED <<link, session>>

\* Fault: a closed form is not refused.
AcceptingAny(e) == Released(e) # None

Accepting(e) == Released(e) # None /\ ~ClosedIn(e)

\* The version is pinned here, before anything is spent.
requireOpenEnvironment(s) ==
    /\ start[s].pc = "usable"
    /\ Accepting(start[s].env)
    /\ Advance(s, [start[s] EXCEPT !.pc = "open", !.version = Released(start[s].env).version])
    /\ UNCHANGED <<link, session>>

\* A challenge that fails, a link consumed meanwhile, or a failed statement.
GiveUp(s) ==
    /\ start[s].pc \in {"open", "consumed"}
    /\ Advance(s, [start[s] EXCEPT !.pc = "done"])
    /\ UNCHANGED <<link, session>>

OneTime(s) == start[s].link # None /\ link[start[s].link].oneTime

\* Fault: a consumed link is consumed again.
UnspentAgain(row) == ~row.revoked

\* Fault: a revocation since the first read is not noticed.
UnspentRevoked(row) == ~row.consumed

\* The compare of consumeSecureLink's compare-and-set.
Unspent(row) == ~row.consumed /\ ~row.revoked

\* The one-time link's row is updated, and held until the commit.
consumeSecureLink(s) ==
    /\ start[s].pc = "open"
    /\ OneTime(s)
    /\ ~Consuming(start[s].link)
    /\ Unspent(link[start[s].link])
    /\ Advance(s, [start[s] EXCEPT !.pc = "consumed"])
    /\ UNCHANGED <<link, session>>

\* The session insert: a one-time link's consumption commits with it, any other
\* start inserts and no more.
insertPinnedSession(s) ==
    /\ start[s].pc = IF OneTime(s) THEN "consumed" ELSE "open"
    /\ session' = [session EXCEPT ![s] = [link |-> start[s].link, env |-> start[s].env,
                                          version |-> start[s].version, since |-> start[s].since]]
    /\ link' = IF OneTime(s) THEN [link EXCEPT ![start[s].link].consumed = TRUE] ELSE link
    /\ Advance(s, [start[s] EXCEPT !.pc = "done"])

StartNext ==
    \/ Next /\ UNCHANGED linkVars
    \/ /\ \/ \E l \in Links : Mint(l) \/ Expire(l) \/ revokeSecureLink(l)
          \/ \E s \in Starts :
               \/ startAnonymous(s) \/ requireOpenEnvironment(s)
               \/ GiveUp(s) \/ consumeSecureLink(s) \/ insertPinnedSession(s)
               \/ \E l \in Links : startFromSecureLink(s, l)
       /\ UNCHANGED vars

StartSpec == StartInit /\ [][StartNext]_allVars

-----------------------------------------------------------------------------
\* The shape of the state: a start past its link check holds a minted link and
\* a version its environment has served.
StartTypeOK ==
    /\ \A l \in Links : link[l] # None => link[l].env \in Environments
    /\ \A s \in Starts : start[s].pc # "idle" =>
          /\ start[s].env \in Environments
          /\ start[s].link # None => /\ link[start[s].link] # None
                                     /\ link[start[s].link].env = start[s].env

From(l) == {s \in Starts : session[s] # None /\ session[s].link = l}

\* A one-time link is consumed if and only if one session exists that was
\* started from it: two clients never share it, and none loses it to a start
\* that failed halfway.
OneTimeSpentOnce ==
    \A l \in Links : link[l] # None /\ link[l].oneTime =>
        Cardinality(From(l)) = IF link[l].consumed THEN 1 ELSE 0

\* Once its revocation has committed, a one-time link starts nothing, not even a
\* start that had found it usable before.
RevokedStartsNothing ==
    [][\A l \in Links : link[l] # None /\ link[l].oneTime /\ link[l].revoked =>
           \A s \in Starts : session'[s] # session[s] => session'[s].link # l]_allVars

\* A session is pinned to a version that was served, open to respondents, in the
\* session's own environment at some moment of its start, whatever was released,
\* closed or rolled back while it ran.
PinnedToServed ==
    \A s \in Starts : session[s] # None =>
        \E i \in DOMAIN releases[session[s].env] :
            /\ i >= session[s].since
            /\ releases[session[s].env][i].version = session[s].version
            /\ ~releases[session[s].env][i].closed

\* Under the two-person rule no session of prod is ever pinned to a version whose
\* release there nobody but its publisher approved.
RespondentsSeeApproved ==
    TwoPerson => \A s \in Starts : session[s] # None /\ session[s].env = "prod" =>
        \E j \in DOMAIN releases["prod"] :
            /\ releases["prod"][j].version = session[s].version
            /\ releases["prod"][j].approvedBy \notin {None, versions[session[s].version].by}
=============================================================================
