------------------------- MODULE SessionStart_proofs -------------------------
(***************************************************************************)
(* What a started session can rely on, for any number of links, starts and *)
(* admin requests: the release history proved in Releases_proofs, and who  *)
(* holds a one-time link's row between its consumption and the commit.     *)
(***************************************************************************)
EXTENDS SessionStart, Releases_proofs, FiniteSetTheorems

-----------------------------------------------------------------------------
(* The inductive invariant.                                                *)

LinkRec == [env : Environments, oneTime : BOOLEAN, consumed : BOOLEAN, revoked : BOOLEAN,
            expired : BOOLEAN]
SessionRec == [link : Links \cup {None}, env : Environments, version : Nat, since : Nat]
StartRec == [pc : {"idle", "usable", "open", "consumed", "done"}, link : Links \cup {None},
             env : Environments \cup {None}, version : Nat, since : Nat]

StartTypes ==
    /\ link \in [Links -> LinkRec \cup {None}]
    /\ session \in [Starts -> SessionRec \cup {None}]
    /\ start \in [Starts -> StartRec]

\* Version v was served, open, in e since its row number n.
ServedOpen(e, v, n) ==
    \E i \in DOMAIN releases[e] :
        i >= n /\ releases[e][i].version = v /\ ~releases[e][i].closed

\* A start under way, and the session one has inserted.
StartOK(r) ==
    /\ r.pc # "idle" => /\ r.env \in Environments
                        /\ r.link # None => link[r.link] # None /\ link[r.link].env = r.env
    /\ r.pc = "usable" => r.since <= Len(releases[r.env])
    /\ r.pc \in {"open", "consumed"} => ServedOpen(r.env, r.version, r.since)
    /\ r.pc = "consumed" => /\ r.link # None /\ link[r.link].oneTime
                            /\ ~link[r.link].consumed /\ ~link[r.link].revoked

SessionOK(s) ==
    session[s] # None =>
        /\ start[s].pc = "done" /\ start[s].link = session[s].link
        /\ ServedOpen(session[s].env, session[s].version, session[s].since)

\* The row of a one-time link is held by one start, and spent on one session.
SpentOnce(l) ==
    link[l] # None /\ link[l].oneTime =>
        /\ link[l].consumed <=> From(l) # {}
        /\ \A s, t \in From(l) : s = t
        /\ \A s, t \in Starts : /\ start[s].pc = "consumed" /\ start[s].link = l
                                /\ start[t].pc = "consumed" /\ start[t].link = l
                                => s = t

StartInv ==
    /\ ReleaseInv /\ StartTypes
    /\ \A s \in Starts : StartOK(start[s]) /\ SessionOK(s)
    /\ \A l \in Links : SpentOnce(l)

\* The initial state satisfies the invariant.
LEMMA StartInvInit == StartInit => StartInv
<1> SUFFICES ASSUME StartInit PROVE StartInv
  OBVIOUS
<1>1. ReleaseInv
  BY ReleaseInvInit DEF StartInit
<1>2. NotStarted \in StartRec /\ NotStarted.pc = "idle"
  BY DEF NotStarted, StartRec
<1>3. StartTypes
  BY <1>2 DEF StartInit, StartTypes
<1>4. \A s \in Starts : StartOK(start[s]) /\ SessionOK(s)
  BY <1>2 DEF StartInit, StartOK, SessionOK
<1>5. \A l \in Links : SpentOnce(l)
  BY DEF StartInit, SpentOnce
<1>6. QED
  BY <1>1, <1>3, <1>4, <1>5 DEF StartInv

-----------------------------------------------------------------------------
(* The steps.                                                              *)

\* What was served open stays in the history.
LEMMA ServedStays ==
    ASSUME ReleaseInv, ReleaseInv', Kept
    PROVE  \A e \in Environments :
             /\ Len(releases[e]) <= Len(releases'[e])
             /\ \A v, n : ServedOpen(e, v, n) => ServedOpen(e, v, n)'
<1> SUFFICES ASSUME NEW e \in Environments
             PROVE  /\ Len(releases[e]) <= Len(releases'[e])
                    /\ \A v, n : ServedOpen(e, v, n) => ServedOpen(e, v, n)'
  OBVIOUS
<1>1. releases[e] \in Seq(Row) /\ releases'[e] \in Seq(Row)
  BY DEF ReleaseInv, Types
<1>2. /\ Len(releases[e]) <= Len(releases'[e])
      /\ \A i \in DOMAIN releases[e] : releases'[e][i] = releases[e][i]
  BY DEF Kept
<1>3. \A i \in DOMAIN releases[e] : i \in DOMAIN releases'[e]
  BY <1>1, <1>2
<1>4. QED
  BY <1>2, <1>3 DEF ServedOpen

\* An admin step leaves every start, link and session as it was.
LEMMA AdminStep ==
    ASSUME StartInv, [Next]_vars, UNCHANGED linkVars
    PROVE  StartInv'
<1>1. ReleaseInv' /\ Kept
  BY ReleaseInvStep DEF StartInv
<1>2. UNCHANGED <<link, session, start>>
  BY DEF linkVars
<1>3. StartTypes'
  BY <1>2 DEF StartInv, StartTypes
<1>4. ASSUME NEW s \in Starts PROVE StartOK(start[s])' /\ SessionOK(s)'
  <2>1. /\ start[s] \in StartRec /\ StartOK(start[s]) /\ SessionOK(s)
        /\ session[s] \in SessionRec \cup {None}
    BY DEF StartInv, StartTypes
  <2>2. \A e \in Environments : /\ Len(releases[e]) \in Nat /\ Len(releases'[e]) \in Nat
                                /\ Len(releases[e]) <= Len(releases'[e])
                                /\ \A v, n : ServedOpen(e, v, n) => ServedOpen(e, v, n)'
    BY <1>1, ServedStays DEF StartInv, ReleaseInv, Types
  <2>3. StartOK(start[s])'
    <3>1. start[s].pc = "usable" => start[s].since <= Len(releases'[start[s].env])
      BY <2>1, <2>2 DEF StartOK, StartRec
    <3>2. ASSUME start[s].pc \in {"open", "consumed"}
          PROVE  ServedOpen(start[s].env, start[s].version, start[s].since)'
      <4>1. /\ start[s].env \in Environments
            /\ ServedOpen(start[s].env, start[s].version, start[s].since)
        BY <2>1, <3>2 DEF StartOK, StartRec
      <4>2. PICK e, v, n :
              e = start[s].env /\ v = start[s].version /\ n = start[s].since
        BY <4>1
      <4>3. ServedOpen(e, v, n)'
        BY <2>2, <4>1, <4>2
      <4>4. QED
        BY <1>2, <4>2, <4>3 DEF ServedOpen
    <3>3. QED
      BY <1>2, <2>1, <3>1, <3>2 DEF StartOK
  <2>4. SessionOK(s)'
    <3>1. ASSUME session[s] # None
          PROVE  ServedOpen(session[s].env, session[s].version, session[s].since)'
      <4>1. /\ session[s].env \in Environments
            /\ ServedOpen(session[s].env, session[s].version, session[s].since)
        BY <2>1, <3>1 DEF SessionOK, SessionRec
      <4>2. PICK e, v, n :
              e = session[s].env /\ v = session[s].version /\ n = session[s].since
        BY <4>1
      <4>3. ServedOpen(e, v, n)'
        BY <2>2, <4>1, <4>2
      <4>4. QED
        BY <1>2, <4>2, <4>3 DEF ServedOpen
    <3>2. QED
      BY <1>2, <2>1, <3>1 DEF SessionOK
  <2>5. QED
    BY <2>3, <2>4
<1>5. \A l \in Links : SpentOnce(l)'
  BY <1>2 DEF StartInv, SpentOnce, From
<1>6. QED
  BY <1>1, <1>3, <1>4, <1>5 DEF StartInv

\* The release history does not move when a start or a link does.
LEMMA HistoryStill ==
    ASSUME StartInv, UNCHANGED vars
    PROVE  /\ ReleaseInv'
           /\ \A e, v, n : ServedOpen(e, v, n)' <=> ServedOpen(e, v, n)
<1>1. ReleaseInv'
  BY ReleaseInvStep DEF StartInv
<1>2. releases' = releases
  BY DEF vars
<1>3. QED
  BY <1>1, <1>2 DEF ServedOpen

\* A link's row changes, but not what a start relies on.
LEMMA LinkStep ==
    ASSUME StartInv, NEW l \in Links, NEW row \in LinkRec, link' = [link EXCEPT ![l] = row],
           UNCHANGED <<session, start>>, UNCHANGED vars,
           link[l] # None => /\ row.env = link[l].env /\ row.oneTime = link[l].oneTime
                             /\ row.consumed = link[l].consumed,
           link[l] = None => ~row.consumed,
           Consuming(l) => row.revoked = link[l].revoked
    PROVE  StartInv'
<1>1. /\ ReleaseInv'
      /\ \A e, v, n : ServedOpen(e, v, n)' <=> ServedOpen(e, v, n)
      /\ releases' = releases
  BY HistoryStill DEF vars
<1>2. StartTypes'
  BY DEF StartInv, StartTypes
<1>3. \A k \in Links : link'[k] = IF k = l THEN row ELSE link[k]
  BY DEF StartInv, StartTypes
<1>4. row # None
  BY LinksAssumption DEF LinkRec
<1>5. ASSUME NEW s \in Starts PROVE StartOK(start[s])' /\ SessionOK(s)'
  <2>1. start[s] \in StartRec /\ StartOK(start[s]) /\ SessionOK(s)
    BY DEF StartInv, StartTypes
  <2>2. start[s].link \in Links \cup {None}
    BY <2>1 DEF StartRec
  <2>3. start[s].pc = "consumed" /\ start[s].link = l => Consuming(l)
    BY DEF Consuming
  <2>4. start[s].pc # "idle" => start[s].env \in Environments
                                /\ (start[s].link # None =>
                                      link'[start[s].link] # None
                                      /\ link'[start[s].link].env = start[s].env)
    BY <1>3, <1>4, <2>1, <2>2 DEF StartOK
  <2>5. start[s].pc = "consumed" =>
          start[s].link # None /\ link'[start[s].link].oneTime
          /\ ~link'[start[s].link].consumed /\ ~link'[start[s].link].revoked
    BY <1>3, <2>1, <2>2, <2>3 DEF StartOK
  <2>6. StartOK(start[s])'
    BY <1>1, <2>1, <2>4, <2>5 DEF StartOK
  <2>7. SessionOK(s)'
    BY <1>1, <2>1 DEF SessionOK
  <2>8. QED
    BY <2>6, <2>7
<1>6. ASSUME NEW k \in Links PROVE SpentOnce(k)'
  <2>1. SpentOnce(k) /\ From(k)' = From(k)
    BY DEF StartInv, From
  <2>2. CASE link[k] # None
    BY <1>3, <2>1, <2>2 DEF SpentOnce
  <2>3. CASE link[k] = None
    <3>1. \A s \in Starts : start[s].pc # "idle" => start[s].link # k
      BY <2>3, LinksAssumption DEF StartInv, StartOK
    <3>2. From(k) = {}
      BY <3>1, LinksAssumption DEF From, StartInv, SessionOK
    <3>3. \A s \in Starts : start[s].pc = "consumed" => start[s].link # k
      BY <3>1
    <3>4. link'[k] # None => ~link'[k].consumed
      BY <1>3, <2>3
    <3>5. QED
      BY <2>1, <3>2, <3>3, <3>4 DEF SpentOnce
  <2>4. QED
    BY <2>2, <2>3
<1>7. QED
  BY <1>1, <1>2, <1>5, <1>6 DEF StartInv

\* A start moves on and inserts nothing yet.
LEMMA StartMoves ==
    ASSUME StartInv, NEW s \in Starts, NEW r \in StartRec, Advance(s, r), StartOK(r),
           UNCHANGED <<link, session>>, UNCHANGED vars, start[s].pc # "done",
           r.pc = "consumed" => \A t \in Starts : ~(start[t].pc = "consumed"
                                                    /\ start[t].link = r.link)
    PROVE  StartInv'
<1>1. /\ ReleaseInv'
      /\ \A e, v, n : ServedOpen(e, v, n)' <=> ServedOpen(e, v, n)
      /\ releases' = releases
  BY HistoryStill DEF vars
<1>2. StartTypes'
  BY DEF StartInv, StartTypes, Advance
<1>3. \A t \in Starts : start'[t] = IF t = s THEN r ELSE start[t]
  BY DEF StartInv, StartTypes, Advance
<1>4. ASSUME NEW t \in Starts PROVE StartOK(start[t])' /\ SessionOK(t)'
  <2>1. StartOK(start'[t])
    BY <1>3 DEF StartInv
  <2>2. StartOK(start[t])'
    BY <1>1, <2>1 DEF StartOK
  <2>3. SessionOK(t)'
    BY <1>1, <1>3 DEF StartInv, SessionOK
  <2>4. QED
    BY <2>2, <2>3
<1>5. ASSUME NEW k \in Links PROVE SpentOnce(k)'
  <2>1. SpentOnce(k) /\ From(k)' = From(k)
    BY DEF StartInv, From
  <2>2. \A t, u \in Starts : /\ start'[t].pc = "consumed" /\ start'[t].link = k
                             /\ start'[u].pc = "consumed" /\ start'[u].link = k
                             /\ link[k] # None /\ link[k].oneTime
                             => t = u
    BY <1>3, <2>1 DEF SpentOnce
  <2>3. QED
    BY <2>1, <2>2 DEF SpentOnce
<1>6. QED
  BY <1>1, <1>2, <1>4, <1>5 DEF StartInv

\* Minting, expiring and revoking.
LEMMA LinkSteps ==
    ASSUME StartInv, NEW l \in Links, Mint(l) \/ Expire(l) \/ revokeSecureLink(l), UNCHANGED vars
    PROVE  StartInv'
<1>1. UNCHANGED <<session, start>>
  BY DEF Mint, Expire, revokeSecureLink
<1>2. link[l] \in LinkRec \cup {None}
  BY DEF StartInv, StartTypes
<1>3. CASE Mint(l)
  <2>1. PICK e \in Environments, oneTime \in BOOLEAN :
          link' = [link EXCEPT ![l] = [env |-> e, oneTime |-> oneTime, consumed |-> FALSE,
                                       revoked |-> FALSE, expired |-> FALSE]]
    BY <1>3 DEF Mint
  <2> DEFINE row == [env |-> e, oneTime |-> oneTime, consumed |-> FALSE,
                     revoked |-> FALSE, expired |-> FALSE]
  <2>2. row \in LinkRec /\ ~row.consumed /\ ~row.revoked /\ link[l] = None
    BY <1>3 DEF LinkRec, Mint
  <2>3. ~Consuming(l)
    BY <2>2, LinksAssumption DEF Consuming, StartInv, StartOK
  <2>4. QED
    BY <1>1, <2>1, <2>2, <2>3, LinkStep
<1>4. CASE Expire(l)
  <2> DEFINE row == [link[l] EXCEPT !.expired = TRUE]
  <2>1. link[l] \in LinkRec /\ link' = [link EXCEPT ![l] = row]
    BY <1>2, <1>4 DEF Expire
  <2>2. /\ row \in LinkRec /\ row.env = link[l].env /\ row.oneTime = link[l].oneTime
        /\ row.consumed = link[l].consumed /\ row.revoked = link[l].revoked
    BY <2>1 DEF LinkRec
  <2>3. link[l] # None
    BY <1>4 DEF Expire
  <2> HIDE DEF row
  <2>4. QED
    BY <1>1, <2>1, <2>2, <2>3, LinkStep
<1>5. CASE revokeSecureLink(l)
  <2> DEFINE row == [link[l] EXCEPT !.revoked = TRUE]
  <2>1. link[l] \in LinkRec /\ link' = [link EXCEPT ![l] = row]
    BY <1>2, <1>5 DEF revokeSecureLink
  <2>2. /\ row \in LinkRec /\ row.env = link[l].env /\ row.oneTime = link[l].oneTime
        /\ row.consumed = link[l].consumed
    BY <2>1 DEF LinkRec
  <2>3. link[l] # None /\ ~Consuming(l)
    BY <1>5 DEF revokeSecureLink
  <2> HIDE DEF row
  <2>4. QED
    BY <1>1, <2>1, <2>2, <2>3, LinkStep
<1>6. QED
  BY <1>3, <1>4, <1>5

\* Entering, by link or without, and pinning the version.
LEMMA EnterSteps ==
    ASSUME StartInv, NEW s \in Starts,
           \/ startAnonymous(s) \/ requireOpenEnvironment(s)
           \/ \E l \in Links : startFromSecureLink(s, l),
           UNCHANGED vars
    PROVE  StartInv'
<1>1. /\ start[s] \in StartRec /\ StartOK(start[s]) /\ start[s].pc # "done"
      /\ UNCHANGED <<link, session>>
  BY DEF StartInv, StartTypes, startAnonymous, requireOpenEnvironment, startFromSecureLink
<1>2. \A e \in Environments : Len(releases[e]) \in Nat
  BY DEF StartInv, ReleaseInv, Types
<1>3. CASE startAnonymous(s)
  <2> DEFINE r == [NotStarted EXCEPT !.pc = "usable", !.env = "prod",
                                     !.since = Len(releases["prod"])]
  <2>1. "prod" \in Environments /\ Len(releases["prod"]) \in Nat
    BY <1>2, LinksAssumption
  <2>2. /\ r \in StartRec /\ r.pc = "usable" /\ r.env = "prod" /\ r.link = None
        /\ r.since = Len(releases["prod"])
    BY <2>1 DEF NotStarted, StartRec
  <2>3. StartOK(r)
    BY <2>1, <2>2 DEF StartOK
  <2>4. Advance(s, r)
    BY <1>3 DEF startAnonymous
  <2> HIDE DEF r
  <2>5. QED
    BY <1>1, <2>2, <2>3, <2>4, StartMoves
<1>4. ASSUME NEW l \in Links, startFromSecureLink(s, l) PROVE StartInv'
  <2>1. PICK e \in Environments :
          /\ Belongs(link[l], e)
          /\ Advance(s, [NotStarted EXCEPT !.pc = "usable", !.link = l, !.env = e,
                                           !.since = Len(releases[e])])
    BY <1>4 DEF startFromSecureLink
  <2> DEFINE r == [NotStarted EXCEPT !.pc = "usable", !.link = l, !.env = e,
                                     !.since = Len(releases[e])]
  <2>2. /\ r \in StartRec /\ r.pc = "usable" /\ r.env = e /\ r.link = l
        /\ r.since = Len(releases[e])
    BY <1>2 DEF NotStarted, StartRec
  <2>3. link[l] # None /\ link[l].env = e /\ Len(releases[e]) \in Nat
    BY <1>2, <1>4, <2>1 DEF startFromSecureLink, Belongs
  <2>4. StartOK(r)
    BY <2>2, <2>3 DEF StartOK
  <2>5. Advance(s, r)
    BY <2>1
  <2> HIDE DEF r
  <2>6. QED
    BY <1>1, <2>2, <2>4, <2>5, StartMoves
<1>5. CASE requireOpenEnvironment(s)
  <2> DEFINE e == start[s].env
             r == [start[s] EXCEPT !.pc = "open", !.version = Released(e).version]
  <2>1. /\ start[s].pc = "usable" /\ e \in Environments /\ start[s].since <= Len(releases[e])
        /\ Released(e) # None /\ ~ClosedIn(e) /\ Advance(s, r)
    BY <1>1, <1>5 DEF requireOpenEnvironment, Accepting, StartOK
  <2>2. releases[e] # <<>>
    BY <2>1 DEF Released
  <2>3. /\ Released(e) = releases[e][Len(releases[e])] /\ Released(e).version \in Nat
        /\ Len(releases[e]) \in DOMAIN releases[e]
    BY <2>1, <2>2, NewestRow DEF StartInv, Row
  <2>4. ~Released(e).closed
    BY <2>1 DEF ClosedIn
  <2>5. ServedOpen(e, Released(e).version, start[s].since)
    BY <1>2, <2>1, <2>3, <2>4 DEF ServedOpen
  <2>6. /\ r \in StartRec /\ r.pc = "open" /\ r.env = e /\ r.link = start[s].link
        /\ r.version = Released(e).version /\ r.since = start[s].since
    BY <1>1, <2>3 DEF StartRec
  <2>7. StartOK(r)
    BY <1>1, <2>1, <2>5, <2>6 DEF StartOK
  <2>8. Advance(s, r)
    BY <2>1
  <2> HIDE DEF r
  <2>9. QED
    BY <1>1, <2>6, <2>7, <2>8, StartMoves
<1>6. QED
  BY <1>3, <1>4, <1>5

\* Taking the one-time link's row, and giving up.
LEMMA SpendSteps ==
    ASSUME StartInv, NEW s \in Starts, consumeSecureLink(s) \/ GiveUp(s), UNCHANGED vars
    PROVE  StartInv'
<1>1. /\ start[s] \in StartRec /\ StartOK(start[s]) /\ UNCHANGED <<link, session>>
      /\ start[s].pc \in {"open", "consumed"}
  BY DEF StartInv, StartTypes, consumeSecureLink, GiveUp
<1>2. CASE consumeSecureLink(s)
  <2> DEFINE r == [start[s] EXCEPT !.pc = "consumed"]
  <2>1. /\ start[s].pc = "open" /\ OneTime(s) /\ ~Consuming(start[s].link)
        /\ Unspent(link[start[s].link]) /\ Advance(s, r)
    BY <1>2 DEF consumeSecureLink
  <2>2. /\ r \in StartRec /\ r.pc = "consumed" /\ r.env = start[s].env
        /\ r.link = start[s].link /\ r.version = start[s].version /\ r.since = start[s].since
    BY <1>1 DEF StartRec
  <2>3. StartOK(r)
    BY <1>1, <2>1, <2>2 DEF StartOK, OneTime, Unspent
  <2>4. \A t \in Starts : ~(start[t].pc = "consumed" /\ start[t].link = r.link)
    BY <2>1, <2>2 DEF Consuming
  <2> HIDE DEF r
  <2>5. QED
    BY <1>1, <2>1, <2>2, <2>3, <2>4, StartMoves
<1>3. CASE GiveUp(s)
  <2> DEFINE r == [start[s] EXCEPT !.pc = "done"]
  <2>1. Advance(s, r)
    BY <1>3 DEF GiveUp
  <2>2. r \in StartRec /\ r.pc = "done" /\ r.env = start[s].env /\ r.link = start[s].link
    BY <1>1 DEF StartRec
  <2>3. StartOK(r)
    BY <1>1, <2>2 DEF StartOK
  <2> HIDE DEF r
  <2>4. QED
    BY <1>1, <2>1, <2>2, <2>3, StartMoves
<1>4. QED
  BY <1>2, <1>3

\* The session is inserted, and the one-time link it was started from spent.
LEMMA InsertStep ==
    ASSUME StartInv, NEW s \in Starts, insertPinnedSession(s), UNCHANGED vars
    PROVE  StartInv'
<1> DEFINE k == start[s].link
           row == [link |-> start[s].link, env |-> start[s].env,
                   version |-> start[s].version, since |-> start[s].since]
           r == [start[s] EXCEPT !.pc = "done"]
<1>1. /\ start[s] \in StartRec /\ StartOK(start[s]) /\ SessionOK(s)
      /\ start[s].pc = IF OneTime(s) THEN "consumed" ELSE "open"
      /\ session' = [session EXCEPT ![s] = row] /\ Advance(s, r)
      /\ link' = IF OneTime(s) THEN [link EXCEPT ![k].consumed = TRUE] ELSE link
  BY DEF StartInv, StartTypes, insertPinnedSession
<1>2. session[s] = None
  BY <1>1 DEF SessionOK
<1>3. /\ ServedOpen(start[s].env, start[s].version, start[s].since)
      /\ start[s].env \in Environments
  BY <1>1 DEF StartOK
<1>4. row \in SessionRec /\ row # None
  BY <1>1, <1>3, LinksAssumption DEF SessionRec, StartRec
<1>5. r \in StartRec /\ r.pc = "done" /\ r.link = k /\ r.env = start[s].env
  BY <1>1 DEF StartRec
<1>6. /\ \A t \in Starts : session'[t] = IF t = s THEN row ELSE session[t]
      /\ \A t \in Starts : start'[t] = IF t = s THEN r ELSE start[t]
  BY <1>1 DEF StartInv, StartTypes, Advance
<1>7. OneTime(s) => /\ k \in Links /\ link[k] \in LinkRec /\ link[k] # None
                    /\ link[k].oneTime /\ ~link[k].consumed /\ start[s].pc = "consumed"
  BY <1>1 DEF OneTime, StartOK, StartRec, StartInv, StartTypes
<1> DEFINE spent == [link[k] EXCEPT !.consumed = TRUE]
<1>8. OneTime(s) => /\ spent \in LinkRec /\ spent.env = link[k].env /\ spent.oneTime
                    /\ spent.consumed /\ spent.revoked = link[k].revoked /\ spent # None
  BY <1>7, LinksAssumption DEF LinkRec
<1>9. \A l \in Links : link'[l] = IF OneTime(s) /\ l = k THEN spent ELSE link[l]
  BY <1>1, <1>7 DEF StartInv, StartTypes
<1>10. StartTypes'
  <2>1. session' \in [Starts -> SessionRec \cup {None}] /\ start' \in [Starts -> StartRec]
    BY <1>1, <1>4, <1>5 DEF StartInv, StartTypes, Advance
  <2>2. link' \in [Links -> LinkRec \cup {None}]
    BY <1>1, <1>7, <1>8 DEF StartInv, StartTypes
  <2>3. QED
    BY <2>1, <2>2 DEF StartTypes
<1>11. /\ ReleaseInv'
       /\ \A e, v, n : ServedOpen(e, v, n)' <=> ServedOpen(e, v, n)
       /\ releases' = releases
  BY HistoryStill DEF vars
<1> HIDE DEF row, r, spent
<1>12. ASSUME NEW t \in Starts PROVE StartOK(start[t])' /\ SessionOK(t)'
  <2>1. StartOK(start[t]) /\ SessionOK(t) /\ start[t] \in StartRec
        /\ start[t].link \in Links \cup {None}
    BY DEF StartInv, StartTypes, StartRec
  <2>2. CASE t = s
    <3>1. /\ start'[t].pc = "done" /\ start'[t].link = k /\ start'[t].env = start[s].env
          /\ session'[t] = row
      BY <1>5, <1>6, <2>2
    <3>2. k # None => link'[k] # None /\ link'[k].env = start[s].env
      BY <1>1, <1>8, <1>9, <2>1, <2>2 DEF StartOK
    <3>3. StartOK(start[t])'
      BY <1>3, <3>1, <3>2 DEF StartOK
    <3>4. SessionOK(t)'
      BY <1>3, <1>11, <3>1 DEF SessionOK, row
    <3>5. QED
      BY <3>3, <3>4
  <2>3. CASE t # s
    <3>1. start'[t] = start[t] /\ session'[t] = session[t]
      BY <1>6, <2>3
    <3>2. start[t].pc = "consumed" => ~(OneTime(s) /\ start[t].link = k)
      BY <1>7, <2>3 DEF StartInv, SpentOnce
    <3>3. start[t].pc # "idle" /\ start[t].link # None =>
            link'[start[t].link] # None /\ link'[start[t].link].env = start[t].env
      BY <1>8, <1>9, <2>1 DEF StartOK
    <3>4. start[t].pc = "consumed" => /\ start[t].link # None
                                      /\ link'[start[t].link] = link[start[t].link]
      BY <1>9, <2>1, <3>2 DEF StartOK
    <3>5. StartOK(start[t])'
      BY <1>11, <2>1, <3>1, <3>3, <3>4 DEF StartOK
    <3>6. SessionOK(t)'
      BY <1>11, <2>1, <3>1 DEF SessionOK
    <3>7. QED
      BY <3>5, <3>6
  <2>4. QED
    BY <2>2, <2>3
<1>13. ASSUME NEW l \in Links PROVE SpentOnce(l)'
  <2>1. SpentOnce(l)
    BY DEF StartInv
  <2>2. \A t \in Starts : start'[t].pc = "consumed" => start'[t] = start[t]
    BY <1>5, <1>6
  <2>3. CASE OneTime(s) /\ l = k
    <3>1. From(l) = {}
      BY <1>7, <2>1, <2>3 DEF SpentOnce
    <3>2. s \in From(l)'
      BY <1>4, <1>6, <2>3 DEF From, row
    <3>3. \A t \in Starts \ {s} : t \notin From(l)'
      BY <1>6, <3>1 DEF From
    <3>4. \A t \in From(l)' : t = s
      BY <3>3 DEF From
    <3>5. link'[l].consumed
      BY <1>8, <1>9, <2>3
    <3>6. \A t, u \in Starts : /\ start'[t].pc = "consumed" /\ start'[t].link = l
                               /\ start'[u].pc = "consumed" /\ start'[u].link = l
                               => t = u
      BY <1>7, <2>1, <2>2, <2>3 DEF SpentOnce
    <3>7. QED
      BY <3>2, <3>4, <3>5, <3>6 DEF SpentOnce
  <2>4. CASE ~(OneTime(s) /\ l = k)
    <3>1. link'[l] = link[l]
      BY <1>9, <2>4
    <3>2. link[l].oneTime => l # k
      BY <2>4, LinksAssumption DEF OneTime
    <3>3. link[l].oneTime => From(l)' = From(l)
      BY <1>2, <1>6, <3>2 DEF From, row
    <3>4. \A t, u \in Starts : /\ start'[t].pc = "consumed" /\ start'[t].link = l
                               /\ start'[u].pc = "consumed" /\ start'[u].link = l
                               /\ link[l] # None /\ link[l].oneTime
                               => t = u
      BY <2>1, <2>2 DEF SpentOnce
    <3>5. QED
      BY <2>1, <3>1, <3>3, <3>4 DEF SpentOnce
  <2>5. QED
    BY <2>3, <2>4
<1>14. QED
  BY <1>10, <1>11, <1>12, <1>13 DEF StartInv

\* Every step keeps the invariant.
LEMMA StartInvStep == StartInv /\ [StartNext]_allVars => StartInv'
<1> SUFFICES ASSUME StartInv, [StartNext]_allVars PROVE StartInv'
  OBVIOUS
<1>1. CASE Next /\ UNCHANGED linkVars
  BY <1>1, AdminStep
<1>2. CASE UNCHANGED allVars
  BY <1>2, AdminStep DEF allVars
<1>3. ASSUME NEW l \in Links, Mint(l) \/ Expire(l) \/ revokeSecureLink(l), UNCHANGED vars
      PROVE  StartInv'
  BY <1>3, LinkSteps
<1>4. ASSUME NEW s \in Starts,
             \/ startAnonymous(s) \/ requireOpenEnvironment(s)
             \/ \E l \in Links : startFromSecureLink(s, l),
             UNCHANGED vars
      PROVE  StartInv'
  BY <1>4, EnterSteps
<1>5. ASSUME NEW s \in Starts, consumeSecureLink(s) \/ GiveUp(s), UNCHANGED vars
      PROVE  StartInv'
  BY <1>5, SpendSteps
<1>6. ASSUME NEW s \in Starts, insertPinnedSession(s), UNCHANGED vars
      PROVE  StartInv'
  BY <1>6, InsertStep
<1>7. QED
  BY <1>1, <1>2, <1>3, <1>4, <1>5, <1>6 DEF StartNext

-----------------------------------------------------------------------------
(* The theorems.                                                           *)

\* The invariant holds in every reachable state of the links, the starts and the
\* releases together.
THEOREM StartInvariant == StartSpec => []StartInv
  BY StartInvInit, StartInvStep, PTL DEF StartSpec

\* A start past its link check holds a minted link of its own environment.
THEOREM StartTypeCorrect == StartSpec => []StartTypeOK
<1>1. StartInv => StartTypeOK
  BY LinksAssumption DEF StartInv, StartTypes, StartTypeOK, StartOK, LinkRec
<1>2. QED
  BY <1>1, StartInvariant, PTL

\* A one-time link is consumed exactly when one session was started from it.
THEOREM OneTimeIsSpentOnce == StartSpec => []OneTimeSpentOnce
<1>1. StartInv => OneTimeSpentOnce
  <2> SUFFICES ASSUME StartInv, NEW l \in Links, link[l] # None, link[l].oneTime
               PROVE  Cardinality(From(l)) = IF link[l].consumed THEN 1 ELSE 0
    BY DEF OneTimeSpentOnce
  <2>1. (link[l].consumed <=> From(l) # {}) /\ \A s, t \in From(l) : s = t
    BY DEF StartInv, SpentOnce
  <2>2. CASE From(l) = {}
    BY <2>1, <2>2, FS_EmptySet
  <2>3. CASE From(l) # {}
    <3>1. PICK s : s \in From(l)
      BY <2>3
    <3>2. From(l) = {s}
      BY <2>1, <3>1
    <3>3. QED
      BY <2>1, <2>3, <3>2, FS_Singleton
  <2>4. QED
    BY <2>2, <2>3
<1>2. QED
  BY <1>1, StartInvariant, PTL

\* A one-time link whose revocation has committed starts no session any more.
THEOREM RevokedStartNothing == StartSpec => RevokedStartsNothing
<1>1. StartInv /\ [StartNext]_allVars =>
        [\A l \in Links : link[l] # None /\ link[l].oneTime /\ link[l].revoked =>
            \A s \in Starts : session'[s] # session[s] => session'[s].link # l]_allVars
  <2> SUFFICES ASSUME StartInv, [StartNext]_allVars,
                      NEW l \in Links, link[l] # None, link[l].oneTime, link[l].revoked,
                      NEW s \in Starts, session'[s] # session[s]
               PROVE  session'[s].link # l
    OBVIOUS
  <2>1. PICK t \in Starts : insertPinnedSession(t)
    BY DEF StartNext, allVars, linkVars, Mint, Expire, revokeSecureLink, startAnonymous,
           startFromSecureLink, requireOpenEnvironment, GiveUp, consumeSecureLink
  <2>2. session'[s].link = start[s].link /\ s = t
    BY <2>1 DEF insertPinnedSession, StartInv, StartTypes
  <2>3. start[s].link = l => OneTime(s)
    BY LinksAssumption DEF OneTime
  <2>4. start[s].link = l => start[s].pc = "consumed"
    BY <2>1, <2>2, <2>3 DEF insertPinnedSession
  <2>5. start[s].link # l
    BY <2>4 DEF StartInv, StartOK
  <2>6. QED
    BY <2>2, <2>5
<1>2. QED
  BY <1>1, StartInvariant, PTL DEF StartSpec, RevokedStartsNothing

\* A session is pinned to a version its environment served, open, while it started.
THEOREM PinnedWasServed == StartSpec => []PinnedToServed
<1>1. StartInv => PinnedToServed
  BY DEF StartInv, SessionOK, ServedOpen, PinnedToServed
<1>2. QED
  BY <1>1, StartInvariant, PTL

\* Under the two-person rule a session of prod is pinned to a version somebody
\* but its publisher approved there: what the releases keep and what a start
\* reads, together.
THEOREM RespondentsSeeTheApproved == StartSpec => []RespondentsSeeApproved
<1>1. StartInv => RespondentsSeeApproved
  <2> SUFFICES ASSUME StartInv, TwoPerson, NEW s \in Starts, session[s] # None,
                      session[s].env = "prod"
               PROVE  \E j \in DOMAIN releases["prod"] :
                        /\ releases["prod"][j].version = session[s].version
                        /\ releases["prod"][j].approvedBy \notin
                             {None, versions[session[s].version].by}
    BY DEF RespondentsSeeApproved
  <2>1. PICK i \in DOMAIN releases["prod"] : releases["prod"][i].version = session[s].version
    BY DEF StartInv, SessionOK, ServedOpen
  <2>2. PICK j \in 1 .. i :
          /\ releases["prod"][j].version = session[s].version
          /\ releases["prod"][j].approvedBy \notin {None, versions[session[s].version].by}
    BY <2>1, LinksAssumption DEF StartInv, ReleaseInv, ServedWasApproved
  <2>3. releases["prod"] \in Seq(Row)
    BY LinksAssumption DEF StartInv, ReleaseInv, Types
  <2>4. j \in DOMAIN releases["prod"]
    BY <2>1, <2>2, <2>3
  <2>5. QED
    BY <2>2, <2>4
<1>2. QED
  BY <1>1, StartInvariant, PTL

\* Starting sessions and handing out links never touches the history: with them
\* about, versions and releases are still those of one act after another.
THEOREM StartsKeepTheHistory == StartSpec => ImplementsReleases
<1>1. StartInit => Init
  BY DEF StartInit
<1>2. [StartNext]_allVars => [Next]_vars
  BY DEF StartNext, allVars
<1>3. StartSpec => Spec
  BY <1>1, <1>2, PTL DEF StartSpec, Spec
<1>4. QED
  BY <1>3, ReleasesImplementContract
=============================================================================
