------------------------- MODULE EndpointProposals -------------------------
(***************************************************************************)
(* The webhook endpoints of one form in prod, and the changes to them that *)
(* the two-person rule holds until a second account confirms.  Proposals   *)
(* and their audit rows are in the control database, the endpoints in the  *)
(* environment's: a confirmation claims the proposal, writes the endpoint  *)
(* and stamps the proposal in three transactions, and may stop between     *)
(* any two of them.                                                        *)
(*                                                                         *)
(* A URL is named by the proposal or the direct request that carries it;   *)
(* the secret, which a change names or not like the URL, is left out.      *)
(***************************************************************************)
CONSTANTS
    Requests,       \* the admin requests in progress at once
    Proposals,
    Webhooks,
    Accounts,
    None

Change == [webhook : Webhooks, kind : {"create", "update", "deactivate"},
           url : Proposals \cup Requests \cup {None}, active : BOOLEAN \cup {None}]
Endpoint == [url : Proposals \cup Requests, active : BOOLEAN]
ProposalRow == [change : Change, by : Accounts, confirmedBy : Accounts \cup {None},
                applied : BOOLEAN, withdrawn : BOOLEAN]

ASSUME NamesAssumption ==
    /\ Proposals \cap Requests = {}
    /\ None \notin Proposals \cup Requests \cup Accounts \cup Webhooks \cup BOOLEAN
    /\ None \notin Endpoint \cup ProposalRow

VARIABLES
    rule,           \* workspace.requireSecondApprover
    endpoint,       \* the webhooks row of each endpoint, or None
    proposal,       \* the webhook_endpoint_proposals row of each proposal, or None
    audit,          \* the access_audit rows that proposals write
    landed,         \* history: the proposals whose endpoint write has committed
    request         \* requests in flight

vars == <<rule, endpoint, proposal, audit, landed, request>>

NoChange == [webhook |-> None, kind |-> None, url |-> None, active |-> None]
Idle == [pc |-> "idle", by |-> None, of |-> None, change |-> NoChange]

Init ==
    /\ rule \in BOOLEAN
    /\ endpoint = [w \in Webhooks |-> None]
    /\ proposal = [p \in Proposals |-> None]
    /\ audit = {}
    /\ landed = {}
    /\ request = [q \in Requests |-> Idle]

Step(q, r) == request' = [request EXCEPT ![q] = r]
Done(q) == Step(q, Idle)

\* The workspace's switch, turned by its owner.
SetRule ==
    /\ rule' = ~rule
    /\ UNCHANGED <<endpoint, proposal, audit, landed, request>>

-----------------------------------------------------------------------------
(* The configure routes: create, update, deactivate.                       *)

Rows == {p \in Proposals : proposal[p] # None}

\* newWebhookId.
Fresh(w) == /\ endpoint[w] = None
            /\ \A p \in Rows : proposal[p].change.webhook # w
            /\ \A q \in Requests : request[q].change.webhook # w

\* The changes a request may ask for.  A create names everything, a deactivation
\* nothing; an endpoint that is to be updated exists.  (An update that names
\* nothing changes nothing.)
Asked(q) ==
    {c \in [webhook : Webhooks, kind : {"create", "update", "deactivate"},
             url : {q, None}, active : BOOLEAN \cup {None}] :
        CASE c.kind = "create" -> Fresh(c.webhook) /\ c.url = q /\ c.active # None
          [] c.kind = "update" -> endpoint[c.webhook] # None /\ (c.url # None \/ c.active # None)
          [] c.kind = "deactivate" -> endpoint[c.webhook] # None /\ c.url = None /\ c.active = None}

\* The rule is read once, and decides what the request will do.
Configure(q) ==
    /\ request[q].pc = "idle"
    /\ \E c \in Asked(q) :
         \/ rule /\ \E by \in Accounts :
               Step(q, [Idle EXCEPT !.pc = "proposing", !.by = by, !.change = c])
         \/ ~rule /\ Step(q, [Idle EXCEPT !.pc = "writing", !.change = c])
    /\ UNCHANGED <<rule, endpoint, proposal, audit, landed>>

Open(p) == proposal[p] # None /\ ~proposal[p].applied /\ ~proposal[p].withdrawn

\* Fault: only a change nobody has confirmed claims its endpoint.
ClaimedByPending(w) ==
    \E p \in Proposals : /\ Open(p) /\ proposal[p].change.webhook = w
                         /\ proposal[p].confirmedBy = None

\* hasPendingEndpointProposal, made exact by the one_open index.
Claimed(w) == \E p \in Proposals : Open(p) /\ proposal[p].change.webhook = w

\* proposeEndpointChange: the row and its audit row in one transaction.
Propose(q, p) ==
    /\ request[q].pc = "proposing"
    /\ proposal[p] = None
    /\ ~Claimed(request[q].change.webhook)
    /\ proposal' = [proposal EXCEPT ![p] =
         [change |-> [request[q].change EXCEPT !.url = IF @ = None THEN None ELSE p],
          by |-> request[q].by, confirmedBy |-> None, applied |-> FALSE, withdrawn |-> FALSE]]
    /\ audit' = audit \cup {<<"propose", p, request[q].by>>}
    /\ Done(q)
    /\ UNCHANGED <<rule, endpoint, landed>>

\* Only the fields a change names are written.
endpointPatch(row, c) ==
    [url |-> IF c.url = None THEN row.url ELSE c.url,
     active |-> IF c.active = None THEN row.active ELSE c.active]

\* What a change makes of an endpoint's row; a create that finds the row is the
\* update it would have been.
Written(row, c) ==
    CASE row = None /\ c.kind = "create" -> [url |-> c.url, active |-> c.active]
      [] row = None /\ c.kind # "create" -> None
      [] row # None /\ c.kind = "deactivate" -> [row EXCEPT !.active = FALSE]
      [] OTHER -> endpointPatch(row, c)

Write(c) == endpoint' = [endpoint EXCEPT ![c.webhook] = Written(@, c)]

\* A change made where the rule did not apply.
DirectWrite(q) ==
    /\ request[q].pc = "writing"
    /\ Write(request[q].change)
    /\ Done(q)
    /\ UNCHANGED <<rule, proposal, audit, landed>>

-----------------------------------------------------------------------------
(* Confirming, resuming and withdrawing.                                   *)

\* Fault: the proposer may confirm.
SecondAccountAny(p, by) == TRUE

SecondAccount(p, by) == proposal[p].by # by

\* confirmEndpointChange: the claim is a compare-and-set, with its audit row; the
\* request goes on with the row it claimed, whose change no write alters.
Confirm(q, p) ==
    /\ request[q].pc = "idle"
    /\ proposal[p] # None
    /\ proposal[p].confirmedBy = None
    /\ ~proposal[p].withdrawn
    /\ \E by \in Accounts :
         /\ SecondAccount(p, by)
         /\ proposal' = [proposal EXCEPT ![p].confirmedBy = by]
         /\ audit' = audit \cup {<<"confirm", p, by>>}
         /\ Step(q, [Idle EXCEPT !.pc = "claimed", !.of = p])
    /\ UNCHANGED <<rule, endpoint, landed>>

\* Fault: a proposal nobody has confirmed is resumed.
ResumableAny(p) == Open(p)

Resumable(p) == Open(p) /\ proposal[p].confirmedBy # None

\* resumeEndpointProposal: any account but the proposer finishes an apply that
\* did not land; the row it goes on with is the one it read.
Resume(q, p) ==
    /\ request[q].pc = "idle"
    /\ Resumable(p)
    /\ \E by \in Accounts : SecondAccount(p, by)
    /\ Step(q, [Idle EXCEPT !.pc = "claimed", !.of = p])
    /\ UNCHANGED <<rule, endpoint, proposal, audit, landed>>

\* applyToEndpoint, on the environment's own database.
ApplyToEndpoint(q) ==
    /\ request[q].pc = "claimed"
    /\ Write(proposal[request[q].of].change)
    /\ landed' = landed \cup {request[q].of}
    /\ Step(q, [request[q] EXCEPT !.pc = "written"])
    /\ UNCHANGED <<rule, proposal, audit>>

\* Fault: a withdrawn proposal is stamped all the same.
MarkAppliedAnyway(q) ==
    /\ request[q].pc = "written"
    /\ proposal' = [proposal EXCEPT ![request[q].of].applied = TRUE]
    /\ Done(q)
    /\ UNCHANGED <<rule, endpoint, audit, landed>>

\* markEndpointProposalApplied: a proposal stamped meanwhile stays as it is, and
\* one withdrawn meanwhile refuses the stamp (one_outcome).
MarkApplied(q) ==
    /\ request[q].pc = "written"
    /\ proposal' = IF Open(request[q].of) THEN [proposal EXCEPT ![request[q].of].applied = TRUE]
                   ELSE proposal
    /\ Done(q)
    /\ UNCHANGED <<rule, endpoint, audit, landed>>

\* withdrawEndpointChange: also of a confirmed change, by either account.
Withdraw(p) ==
    /\ Open(p)
    /\ proposal' = [proposal EXCEPT ![p].withdrawn = TRUE]
    /\ audit' = audit \cup {<<"withdraw", p>>}
    /\ UNCHANGED <<rule, endpoint, landed, request>>

Next ==
    \/ SetRule
    \/ \E p \in Proposals : Withdraw(p)
    \/ \E q \in Requests :
         \/ Configure(q) \/ DirectWrite(q) \/ ApplyToEndpoint(q) \/ MarkApplied(q)
         \/ \E p \in Proposals : Propose(q, p) \/ Confirm(q, p) \/ Resume(q, p)

Spec == Init /\ [][Next]_vars

-----------------------------------------------------------------------------
\* The shape of the state; a proposal has at most one outcome, and is applied only
\* once it is confirmed.
TypeOK ==
    /\ rule \in BOOLEAN
    /\ endpoint \in [Webhooks -> Endpoint \cup {None}]
    /\ landed \subseteq Rows
    /\ \A p \in Rows : /\ proposal[p] \in ProposalRow
                       /\ proposal[p].applied => /\ ~proposal[p].withdrawn
                                                 /\ proposal[p].confirmedBy # None
    /\ \A q \in Requests : request[q].pc \in {"idle", "proposing", "writing", "claimed", "written"}

\* The two-person rule: an endpoint changes only by a request that found the rule
\* off, or to exactly what one proposal names, and only the fields it names, after
\* an account other than its proposer confirmed it; whatever crashed, was resumed
\* or withdrawn in between.
OnlyAgreedChangesLand ==
    [][\A w \in Webhooks : endpoint'[w] # endpoint[w] =>
           \/ \E q \in Requests : request[q].pc = "writing" /\ request'[q].pc = "idle"
           \/ \E p \in Rows :
                LET c == proposal[p].change
                IN /\ c.webhook = w
                   /\ proposal[p].confirmedBy \notin {None, proposal[p].by}
                   /\ endpoint[w] # None =>
                        /\ c.url = None => endpoint'[w].url = endpoint[w].url
                        /\ c.active = None /\ c.kind # "deactivate" =>
                               endpoint'[w].active = endpoint[w].active
                   /\ c.url # None => endpoint'[w].url = p
                   /\ c.active # None => endpoint'[w].active = c.active
                   /\ c.kind = "deactivate" => ~endpoint'[w].active]_vars

\* The audit answers who agreed to what reached production: one proposer, one
\* other confirmer, however often the apply was resumed.
AuditNamesBoth ==
    \A p \in Proposals :
        LET rows(act) == {r \in audit : r[1] = act /\ r[2] = p}
        IN p \in landed => \E by, other \in Accounts :
               /\ rows("propose") = {<<"propose", p, by>>}
               /\ rows("confirm") = {<<"confirm", p, other>>}
               /\ by # other

\* A proposal that says it is applied has reached its endpoint, and no second
\* change of an endpoint is open until the first is stamped or withdrawn.
AppliedMeansLanded ==
    /\ \A p \in Rows : proposal[p].applied => p \in landed
    /\ \A p, r \in Rows : Open(p) /\ Open(r) /\ proposal[p].change.webhook = proposal[r].change.webhook
                              => p = r
=============================================================================
