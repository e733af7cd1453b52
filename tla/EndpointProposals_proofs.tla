---------------------- MODULE EndpointProposals_proofs ----------------------
(***************************************************************************)
(* The two-person rule over endpoint changes, for any number of requests,  *)
(* proposals, webhooks and accounts.  A request that goes on with a claimed*)
(* proposal holds one that two accounts agreed to, and neither a withdrawal*)
(* nor a stamp takes that back: this is why an apply may be resumed by     *)
(* anybody, at any time, without asking again.                             *)
(***************************************************************************)
EXTENDS EndpointProposals, TLAPS

-----------------------------------------------------------------------------
(* The inductive invariant.                                                *)

\* A change that was asked for: a create names everything, a deactivation nothing.
WellAsked(c) ==
    /\ c \in Change
    /\ c.kind = "create" => c.url # None /\ c.active # None
    /\ c.kind = "deactivate" => c.url = None /\ c.active = None

\* A proposal's row: its URL is its own, and whoever confirmed it did not make it.
RowOK(p) ==
    /\ proposal[p] \in ProposalRow
    /\ WellAsked(proposal[p].change)
    /\ proposal[p].change.url \in {p, None}
    /\ proposal[p].confirmedBy # proposal[p].by
    /\ proposal[p].applied =>
         ~proposal[p].withdrawn /\ proposal[p].confirmedBy # None /\ p \in landed

Proposed == proposal \in [Proposals -> ProposalRow \cup {None}] /\ \A p \in Rows : RowOK(p)

RequestRec == [pc : {"idle", "proposing", "writing", "claimed", "written"},
               by : Accounts \cup {None}, of : Proposals \cup {None},
               change : Change \cup {NoChange}]

\* What a request in flight holds.
RequestOK(q, r) ==
    /\ r \in RequestRec
    /\ r.pc = "proposing" => r.by \in Accounts
    /\ r.pc \in {"proposing", "writing"} => WellAsked(r.change) /\ r.change.url \in {q, None}
    /\ r.pc \in {"claimed", "written"} => r.of \in Rows /\ proposal[r.of].confirmedBy # None
    /\ r.pc = "written" => r.of \in landed

InFlight == request \in [Requests -> RequestRec] /\ \A q \in Requests : RequestOK(q, request[q])

Landed == landed \subseteq {p \in Rows : proposal[p].confirmedBy # None}

\* The audit says of every proposal who made it and who confirmed it, and no more.
Audited == \A r \in audit : \E p \in Rows :
    \/ r = <<"propose", p, proposal[p].by>>
    \/ proposal[p].confirmedBy # None /\ r = <<"confirm", p, proposal[p].confirmedBy>>
    \/ r = <<"withdraw", p>>

AuditComplete == \A p \in Rows :
    /\ <<"propose", p, proposal[p].by>> \in audit
    /\ proposal[p].confirmedBy # None => <<"confirm", p, proposal[p].confirmedBy>> \in audit

OneOpen == \A p, r \in Rows :
    Open(p) /\ Open(r) /\ proposal[p].change.webhook = proposal[r].change.webhook => p = r

Endpoints == endpoint \in [Webhooks -> Endpoint \cup {None}]

ProposalInv ==
    /\ rule \in BOOLEAN
    /\ Endpoints /\ Proposed /\ InFlight /\ Landed
    /\ Audited /\ AuditComplete /\ OneOpen

-----------------------------------------------------------------------------
(* What one write makes of an endpoint.                                    *)

\* A write makes a well-formed row, and of an endpoint that is there only what
\* the change names.
LEMMA WrittenRow ==
    ASSUME NEW row \in Endpoint \cup {None}, NEW c, WellAsked(c)
    PROVE  /\ Written(row, c) \in Endpoint \cup {None}
           /\ Written(row, c) # row =>
                /\ row # None => /\ c.url = None => Written(row, c).url = row.url
                                 /\ c.active = None /\ c.kind # "deactivate" =>
                                        Written(row, c).active = row.active
                /\ c.url # None => Written(row, c).url = c.url
                /\ c.active # None => Written(row, c).active = c.active
                /\ c.kind = "deactivate" => ~Written(row, c).active
<1>1. c \in Change /\ c.kind \in {"create", "update", "deactivate"}
  BY DEF WellAsked, Change
<1>2. c.url \in Proposals \cup Requests \cup {None} /\ c.active \in BOOLEAN \cup {None}
  BY <1>1 DEF Change
<1>3. CASE row = None /\ c.kind = "create"
  <2>1. Written(row, c) = [url |-> c.url, active |-> c.active]
    BY <1>3 DEF Written
  <2>2. c.url \in Proposals \cup Requests /\ c.active \in BOOLEAN
    BY <1>2, <1>3 DEF WellAsked
  <2>3. Written(row, c) \in Endpoint
    BY <2>1, <2>2 DEF Endpoint
  <2>4. QED
    BY <1>3, <2>1, <2>3
<1>4. CASE row = None /\ c.kind # "create"
  BY <1>4 DEF Written
<1>5. CASE row # None /\ c.kind = "deactivate"
  <2>1. row \in Endpoint /\ Written(row, c) = [row EXCEPT !.active = FALSE]
    BY <1>5 DEF Written
  <2>2. Written(row, c) \in Endpoint /\ Written(row, c).url = row.url /\ Written(row, c).active = FALSE
    BY <2>1 DEF Endpoint
  <2>3. c.url = None /\ c.active = None
    BY <1>5 DEF WellAsked
  <2>4. QED
    BY <1>5, <2>2, <2>3
<1>6. CASE row # None /\ c.kind # "deactivate"
  <2>1. row \in Endpoint /\ Written(row, c) = endpointPatch(row, c)
    BY <1>6 DEF Written
  <2> DEFINE u == IF c.url = None THEN row.url ELSE c.url
             a == IF c.active = None THEN row.active ELSE c.active
  <2>2. Written(row, c) = [url |-> u, active |-> a]
    BY <2>1 DEF endpointPatch
  <2>3. u \in Proposals \cup Requests /\ a \in BOOLEAN
    BY <1>2, <2>1 DEF Endpoint
  <2>4. Written(row, c) \in Endpoint
    BY <2>2, <2>3 DEF Endpoint
  <2>5. Written(row, c).url = u /\ Written(row, c).active = a
    BY <2>2
  <2>6. QED
    BY <1>6, <2>4, <2>5
<1>7. QED
  BY <1>1, <1>3, <1>4, <1>5, <1>6

-----------------------------------------------------------------------------
(* The steps.                                                              *)

\* The initial state satisfies the invariant.
LEMMA ProposalInvInit == Init => ProposalInv
<1> SUFFICES ASSUME Init PROVE ProposalInv
  OBVIOUS
<1>1. Rows = {}
  BY DEF Init, Rows
<1>2. Idle \in RequestRec
  BY DEF Idle, RequestRec
<1>3. InFlight
  BY <1>2 DEF Init, InFlight, RequestOK, Idle
<1>4. QED
  BY <1>1, <1>3 DEF Init, ProposalInv, Endpoints, Proposed, Landed, Audited, AuditComplete, OneOpen

\* A step that only moves one request on keeps the invariant when what the
\* request then holds is right.
LEMMA MoveOn ==
    ASSUME ProposalInv, NEW q \in Requests, NEW r, RequestOK(q, r), Step(q, r),
           rule' \in BOOLEAN, UNCHANGED <<endpoint, proposal, audit, landed>>
    PROVE  ProposalInv'
<1>1. Rows' = Rows
  BY DEF Rows
<1>2. \A o \in Requests : \A h : RequestOK(o, h) => RequestOK(o, h)'
  BY <1>1 DEF RequestOK
<1>3. request' \in [Requests -> RequestRec]
  BY DEF Step, ProposalInv, InFlight, RequestOK
<1>4. \A o \in Requests : RequestOK(o, request'[o])
  BY DEF Step, ProposalInv, InFlight
<1>5. InFlight'
  BY <1>2, <1>3, <1>4 DEF InFlight
<1>6. (Endpoints /\ Proposed /\ Landed /\ Audited /\ AuditComplete /\ OneOpen)'
  BY <1>1 DEF ProposalInv, Endpoints, Proposed, RowOK, Landed, Audited, AuditComplete,
              OneOpen, Open
<1>7. QED
  BY <1>5, <1>6 DEF ProposalInv

\* A request that has nothing in flight holds nothing.
LEMMA IdleOK == \A q \in Requests : RequestOK(q, Idle)
<1>1. Idle \in RequestRec
  BY DEF Idle, RequestRec
<1>2. QED
  BY <1>1 DEF RequestOK, Idle

\* The configure routes take a well-formed change on.
LEMMA ConfigureStep ==
    ASSUME ProposalInv, NEW q \in Requests, Configure(q)
    PROVE  ProposalInv'
<1>1. PICK c \in Asked(q) :
        \/ \E by \in Accounts :
              Step(q, [Idle EXCEPT !.pc = "proposing", !.by = by, !.change = c])
        \/ Step(q, [Idle EXCEPT !.pc = "writing", !.change = c])
  BY DEF Configure
<1>2. WellAsked(c) /\ c.url \in {q, None}
  <2>1. c \in [webhook : Webhooks, kind : {"create", "update", "deactivate"},
                url : {q, None}, active : BOOLEAN \cup {None}]
    BY DEF Asked
  <2>2. c \in Change /\ c.url \in {q, None}
    BY <2>1 DEF Change
  <2>3. CASE c.kind = "create"
    <3>1. c.url = q /\ c.active # None
      BY <2>3 DEF Asked
    <3>2. q # None
      BY NamesAssumption
    <3>3. QED
      BY <2>2, <2>3, <3>1, <3>2 DEF WellAsked
  <2>4. CASE c.kind = "deactivate"
    <3>1. c.url = None /\ c.active = None
      BY <2>4 DEF Asked
    <3>2. QED
      BY <2>2, <2>4, <3>1 DEF WellAsked
  <2>5. CASE c.kind \notin {"create", "deactivate"}
    BY <2>2, <2>5 DEF WellAsked
  <2>6. QED
    BY <2>2, <2>3, <2>4, <2>5
<1>3. rule' \in BOOLEAN /\ UNCHANGED <<endpoint, proposal, audit, landed>>
  BY DEF Configure, ProposalInv
<1>4. CASE \E by \in Accounts :
             Step(q, [Idle EXCEPT !.pc = "proposing", !.by = by, !.change = c])
  <2>1. PICK by \in Accounts :
          Step(q, [Idle EXCEPT !.pc = "proposing", !.by = by, !.change = c])
    BY <1>4
  <2> DEFINE r == [Idle EXCEPT !.pc = "proposing", !.by = by, !.change = c]
  <2>2. r \in RequestRec /\ r.pc = "proposing" /\ r.by = by /\ r.change = c
    BY <1>2 DEF RequestRec, Idle, WellAsked
  <2>3. RequestOK(q, r)
    BY <1>2, <2>2 DEF RequestOK
  <2>4. QED
    BY <1>3, <2>1, <2>3, MoveOn
<1>5. CASE Step(q, [Idle EXCEPT !.pc = "writing", !.change = c])
  <2> DEFINE r == [Idle EXCEPT !.pc = "writing", !.change = c]
  <2>2. r \in RequestRec /\ r.pc = "writing" /\ r.change = c
    BY <1>2 DEF RequestRec, Idle, WellAsked
  <2>3. RequestOK(q, r)
    BY <1>2, <2>2 DEF RequestOK
  <2>4. QED
    BY <1>3, <1>5, <2>3, MoveOn
<1>6. QED
  BY <1>1, <1>4, <1>5

\* A direct change writes a well-formed row.
LEMMA DirectWriteStep ==
    ASSUME ProposalInv, NEW q \in Requests, DirectWrite(q)
    PROVE  ProposalInv'
<1> DEFINE c == request[q].change
<1>1. WellAsked(c)
  BY DEF ProposalInv, InFlight, RequestOK, DirectWrite
<1>2. Endpoints'
  BY <1>1, WrittenRow DEF DirectWrite, Write, ProposalInv, Endpoints
<1>3. Rows' = Rows /\ UNCHANGED <<rule, proposal, audit, landed>>
  BY DEF DirectWrite, Rows
<1>4. (Proposed /\ Landed /\ Audited /\ AuditComplete /\ OneOpen)'
  BY <1>3 DEF ProposalInv, Proposed, RowOK, Landed, Audited, AuditComplete, OneOpen, Open
<1>5. request' = [request EXCEPT ![q] = Idle]
  BY DEF DirectWrite, Done, Step
<1>6. \A o \in Requests : request'[o] \in {request[o], Idle}
  BY <1>5 DEF ProposalInv, InFlight
<1>7. \A o \in Requests : RequestOK(o, request'[o])
  BY <1>6, IdleOK DEF ProposalInv, InFlight
<1>8. InFlight'
  BY <1>3, <1>5, <1>7 DEF ProposalInv, InFlight, RequestOK
<1>9. QED
  BY <1>2, <1>3, <1>4, <1>8 DEF ProposalInv

\* Writing a confirmed change lands its proposal.
LEMMA ApplyStep ==
    ASSUME ProposalInv, NEW q \in Requests, ApplyToEndpoint(q)
    PROVE  ProposalInv'
<1> DEFINE p == request[q].of
           c == proposal[p].change
           r == [request[q] EXCEPT !.pc = "written"]
<1>1. p \in Rows /\ proposal[p].confirmedBy # None /\ request[q] \in RequestRec
  BY DEF ProposalInv, InFlight, RequestOK, ApplyToEndpoint
<1>2. WellAsked(c)
  BY <1>1 DEF ProposalInv, Proposed, RowOK
<1>3. Endpoints'
  BY <1>2, WrittenRow DEF ApplyToEndpoint, Write, ProposalInv, Endpoints
<1>4. /\ Rows' = Rows /\ UNCHANGED <<rule, proposal, audit>>
      /\ landed' = landed \cup {p} /\ request' = [request EXCEPT ![q] = r]
  BY DEF ApplyToEndpoint, Rows, Step
<1>5. (Proposed /\ Landed /\ Audited /\ AuditComplete /\ OneOpen)'
  BY <1>1, <1>4 DEF ProposalInv, Proposed, RowOK, Landed, Audited, AuditComplete, OneOpen, Open
<1>6. r \in RequestRec /\ r.pc = "written" /\ r.of = p
  BY <1>1 DEF RequestRec
<1>7. RequestOK(q, r)'
  BY <1>1, <1>4, <1>6 DEF RequestOK
<1>8. \A o \in Requests \ {q} : request'[o] = request[o] /\ RequestOK(o, request[o])'
  BY <1>4 DEF ProposalInv, InFlight, RequestOK
<1>9. InFlight'
  BY <1>4, <1>6, <1>7, <1>8 DEF ProposalInv, InFlight
<1>10. QED
  BY <1>3, <1>4, <1>5, <1>9 DEF ProposalInv

\* What requests hold stays right so long as no row goes and no confirmation does.
LEMMA HeldAfter ==
    ASSUME ProposalInv, UNCHANGED landed, Rows \subseteq Rows',
           \A p \in Rows : proposal[p].confirmedBy # None => proposal'[p].confirmedBy # None
    PROVE  \A o \in Requests : \A h : RequestOK(o, h) => RequestOK(o, h)'
  BY DEF RequestOK

\* A proposal adds the one open row of its endpoint, and says who made it.
LEMMA ProposeStep ==
    ASSUME ProposalInv, NEW q \in Requests, NEW p \in Proposals, Propose(q, p)
    PROVE  ProposalInv'
<1> DEFINE c == [request[q].change EXCEPT !.url = IF @ = None THEN None ELSE p]
           row == [change |-> c, by |-> request[q].by, confirmedBy |-> None,
                   applied |-> FALSE, withdrawn |-> FALSE]
<1>1. /\ WellAsked(request[q].change) /\ request[q].by \in Accounts
  BY DEF ProposalInv, InFlight, RequestOK, Propose
<1>2. WellAsked(c) /\ c.url \in {p, None} /\ c.webhook = request[q].change.webhook
  <2>1. request[q].change \in Change
    BY <1>1 DEF WellAsked
  <2>2. p # None
    BY NamesAssumption
  <2>3. /\ c \in Change /\ c.url \in {p, None} /\ c.webhook = request[q].change.webhook
        /\ c.kind = request[q].change.kind /\ c.active = request[q].change.active
        /\ c.url = None <=> request[q].change.url = None
    BY <2>1, <2>2 DEF Change
  <2>4. QED
    BY <1>1, <2>3 DEF WellAsked
<1>3. row \in ProposalRow /\ row # None
  <2>1. row \in ProposalRow
    BY <1>1, <1>2 DEF ProposalRow, WellAsked
  <2>2. QED
    BY <2>1, NamesAssumption
<1>4. /\ p \notin Rows /\ proposal' = [proposal EXCEPT ![p] = row]
      /\ audit' = audit \cup {<<"propose", p, request[q].by>>}
      /\ UNCHANGED <<rule, endpoint, landed>>
      /\ request' = [request EXCEPT ![q] = Idle]
      /\ ~Claimed(request[q].change.webhook)
  BY DEF Propose, Rows, Done, Step
<1>5. /\ proposal'[p] = row
      /\ \A o \in Proposals \ {p} : proposal'[o] = proposal[o]
      /\ Rows' = Rows \cup {p}
  BY <1>3, <1>4 DEF ProposalInv, Proposed, Rows
<1>6. Proposed'
  <2>1. RowOK(p)'
    <3>1. request[q].by # None
      BY <1>1, NamesAssumption
    <3>2. row.by = request[q].by /\ row.confirmedBy = None /\ row.applied = FALSE /\ row.change = c
      OBVIOUS
    <3>3. QED
      BY <1>2, <1>3, <1>5, <3>1, <3>2 DEF RowOK
  <2>2. \A o \in Rows : RowOK(o)'
    BY <1>4, <1>5 DEF ProposalInv, Proposed, RowOK, Rows
  <2>3. proposal' \in [Proposals -> ProposalRow \cup {None}]
    BY <1>3, <1>4 DEF ProposalInv, Proposed
  <2>4. QED
    BY <1>5, <2>1, <2>2, <2>3 DEF Proposed
<1>7. Landed'
  BY <1>4, <1>5 DEF ProposalInv, Landed
<1>8. Audited' /\ AuditComplete'
  <2>1. row.by = request[q].by /\ row.confirmedBy = None
    OBVIOUS
  <2>2. \A o \in Rows : proposal'[o] = proposal[o]
    BY <1>4, <1>5 DEF Rows
  <2>3. QED
    BY <1>4, <1>5, <2>1, <2>2 DEF ProposalInv, Audited, AuditComplete
<1>9. OneOpen'
  <2>1. row.change.webhook = request[q].change.webhook
    BY <1>2
  <2>2. \A o \in Rows : /\ proposal'[o] = proposal[o] /\ o \in Proposals
                        /\ Open(o)' <=> Open(o)
                        /\ Open(o) => proposal[o].change.webhook # row.change.webhook
    BY <1>4, <1>5, <2>1 DEF Rows, Open, Claimed
  <2>3. QED
    BY <1>5, <2>2 DEF ProposalInv, OneOpen
<1>10. InFlight'
  <2>1. \A o \in Rows : proposal'[o] = proposal[o]
    BY <1>4, <1>5 DEF Rows
  <2>2. \A o \in Requests : \A h : RequestOK(o, h) => RequestOK(o, h)'
    BY <1>4, <1>5, <2>1, HeldAfter
  <2>3. \A o \in Requests : RequestOK(o, request'[o])
    BY <1>4, IdleOK DEF ProposalInv, InFlight
  <2>4. request' \in [Requests -> RequestRec]
    BY <1>4, IdleOK DEF ProposalInv, InFlight, RequestOK
  <2>5. QED
    BY <2>2, <2>3, <2>4 DEF InFlight
<1>11. QED
  BY <1>4, <1>6, <1>7, <1>8, <1>9, <1>10 DEF ProposalInv, Endpoints

\* A change of row p that keeps what it proposes and who made it, and takes no
\* confirmation back, keeps what the requests hold; q may go on with its own.
LEMMA RowStep ==
    ASSUME ProposalInv, NEW p \in Rows, NEW row \in ProposalRow,
           row.change = proposal[p].change, row.by = proposal[p].by,
           row.confirmedBy # row.by,
           proposal[p].confirmedBy # None => row.confirmedBy = proposal[p].confirmedBy,
           row.applied => ~row.withdrawn /\ row.confirmedBy # None /\ p \in landed,
           ~row.applied /\ ~row.withdrawn => Open(p),
           proposal' = [proposal EXCEPT ![p] = row],
           UNCHANGED <<endpoint, landed>>
    PROVE  /\ Rows' = Rows /\ (Endpoints /\ Proposed /\ Landed /\ OneOpen)'
           /\ proposal'[p] = row /\ \A o \in Proposals \ {p} : proposal'[o] = proposal[o]
           /\ \A o \in Requests : \A h : RequestOK(o, h) => RequestOK(o, h)'
<1>1. row # None /\ p \in Proposals
  BY NamesAssumption DEF Rows
<1>2. /\ proposal'[p] = row
      /\ \A o \in Proposals \ {p} : proposal'[o] = proposal[o]
      /\ Rows' = Rows
  BY <1>1 DEF ProposalInv, Proposed, Rows
<1>3. Proposed'
  <2>1. RowOK(p)'
    BY <1>2 DEF ProposalInv, Proposed, RowOK
  <2>2. \A o \in Rows \ {p} : RowOK(o)'
    BY <1>2 DEF ProposalInv, Proposed, RowOK, Rows
  <2>3. proposal' \in [Proposals -> ProposalRow \cup {None}]
    BY DEF ProposalInv, Proposed
  <2>4. QED
    BY <1>2, <2>1, <2>2, <2>3 DEF Proposed
<1>4. \A o \in Rows : proposal[o].confirmedBy # None => proposal'[o].confirmedBy # None
  BY <1>2 DEF Rows
<1>5. Landed'
  BY <1>2, <1>4 DEF ProposalInv, Landed
<1>6. OneOpen'
  <2>1. \A o \in Rows : /\ Open(o)' => Open(o)
                        /\ proposal'[o].change = proposal[o].change
    BY <1>2 DEF Open, Rows
  <2>2. QED
    BY <1>2, <2>1 DEF ProposalInv, OneOpen
<1>7. QED
  BY <1>2, <1>3, <1>4, <1>5, <1>6, HeldAfter DEF ProposalInv, Endpoints

\* The audit stays right when nobody's part in a proposal is rewritten, what is
\* added is true, and every new confirmation is added.
LEMMA AuditAfter ==
    ASSUME ProposalInv, Rows' = Rows,
           \A p \in Rows : /\ proposal'[p].by = proposal[p].by
                           /\ proposal[p].confirmedBy # None =>
                                proposal'[p].confirmedBy = proposal[p].confirmedBy,
           audit \subseteq audit',
           \A r \in audit' \ audit : \E p \in Rows :
              \/ proposal'[p].confirmedBy # None /\ r = <<"confirm", p, proposal'[p].confirmedBy>>
              \/ r = <<"withdraw", p>>,
           \A p \in Rows : proposal[p].confirmedBy = None /\ proposal'[p].confirmedBy # None =>
              <<"confirm", p, proposal'[p].confirmedBy>> \in audit'
    PROVE  Audited' /\ AuditComplete'
<1>1. Audited'
  <2> SUFFICES ASSUME NEW r \in audit'
               PROVE  \E p \in Rows :
                         \/ r = <<"propose", p, proposal'[p].by>>
                         \/ /\ proposal'[p].confirmedBy # None
                            /\ r = <<"confirm", p, proposal'[p].confirmedBy>>
                         \/ r = <<"withdraw", p>>
    BY DEF Audited
  <2>1. CASE r \in audit
    <3>1. PICK p \in Rows :
            \/ r = <<"propose", p, proposal[p].by>>
            \/ proposal[p].confirmedBy # None /\ r = <<"confirm", p, proposal[p].confirmedBy>>
            \/ r = <<"withdraw", p>>
      BY <2>1 DEF ProposalInv, Audited
    <3>2. /\ proposal'[p].by = proposal[p].by
          /\ proposal[p].confirmedBy # None =>
               proposal'[p].confirmedBy = proposal[p].confirmedBy
      OBVIOUS
    <3>3. CASE r = <<"propose", p, proposal[p].by>>
      BY <3>2, <3>3
    <3>4. CASE proposal[p].confirmedBy # None /\ r = <<"confirm", p, proposal[p].confirmedBy>>
      BY <3>2, <3>4
    <3>5. QED
      BY <3>1, <3>3, <3>4
  <2>2. CASE r \notin audit
    BY <2>2
  <2>3. QED
    BY <2>1, <2>2
<1>2. AuditComplete'
  <2> SUFFICES ASSUME NEW p \in Rows
               PROVE  /\ <<"propose", p, proposal'[p].by>> \in audit'
                      /\ proposal'[p].confirmedBy # None =>
                           <<"confirm", p, proposal'[p].confirmedBy>> \in audit'
    BY DEF AuditComplete
  <2>1. <<"propose", p, proposal[p].by>> \in audit'
    BY DEF ProposalInv, AuditComplete
  <2>2. proposal[p].confirmedBy # None => <<"confirm", p, proposal[p].confirmedBy>> \in audit'
    BY DEF ProposalInv, AuditComplete
  <2>3. QED
    BY <2>1, <2>2
<1>3. QED
  BY <1>1, <1>2

\* A confirmation is a second account's, and the request that made it holds it.
LEMMA ConfirmStep ==
    ASSUME ProposalInv, NEW q \in Requests, NEW p \in Proposals, Confirm(q, p)
    PROVE  ProposalInv'
<1>1. PICK by \in Accounts :
        /\ proposal[p].by # by
        /\ proposal' = [proposal EXCEPT ![p].confirmedBy = by]
        /\ audit' = audit \cup {<<"confirm", p, by>>}
        /\ Step(q, [Idle EXCEPT !.pc = "claimed", !.of = p])
  BY DEF Confirm, SecondAccount
<1>2. /\ p \in Rows /\ proposal[p].confirmedBy = None /\ ~proposal[p].withdrawn
      /\ UNCHANGED <<rule, endpoint, landed>>
  BY DEF Confirm, Rows
<1>3. proposal[p] \in ProposalRow /\ RowOK(p)
  BY <1>2 DEF ProposalInv, Proposed, RowOK
<1> DEFINE row == [proposal[p] EXCEPT !.confirmedBy = by]
           r == [Idle EXCEPT !.pc = "claimed", !.of = p]
<1>4. /\ row \in ProposalRow /\ row.change = proposal[p].change /\ row.by = proposal[p].by
      /\ row.confirmedBy = by /\ row.applied = proposal[p].applied
      /\ row.withdrawn = proposal[p].withdrawn
  BY <1>3 DEF ProposalRow
<1>5. ~proposal[p].applied /\ Open(p)
  BY <1>2, <1>3 DEF RowOK, Open, Rows
<1>6. proposal' = [proposal EXCEPT ![p] = row]
  BY <1>1
<1>7. /\ Rows' = Rows /\ (Endpoints /\ Proposed /\ Landed /\ OneOpen)'
      /\ proposal'[p] = row /\ \A o \in Proposals \ {p} : proposal'[o] = proposal[o]
      /\ \A o \in Requests : \A h : RequestOK(o, h) => RequestOK(o, h)'
  BY <1>1, <1>2, <1>4, <1>5, <1>6, RowStep
<1>8. by # None
  BY NamesAssumption
<1>9. Audited' /\ AuditComplete'
  <2>1. \A o \in Rows : /\ proposal'[o].by = proposal[o].by
                        /\ o # p => proposal'[o].confirmedBy = proposal[o].confirmedBy
    BY <1>4, <1>7 DEF Rows
  <2>2. proposal'[p].confirmedBy = by
    BY <1>4, <1>7
  <2>3. QED
    BY <1>1, <1>2, <1>7, <1>8, <2>1, <2>2, AuditAfter
<1>10. InFlight'
  <2>1. r \in RequestRec /\ r.pc = "claimed" /\ r.of = p
    BY DEF RequestRec, Idle
  <2>2. RequestOK(q, r)'
    <3>1. p \in Rows' /\ proposal'[p].confirmedBy = by
      BY <1>2, <1>4, <1>7
    <3>2. QED
      BY <1>8, <2>1, <3>1 DEF RequestOK
  <2>3. request' = [request EXCEPT ![q] = r]
    BY <1>1 DEF Step
  <2>4. \A o \in Requests \ {q} : request'[o] = request[o] /\ RequestOK(o, request[o])'
    BY <1>7, <2>3 DEF ProposalInv, InFlight
  <2>5. QED
    BY <2>1, <2>2, <2>3, <2>4 DEF ProposalInv, InFlight
<1>11. QED
  BY <1>2, <1>7, <1>9, <1>10 DEF ProposalInv

\* Resuming is going on with a confirmed change.
LEMMA ResumeStep ==
    ASSUME ProposalInv, NEW q \in Requests, NEW p \in Proposals, Resume(q, p)
    PROVE  ProposalInv'
<1> DEFINE r == [Idle EXCEPT !.pc = "claimed", !.of = p]
<1>1. r \in RequestRec /\ r.pc = "claimed" /\ r.of = p
  BY DEF RequestRec, Idle
<1>2. RequestOK(q, r)
  BY <1>1 DEF Resume, Resumable, Open, RequestOK, Rows
<1>3. QED
  BY <1>2, MoveOn DEF Resume, ProposalInv

\* The stamp goes to a change that has landed and is still open.
LEMMA MarkStep ==
    ASSUME ProposalInv, NEW q \in Requests, MarkApplied(q)
    PROVE  ProposalInv'
<1> DEFINE p == request[q].of
           row == [proposal[p] EXCEPT !.applied = TRUE]
<1>1. /\ p \in Rows /\ proposal[p].confirmedBy # None /\ p \in landed
      /\ UNCHANGED <<rule, endpoint, audit, landed>>
      /\ request' = [request EXCEPT ![q] = Idle]
  BY DEF MarkApplied, ProposalInv, InFlight, RequestOK, Done, Step
<1>2. CASE ~Open(p)
  <2>1. proposal' = proposal
    BY <1>2 DEF MarkApplied
  <2>2. QED
    BY <1>1, <2>1, IdleOK, MoveOn DEF ProposalInv, Step
<1>3. CASE Open(p)
  <2>1. proposal[p] \in ProposalRow /\ RowOK(p) /\ ~proposal[p].withdrawn
    BY <1>1, <1>3 DEF ProposalInv, Proposed, RowOK, Open
  <2>2. /\ row \in ProposalRow /\ row.change = proposal[p].change /\ row.by = proposal[p].by
        /\ row.confirmedBy = proposal[p].confirmedBy /\ row.applied = TRUE
        /\ row.withdrawn = proposal[p].withdrawn
    BY <2>1 DEF ProposalRow
  <2>3. proposal' = [proposal EXCEPT ![p] = row]
    BY <1>3 DEF MarkApplied
  <2>4. /\ Rows' = Rows /\ (Endpoints /\ Proposed /\ Landed /\ OneOpen)'
        /\ proposal'[p] = row /\ \A o \in Proposals \ {p} : proposal'[o] = proposal[o]
        /\ \A o \in Requests : \A h : RequestOK(o, h) => RequestOK(o, h)'
    BY <1>1, <1>3, <2>1, <2>2, <2>3, RowStep DEF RowOK
  <2>5. Audited' /\ AuditComplete'
    <3>1. \A o \in Rows : /\ proposal'[o].by = proposal[o].by
                          /\ proposal'[o].confirmedBy = proposal[o].confirmedBy
      BY <2>2, <2>4 DEF Rows
    <3>2. QED
      BY <1>1, <2>4, <3>1, AuditAfter
  <2>6. \A o \in Requests : RequestOK(o, request'[o])
    BY <1>1, IdleOK DEF ProposalInv, InFlight
  <2>7. InFlight'
    BY <1>1, <2>4, <2>6, IdleOK DEF ProposalInv, InFlight, RequestOK
  <2>8. QED
    BY <1>1, <2>4, <2>5, <2>7 DEF ProposalInv
<1>4. QED
  BY <1>2, <1>3

\* A withdrawal closes the proposal, and takes nothing from who holds it.
LEMMA WithdrawStep ==
    ASSUME ProposalInv, NEW p \in Proposals, Withdraw(p)
    PROVE  ProposalInv'
<1> DEFINE row == [proposal[p] EXCEPT !.withdrawn = TRUE]
<1>1. /\ p \in Rows /\ Open(p) /\ ~proposal[p].applied
      /\ audit' = audit \cup {<<"withdraw", p>>}
      /\ UNCHANGED <<rule, endpoint, landed, request>>
  BY DEF Withdraw, Open, Rows
<1>2. proposal[p] \in ProposalRow /\ RowOK(p)
  BY <1>1 DEF ProposalInv, Proposed, RowOK
<1>3. /\ row \in ProposalRow /\ row.change = proposal[p].change /\ row.by = proposal[p].by
      /\ row.confirmedBy = proposal[p].confirmedBy /\ row.withdrawn = TRUE
      /\ row.applied = proposal[p].applied
  BY <1>2 DEF ProposalRow
<1>4. proposal' = [proposal EXCEPT ![p] = row]
  BY DEF Withdraw
<1>5. /\ Rows' = Rows /\ (Endpoints /\ Proposed /\ Landed /\ OneOpen)'
      /\ proposal'[p] = row /\ \A o \in Proposals \ {p} : proposal'[o] = proposal[o]
      /\ \A o \in Requests : \A h : RequestOK(o, h) => RequestOK(o, h)'
  BY <1>1, <1>2, <1>3, <1>4, RowStep DEF RowOK
<1>6. Audited' /\ AuditComplete'
  <2>1. \A o \in Rows : /\ proposal'[o].by = proposal[o].by
                        /\ proposal'[o].confirmedBy = proposal[o].confirmedBy
    BY <1>3, <1>5 DEF Rows
  <2>2. QED
    BY <1>1, <1>5, <2>1, AuditAfter
<1>7. InFlight'
  BY <1>1, <1>5 DEF ProposalInv, InFlight
<1>8. QED
  BY <1>1, <1>5, <1>6, <1>7 DEF ProposalInv

\* Every step keeps the invariant.
LEMMA ProposalInvStep == ProposalInv /\ [Next]_vars => ProposalInv'
<1> SUFFICES ASSUME ProposalInv, [Next]_vars PROVE ProposalInv'
  OBVIOUS
<1>1. CASE SetRule \/ UNCHANGED vars
  <2>1. rule' \in BOOLEAN /\ UNCHANGED <<endpoint, proposal, audit, landed, request>>
    BY <1>1 DEF SetRule, vars, ProposalInv
  <2>2. QED
    BY <2>1 DEF ProposalInv, Endpoints, Proposed, RowOK, Rows, InFlight, RequestOK, Landed,
                Audited, AuditComplete, OneOpen, Open
<1>2. ASSUME NEW p \in Proposals, Withdraw(p) PROVE ProposalInv'
  BY <1>2, WithdrawStep
<1>3. ASSUME NEW q \in Requests,
             Configure(q) \/ DirectWrite(q) \/ ApplyToEndpoint(q) \/ MarkApplied(q)
      PROVE  ProposalInv'
  BY <1>3, ConfigureStep, DirectWriteStep, ApplyStep, MarkStep
<1>4. ASSUME NEW q \in Requests, NEW p \in Proposals,
             Propose(q, p) \/ Confirm(q, p) \/ Resume(q, p)
      PROVE  ProposalInv'
  BY <1>4, ProposeStep, ConfirmStep, ResumeStep
<1>5. QED
  BY <1>1, <1>2, <1>3, <1>4 DEF Next

\* The inductive invariant holds in every reachable state.
THEOREM ProposalInvariant == Spec => []ProposalInv
  BY ProposalInvInit, ProposalInvStep, PTL DEF Spec

\* Every reachable state is well typed: a proposal has at most one outcome, and
\* only a confirmed one is applied (the one_outcome index).
THEOREM ProposalTypeCorrect == Spec => []TypeOK
<1>1. ProposalInv => TypeOK
  <2> SUFFICES ASSUME ProposalInv PROVE TypeOK
    OBVIOUS
  <2>1. rule \in BOOLEAN /\ endpoint \in [Webhooks -> Endpoint \cup {None}]
    BY DEF ProposalInv, Endpoints
  <2>2. landed \subseteq Rows
    BY DEF ProposalInv, Landed
  <2>3. \A p \in Rows : /\ proposal[p] \in ProposalRow
                        /\ proposal[p].applied =>
                             ~proposal[p].withdrawn /\ proposal[p].confirmedBy # None
    BY DEF ProposalInv, Proposed, RowOK
  <2>4. \A q \in Requests : request[q].pc \in {"idle", "proposing", "writing", "claimed", "written"}
    BY DEF ProposalInv, InFlight, RequestRec
  <2>5. QED
    BY <2>1, <2>2, <2>3, <2>4 DEF TypeOK
<1>2. QED
  BY <1>1, ProposalInvariant, PTL

\* A proposal stamped applied has reached its endpoint, and no endpoint has two
\* open changes, whatever is resumed or withdrawn.
THEOREM StampedHasLanded == Spec => []AppliedMeansLanded
<1>1. ProposalInv => AppliedMeansLanded
  BY DEF ProposalInv, Proposed, RowOK, OneOpen, AppliedMeansLanded
<1>2. QED
  BY <1>1, ProposalInvariant, PTL

\* The audit names one proposer and one other confirmer of everything that landed.
THEOREM AuditNamesTwo == Spec => []AuditNamesBoth
<1>1. ProposalInv => AuditNamesBoth
  <2> SUFFICES ASSUME ProposalInv, NEW p \in Proposals, p \in landed
               PROVE  \E by, other \in Accounts :
                        /\ {r \in audit : r[1] = "propose" /\ r[2] = p} = {<<"propose", p, by>>}
                        /\ {r \in audit : r[1] = "confirm" /\ r[2] = p} = {<<"confirm", p, other>>}
                        /\ by # other
    BY DEF AuditNamesBoth
  <2> DEFINE by == proposal[p].by
             other == proposal[p].confirmedBy
  <2>1. p \in Rows /\ other # None
    BY DEF ProposalInv, Landed
  <2>2. by \in Accounts /\ other \in Accounts /\ by # other
    BY <2>1 DEF ProposalInv, Proposed, RowOK, ProposalRow
  <2>3. <<"propose", p, by>> \in audit /\ <<"confirm", p, other>> \in audit
    BY <2>1 DEF ProposalInv, AuditComplete
  <2>4. \A r \in audit : r[2] = p =>
          /\ r[1] = "propose" => r = <<"propose", p, by>>
          /\ r[1] = "confirm" => r = <<"confirm", p, other>>
    BY DEF ProposalInv, Audited
  <2>5. {r \in audit : r[1] = "propose" /\ r[2] = p} = {<<"propose", p, by>>}
    BY <2>3, <2>4
  <2>6. {r \in audit : r[1] = "confirm" /\ r[2] = p} = {<<"confirm", p, other>>}
    BY <2>3, <2>4
  <2>7. QED
    BY <2>2, <2>5, <2>6
<1>2. QED
  BY <1>1, ProposalInvariant, PTL

\* No step changes an endpoint but a direct change made while the rule was off,
\* or the write of exactly what a confirmed proposal names.
THEOREM NothingUnagreedLands == Spec => OnlyAgreedChangesLand
<1> DEFINE Agreed(w) ==
      \/ \E q \in Requests : request[q].pc = "writing" /\ request'[q].pc = "idle"
      \/ \E p \in Rows :
           LET c == proposal[p].change
           IN /\ c.webhook = w
              /\ proposal[p].confirmedBy \notin {None, proposal[p].by}
              /\ endpoint[w] # None =>
                   /\ c.url = None => endpoint'[w].url = endpoint[w].url
                   /\ c.active = None /\ c.kind # "deactivate" =>
                          endpoint'[w].active = endpoint[w].active
              /\ c.url # None => endpoint'[w].url = p
              /\ c.active # None => endpoint'[w].active = c.active
              /\ c.kind = "deactivate" => ~endpoint'[w].active
<1>1. ASSUME ProposalInv, [Next]_vars, NEW w \in Webhooks, endpoint'[w] # endpoint[w]
      PROVE  Agreed(w)
  <2>1. PICK q \in Requests : DirectWrite(q) \/ ApplyToEndpoint(q)
    <3>1. endpoint' # endpoint
      BY <1>1
    <3>2. QED
      BY <1>1, <3>1 DEF Next, vars, SetRule, Withdraw, Configure, MarkApplied, Propose, Confirm,
                        Resume
  <2>2. CASE DirectWrite(q)
    BY <1>1, <2>2 DEF DirectWrite, Done, Step, Idle, ProposalInv, InFlight
  <2>3. CASE ApplyToEndpoint(q)
    <3> DEFINE p == request[q].of
               c == proposal[p].change
    <3>1. p \in Rows /\ proposal[p].confirmedBy # None
      BY <1>1, <2>3 DEF ApplyToEndpoint, ProposalInv, InFlight, RequestOK
    <3>2. /\ WellAsked(c) /\ c.url \in {p, None}
          /\ proposal[p].confirmedBy # proposal[p].by
      BY <1>1, <3>1 DEF ProposalInv, Proposed, RowOK
    <3>3. endpoint \in [Webhooks -> Endpoint \cup {None}]
      BY <1>1 DEF ProposalInv, Endpoints
    <3>4. /\ c.webhook = w
          /\ endpoint'[w] = Written(endpoint[w], c)
      BY <1>1, <2>3, <3>3 DEF ApplyToEndpoint, Write
    <3>5. endpoint[w] \in Endpoint \cup {None} /\ Written(endpoint[w], c) # endpoint[w]
      BY <1>1, <3>3, <3>4
    <3>6. /\ endpoint[w] # None =>
               /\ c.url = None => endpoint'[w].url = endpoint[w].url
               /\ c.active = None /\ c.kind # "deactivate" =>
                      endpoint'[w].active = endpoint[w].active
          /\ c.url # None => endpoint'[w].url = c.url
          /\ c.active # None => endpoint'[w].active = c.active
          /\ c.kind = "deactivate" => ~endpoint'[w].active
      BY <3>2, <3>4, <3>5, WrittenRow
    <3>7. c.url # None => endpoint'[w].url = p
      BY <3>2, <3>6
    <3>8. QED
      BY <3>1, <3>2, <3>4, <3>6, <3>7
  <2>4. QED
    BY <2>1, <2>2, <2>3
<1>2. ProposalInv /\ [Next]_vars =>
        [\A w \in Webhooks : endpoint'[w] # endpoint[w] => Agreed(w)]_vars
  BY <1>1
<1>3. QED
  BY <1>2, ProposalInvariant, PTL DEF Spec, OnlyAgreedChangesLand
=============================================================================
