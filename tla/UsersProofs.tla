---------------------------- MODULE UsersProofs -----------------------------
(***************************************************************************)
(* Proofs about GatewayUsers for any handlers, names, passwords and IDs.   *)
(***************************************************************************)
EXTENDS GatewayUsers, TLAPS

\* A step gives the handler its next request and leaves the others alone.
LEMMA GoesOn ==
  ASSUME request \in [Handler -> Request],
         NEW h \in Handler, NEW r \in Request, Goes(h, r)
  PROVE  /\ request' \in [Handler -> Request]
         /\ request'[h] = r
         /\ \A k \in Handler \ {h} : request'[k] = request[k]
  BY DEF Goes

\* What a request carries depends on where it is.
LEMMA RequestCarries ==
  ASSUME NEW r \in Request
  PROVE  /\ r.at \in {"create", "find"} => r.name \in Name /\ r.password \in Password
         /\ r.at = "found" => /\ r.row \in Row \cup {NoRow}
                             /\ r.name \in Name /\ r.password \in Password
         /\ r.at = "beat" => r.who \in Principal
         /\ r.at = "mget" => r.ids \in SUBSET ID
         /\ r.at = "listed" => r.users \in SUBSET Principal
  BY DEF Request, Idle

\* The requests a step can go on to.
LEMMA RequestsMade ==
  /\ Idle \in Request
  /\ [at |-> "keys"] \in Request
  /\ \A n \in Name, w \in Password :
       /\ [at |-> "create", name |-> n, password |-> w] \in Request
       /\ [at |-> "find", name |-> n, password |-> w] \in Request
  /\ \A n \in Name, w \in Password, row \in Row \cup {NoRow} :
       [at |-> "found", name |-> n, password |-> w, row |-> row] \in Request
  /\ \A p \in Principal : [at |-> "beat", who |-> p] \in Request
  /\ \A ids \in SUBSET ID : [at |-> "mget", ids |-> ids] \in Request
  /\ \A ps \in SUBSET Principal : [at |-> "listed", users |-> ps] \in Request
  BY DEF Request

\* The IDs of principals.
LEMMA IDsOfPrincipals ==
  ASSUME NEW ps \in SUBSET Principal
  PROVE  IDs(ps) \in SUBSET ID
  BY DEF IDs, Principal
-----------------------------------------------------------------------------
\* The type invariant of accounts, tokens, records and handlers.
THEOREM UsersTypes == UsersSafety => []UsersTypeOK
<1>1. UsersInit => UsersTypeOK
  BY RequestsMade DEF UsersInit, UsersTypeOK, NoSpan
<1>2. UsersTypeOK /\ [UsersNext]_usersVars => UsersTypeOK'
  <2> SUFFICES ASSUME UsersTypeOK, [UsersNext]_usersVars PROVE UsersTypeOK'
    OBVIOUS
  <2> USE DEF UsersTypeOK
  <2>1. CASE UNCHANGED usersVars
    BY <2>1 DEF usersVars
  <2>2. ASSUME NEW h \in Handler, HandlerStep(h) PROVE UsersTypeOK'
    <3>0. request[h] \in Request
      OBVIOUS
    <3>1. ASSUME NEW n \in Name, NEW w \in Password, RegisterBegins(h, n, w) PROVE UsersTypeOK'
      BY <3>1, GoesOn, RequestsMade DEF RegisterBegins
    <3>2. ASSUME NEW n \in Name, NEW w \in Password, LoginBegins(h, n, w) PROVE UsersTypeOK'
      BY <3>2, GoesOn, RequestsMade DEF LoginBegins
    <3>3. CASE Create(h)
      <4>1. request' \in [Handler -> Request]
        BY <3>3, GoesOn, RequestsMade DEF Create
      <4>2. rows' \in SUBSET Row
        <5>1. request[h].name \in Name /\ request[h].password \in Password
          BY <3>0, <3>3, RequestCarries DEF Create
        <5> QED  BY <3>3, <5>1 DEF Create, Row
      <4> QED  BY <3>3, <4>1, <4>2 DEF Create
    <3>4. CASE CreateFails(h)
      BY <3>4, GoesOn, RequestsMade DEF CreateFails
    <3>5. CASE FindByUsername(h)
      <4>1. request[h].name \in Name /\ request[h].password \in Password
        BY <3>0, <3>5, RequestCarries DEF FindByUsername
      <4>2. PICK n \in Name, w \in Password, row \in rows \cup {NoRow} :
              Goes(h, [at |-> "found", name |-> n, password |-> w, row |-> row])
        BY <3>5, <4>1 DEF FindByUsername
      <4>3. [at |-> "found", name |-> n, password |-> w, row |-> row] \in Request
        BY RequestsMade
      <4>4. request' \in [Handler -> Request]
        BY <4>2, <4>3, GoesOn
      <4> QED  BY <3>5, <4>4 DEF FindByUsername
    <3>6. CASE Issue(h)
      <4>1. request' \in [Handler -> Request]
        BY <3>6, GoesOn, RequestsMade DEF Issue
      <4>2. request[h].row \in Row /\ request[h].name \in Name
        BY <3>0, <3>6, RequestCarries DEF Issue, PasswordMatches
      <4> QED  BY <3>6, <4>1, <4>2 DEF Issue, Row, Principal
    <3>7. CASE LoginFails(h)
      BY <3>7, GoesOn, RequestsMade DEF LoginFails
    <3>8. ASSUME NEW p \in tokens, HeartBeat(h, p) PROVE UsersTypeOK'
      <4>1. [at |-> "beat", who |-> p] \in Request
        BY RequestsMade
      <4>2. request' \in [Handler -> Request]
        BY <3>8, <4>1, GoesOn DEF HeartBeat
      <4> QED  BY <3>8, <4>2 DEF HeartBeat
    <3>9. ASSUME NEW p \in tokens, ActiveUsers(h, p) PROVE UsersTypeOK'
      <4>1. request' \in [Handler -> Request]
        BY <3>9, GoesOn, RequestsMade DEF ActiveUsers
      <4> QED  BY <3>9, <4>1 DEF ActiveUsers
    <3>10. CASE StoreActive(h)
      <4>1. request' \in [Handler -> Request]
        BY <3>10, GoesOn, RequestsMade DEF StoreActive
      <4>2. request[h].who \in Principal
        BY <3>0, <3>10, RequestCarries DEF StoreActive
      <4>3. active' \in SUBSET Principal
        BY <3>10, <4>2 DEF StoreActive
      <4>4. span' \in [Handler -> [ever : SUBSET Principal, always : SUBSET Principal]]
        BY <3>10, <4>2 DEF StoreActive
      <4> QED  BY <3>10, <4>1, <4>3, <4>4 DEF StoreActive
    <3>11. CASE StoreActiveFails(h)
      BY <3>11, GoesOn, RequestsMade DEF StoreActiveFails
    <3>12. CASE Keys(h)
      <4>1. IDs(active) \in SUBSET ID
        BY IDsOfPrincipals
      <4>2. request' \in [Handler -> Request]
        BY <3>12, <4>1, GoesOn, RequestsMade DEF Keys
      <4> QED  BY <3>12, <4>2 DEF Keys
    <3>13. CASE MGet(h)
      <4> DEFINE found == {a \in active : a.id \in request[h].ids}
      <4>1. found \in SUBSET Principal
        OBVIOUS
      <4>2. [at |-> "listed", users |-> found] \in Request
        BY <4>1, RequestsMade
      <4>3. request' \in [Handler -> Request]
        BY <3>13, <4>2, GoesOn DEF MGet
      <4> QED  BY <3>13, <4>3 DEF MGet
    <3>14. CASE ListFails(h)
      <4>1. request' \in [Handler -> Request]
        BY <3>14, GoesOn, RequestsMade DEF ListFails
      <4> QED  BY <3>14, <4>1 DEF ListFails, NoSpan
    <3>15. CASE Respond(h)
      <4>1. request' \in [Handler -> Request]
        BY <3>15, GoesOn, RequestsMade DEF Respond
      <4> QED  BY <3>15, <4>1 DEF Respond, NoSpan
    <3> QED  BY <2>2, <3>1, <3>2, <3>3, <3>4, <3>5, <3>6, <3>7, <3>8, <3>9, <3>10,
                <3>11, <3>12, <3>13, <3>14, <3>15 DEF HandlerStep
  <2>3. ASSUME NEW p \in tokens, TokenExpires(p) PROVE UsersTypeOK'
    BY <2>3 DEF TokenExpires
  <2>4. ASSUME NEW p \in active, RecordExpires(p) PROVE UsersTypeOK'
    BY <2>4 DEF RecordExpires
  <2> QED  BY <2>1, <2>2, <2>3, <2>4 DEF UsersNext
<1> QED  BY <1>1, <1>2, PTL DEF UsersSafety
-----------------------------------------------------------------------------
\* p has the ID and the name of a row.
Known(p) == \E r \in rows : r.id = p.id /\ r.name = p.name

\* What one handler holds about users agrees with the rows.
HolderOK(r) ==
  /\ r.at = "found" => \/ r.row = NoRow
                       \/ r.row \in rows /\ r.row.name = r.name
  /\ r.at = "beat" => Known(r.who)
  /\ r.at = "listed" => \A p \in r.users : Known(p)

\* The inductive invariant of OneUserPerName: a login that has found a row
\* carries the row of its name, and rows stay.
AccountsInv ==
  /\ UsersTypeOK
  /\ \A r, s \in rows : r.name = s.name \/ r.id = s.id => r = s
  /\ \A p \in tokens \cup active : Known(p)
  /\ \A h \in Handler : HolderOK(request[h])

\* A handler that goes on to what agrees with the rows leaves all handlers in
\* agreement, because rows are only added.
LEMMA HoldersStay ==
  ASSUME AccountsInv, rows \subseteq rows',
         NEW h \in Handler, NEW r \in Request, Goes(h, r), HolderOK(r)'
  PROVE  \A k \in Handler : HolderOK(request[k])'
<1>1. /\ request'[h] = r
      /\ \A k \in Handler \ {h} : request'[k] = request[k]
  BY GoesOn DEF AccountsInv, UsersTypeOK
<1>2. \A k \in Handler : HolderOK(request[k])
  BY DEF AccountsInv
<1>3. \A p : Known(p) => Known(p)'
  BY DEF Known
<1>4. ASSUME NEW k \in Handler, k # h PROVE HolderOK(request[k])'
  BY <1>1, <1>2, <1>3, <1>4 DEF HolderOK
<1> QED  BY <1>1, <1>4 DEF HolderOK

\* Every step keeps what is known about users in agreement with the rows.
LEMMA AccountsStep ==
  ASSUME AccountsInv, UsersTypeOK', [UsersNext]_usersVars
  PROVE  AccountsInv'
<1> USE DEF AccountsInv
<1>1. CASE UNCHANGED usersVars
  BY <1>1 DEF usersVars, UsersTypeOK, HolderOK, Known
<1>2. ASSUME NEW h \in Handler, HandlerStep(h) PROVE AccountsInv'
  <2>0. request[h] \in Request /\ HolderOK(request[h])
    BY DEF UsersTypeOK
  <2>1. ASSUME rows' = rows, tokens' = tokens, active' \subseteq active,
               NEW r \in Request, Goes(h, r), r.at \notin {"found", "beat", "listed"}
        PROVE  AccountsInv'
    <3>1. HolderOK(r)'
      BY <2>1 DEF HolderOK
    <3>2. \A k \in Handler : HolderOK(request[k])'
      BY <2>1, <3>1, HoldersStay
    <3> QED  BY <2>1, <3>2 DEF Known
  <2>2. ASSUME NEW n \in Name, NEW w \in Password, RegisterBegins(h, n, w) PROVE AccountsInv'
    BY <2>2, <2>1, RequestsMade DEF RegisterBegins
  <2>3. ASSUME NEW n \in Name, NEW w \in Password, LoginBegins(h, n, w) PROVE AccountsInv'
    BY <2>3, <2>1, RequestsMade DEF LoginBegins
  <2>4. CASE Create(h)
    <3>1. PICK i \in ID \ IDs(rows) :
            rows' = rows \cup {[id |-> i, name |-> request[h].name,
                                password |-> request[h].password]}
      BY <2>4 DEF Create
    <3>2. \A r, s \in rows' : r.name = s.name \/ r.id = s.id => r = s
      BY <2>4, <3>1 DEF Create, IDs
    <3>3. HolderOK(Idle)'
      BY DEF HolderOK, Idle
    <3>4. \A k \in Handler : HolderOK(request[k])'
      BY <2>4, <3>1, <3>3, HoldersStay, RequestsMade DEF Create
    <3>5. \A p \in (tokens \cup active)' : Known(p)'
      BY <2>4, <3>1 DEF Create, Known
    <3> QED  BY <3>2, <3>4, <3>5
  <2>5. CASE CreateFails(h)
    BY <2>5, <2>1, RequestsMade DEF CreateFails, Idle
  <2>6. CASE FindByUsername(h)
    <3>1. PICK n \in Name, w \in Password, row \in rows \cup {NoRow} :
            /\ Goes(h, [at |-> "found", name |-> n, password |-> w, row |-> row])
            /\ row # NoRow => row.name = n
      <4>1. request[h].name \in Name /\ request[h].password \in Password
        BY <2>0, <2>6, RequestCarries DEF FindByUsername
      <4> QED  BY <2>6, <4>1 DEF FindByUsername
    <3>2. [at |-> "found", name |-> n, password |-> w, row |-> row] \in Request
      BY RequestsMade DEF UsersTypeOK
    <3>3. HolderOK([at |-> "found", name |-> n, password |-> w, row |-> row])'
      BY <2>6, <3>1 DEF HolderOK, FindByUsername
    <3>4. \A k \in Handler : HolderOK(request[k])'
      BY <2>6, <3>1, <3>2, <3>3, HoldersStay DEF FindByUsername
    <3> QED  BY <2>6, <3>4 DEF FindByUsername, Known
  <2>7. CASE Issue(h)
    <3>1. request[h].row \in rows /\ request[h].row.name = request[h].name
      BY <2>0, <2>7 DEF Issue, PasswordMatches, HolderOK
    <3>2. Known([id |-> request[h].row.id, name |-> request[h].name])
      BY <3>1 DEF Known
    <3>3. \A p \in (tokens \cup active)' : Known(p)'
      BY <2>7, <3>2 DEF Issue, Known
    <3>4. HolderOK(Idle)'
      BY DEF HolderOK, Idle
    <3>5. \A k \in Handler : HolderOK(request[k])'
      BY <2>7, <3>4, HoldersStay, RequestsMade DEF Issue
    <3> QED  BY <2>7, <3>3, <3>5 DEF Issue
  <2>8. CASE LoginFails(h)
    BY <2>8, <2>1, RequestsMade DEF LoginFails, Idle
  <2>9. ASSUME NEW p \in tokens, HeartBeat(h, p) PROVE AccountsInv'
    <3>1. [at |-> "beat", who |-> p] \in Request
      BY RequestsMade DEF UsersTypeOK
    <3>2. HolderOK([at |-> "beat", who |-> p])'
      BY <2>9 DEF HolderOK, HeartBeat, Known
    <3>3. \A k \in Handler : HolderOK(request[k])'
      BY <2>9, <3>1, <3>2, HoldersStay DEF HeartBeat
    <3> QED  BY <2>9, <3>3 DEF HeartBeat, Known
  <2>10. ASSUME NEW p \in tokens, ActiveUsers(h, p) PROVE AccountsInv'
    BY <2>10, <2>1, RequestsMade DEF ActiveUsers
  <2>11. CASE StoreActive(h)
    <3>1. Known(request[h].who)
      BY <2>0, <2>11 DEF StoreActive, HolderOK
    <3>2. \A p \in (tokens \cup active)' : Known(p)'
      BY <2>11, <3>1 DEF StoreActive, Known
    <3>3. HolderOK(Idle)'
      BY DEF HolderOK, Idle
    <3>4. \A k \in Handler : HolderOK(request[k])'
      BY <2>11, <3>3, HoldersStay, RequestsMade DEF StoreActive
    <3> QED  BY <2>11, <3>2, <3>4 DEF StoreActive
  <2>12. CASE StoreActiveFails(h)
    BY <2>12, <2>1, RequestsMade DEF StoreActiveFails, Idle
  <2>13. ASSUME NEW ps \in SUBSET active, Goes(h, [at |-> "listed", users |-> ps]),
                UNCHANGED <<rows, tokens, active>>
         PROVE  AccountsInv'
    <3>1. [at |-> "listed", users |-> ps] \in Request
      BY RequestsMade DEF UsersTypeOK
    <3>2. HolderOK([at |-> "listed", users |-> ps])'
      BY <2>13 DEF HolderOK, Known
    <3>3. \A k \in Handler : HolderOK(request[k])'
      BY <2>13, <3>1, <3>2, HoldersStay
    <3> QED  BY <2>13, <3>3 DEF Known
  <2>14. CASE Keys(h)
    <3>1. CASE active = {}
      BY <2>14, <3>1, <2>13 DEF Keys
    <3>2. CASE active # {}
      <4>1. [at |-> "mget", ids |-> IDs(active)] \in Request
        BY IDsOfPrincipals, RequestsMade DEF UsersTypeOK
      <4> QED  BY <2>14, <3>2, <4>1, <2>1 DEF Keys
    <3> QED  BY <3>1, <3>2
  <2>15. CASE MGet(h)
    BY <2>15, <2>13 DEF MGet
  <2>16. CASE ListFails(h)
    BY <2>16, <2>1, RequestsMade DEF ListFails, Idle
  <2>17. CASE Respond(h)
    BY <2>17, <2>1, RequestsMade DEF Respond, Idle
  <2> QED  BY <1>2, <2>2, <2>3, <2>4, <2>5, <2>6, <2>7, <2>8, <2>9, <2>10, <2>11,
              <2>12, <2>14, <2>15, <2>16, <2>17 DEF HandlerStep
<1>3. ASSUME NEW p \in tokens, TokenExpires(p) PROVE AccountsInv'
  BY <1>3 DEF TokenExpires, HolderOK, Known
<1>4. ASSUME NEW p \in active, RecordExpires(p) PROVE AccountsInv'
  BY <1>4 DEF RecordExpires, HolderOK, Known
<1> QED  BY <1>1, <1>2, <1>3, <1>4 DEF UsersNext

\* A name means one user, whatever registers, logs in and expires in between.
THEOREM OneUser == UsersSafety => []OneUserPerName
<1>1. UsersInit => AccountsInv
  BY RequestsMade DEF UsersInit, AccountsInv, UsersTypeOK, NoSpan, HolderOK, Idle
<1>2. AccountsInv /\ UsersTypeOK' /\ [UsersNext]_usersVars => AccountsInv'
  BY AccountsStep
<1>3. AccountsInv => OneUserPerName
  BY DEF AccountsInv, HolderOK, OneUserPerName, Known
<1> QED  BY UsersTypes, <1>1, <1>2, <1>3, PTL DEF UsersSafety
-----------------------------------------------------------------------------
\* The inductive invariant of ListMatchesSpan, for one handler.
SpanOK(h) ==
  /\ request[h].at \in {"keys", "mget"} =>
       span[h].always \subseteq active /\ active \subseteq span[h].ever
  /\ request[h].at = "mget" => IDs(span[h].always) \subseteq request[h].ids
  /\ request[h].at = "listed" =>
       /\ span[h].always \subseteq request[h].users
       /\ request[h].users \subseteq span[h].ever

\* A handler that leaves the records alone disturbs no other handler's list.
LEMMA SpansStay ==
  ASSUME UsersTypeOK, \A k \in Handler : SpanOK(k),
         NEW h \in Handler, NEW r \in Request, Goes(h, r), active' = active,
         \A k \in Handler \ {h} : span'[k] = span[k],
         SpanOK(h)'
  PROVE  \A k \in Handler : SpanOK(k)'
<1>1. \A k \in Handler \ {h} : request'[k] = request[k]
  BY GoesOn DEF UsersTypeOK
<1>2. ASSUME NEW k \in Handler, k # h PROVE SpanOK(k)'
  BY <1>1, <1>2 DEF SpanOK
<1> QED  BY <1>2

\* Two heartbeats under one ID are of one user, so that storing the one does
\* not take away the record of another user.
LEMMA StoreReplacesOwn ==
  ASSUME AccountsInv, NEW h \in Handler, request[h].at = "beat",
         NEW a \in active, a.id = request[h].who.id
  PROVE  a = request[h].who
<1>1. a \in Principal /\ request[h].who \in Principal
  BY RequestCarries DEF AccountsInv, UsersTypeOK
<1>2. Known(a) /\ Known(request[h].who)
  BY DEF AccountsInv, HolderOK
<1>3. a.name = request[h].who.name
  BY <1>2 DEF AccountsInv, Known
<1> QED  BY <1>1, <1>3 DEF Principal

\* Every step keeps the lists under way within their spans.
LEMMA SpansStep ==
  ASSUME AccountsInv, \A h \in Handler : SpanOK(h), [UsersNext]_usersVars
  PROVE  \A h \in Handler : SpanOK(h)'
<1>0. UsersTypeOK
  BY DEF AccountsInv
<1>1. CASE UNCHANGED usersVars
  BY <1>1 DEF usersVars, SpanOK
<1>2. ASSUME NEW h \in Handler, HandlerStep(h) PROVE \A k \in Handler : SpanOK(k)'
  <2>1. ASSUME active' = active, span' = span, NEW r \in Request, Goes(h, r),
               r.at \notin {"keys", "mget", "listed"}
        PROVE  \A k \in Handler : SpanOK(k)'
    <3>1. request'[h] = r
      BY <1>0, <2>1, GoesOn DEF UsersTypeOK
    <3>2. SpanOK(h)'
      BY <2>1, <3>1 DEF SpanOK
    <3> QED  BY <1>0, <2>1, <3>2, SpansStay
  <2>2. ASSUME NEW n \in Name, NEW w \in Password, RegisterBegins(h, n, w)
        PROVE  \A k \in Handler : SpanOK(k)'
    BY <2>2, <2>1, RequestsMade DEF RegisterBegins
  <2>3. ASSUME NEW n \in Name, NEW w \in Password, LoginBegins(h, n, w)
        PROVE  \A k \in Handler : SpanOK(k)'
    BY <2>3, <2>1, RequestsMade DEF LoginBegins
  <2>4. CASE Create(h) \/ CreateFails(h) \/ Issue(h) \/ LoginFails(h) \/ StoreActiveFails(h)
    BY <2>4, <2>1, RequestsMade
       DEF Create, CreateFails, Issue, LoginFails, StoreActiveFails, Idle
  <2>5. CASE FindByUsername(h)
    <3>1. PICK n \in Name, w \in Password, row \in Row \cup {NoRow} :
            Goes(h, [at |-> "found", name |-> n, password |-> w, row |-> row])
      <4>1. request[h].name \in Name /\ request[h].password \in Password
        BY <1>0, <2>5, RequestCarries DEF FindByUsername, UsersTypeOK
      <4> QED  BY <1>0, <2>5, <4>1 DEF FindByUsername, UsersTypeOK
    <3>2. [at |-> "found", name |-> n, password |-> w, row |-> row] \in Request
      BY RequestsMade
    <3> QED  BY <2>5, <3>1, <3>2, <2>1 DEF FindByUsername
  <2>6. ASSUME NEW p \in tokens, HeartBeat(h, p) PROVE \A k \in Handler : SpanOK(k)'
    <3>1. [at |-> "beat", who |-> p] \in Request
      BY <1>0, RequestsMade DEF UsersTypeOK
    <3> QED  BY <2>6, <3>1, <2>1 DEF HeartBeat
  <2>7. ASSUME NEW p \in tokens, ActiveUsers(h, p) PROVE \A k \in Handler : SpanOK(k)'
    <3>1. request'[h] = [at |-> "keys"]
      BY <1>0, <2>7, GoesOn, RequestsMade DEF ActiveUsers, UsersTypeOK
    <3>2. /\ span'[h] = [ever |-> active, always |-> active]
          /\ \A k \in Handler \ {h} : span'[k] = span[k]
      BY <1>0, <2>7 DEF ActiveUsers, UsersTypeOK
    <3>3. SpanOK(h)'
      BY <2>7, <3>1, <3>2 DEF SpanOK, ActiveUsers
    <3> QED  BY <1>0, <2>7, <3>2, <3>3, SpansStay, RequestsMade DEF ActiveUsers
  <2>8. CASE StoreActive(h)
    <3>1. active \subseteq active' /\ active' = active \cup {request[h].who}
      BY <2>8, StoreReplacesOwn DEF StoreActive
    <3>2. /\ request'[h] = Idle
          /\ \A k \in Handler \ {h} : request'[k] = request[k]
      BY <1>0, <2>8, GoesOn, RequestsMade DEF StoreActive, UsersTypeOK
    <3>3. \A k \in Handler : Listing(k) =>
            /\ span'[k].always = span[k].always
            /\ span'[k].ever = span[k].ever \cup {request[h].who}
      BY <1>0, <2>8 DEF StoreActive, UsersTypeOK
    <3>4. ASSUME NEW k \in Handler, k # h PROVE SpanOK(k)'
      <4>1. CASE Listing(k)
        BY <3>1, <3>2, <3>3, <3>4, <4>1 DEF SpanOK, IDs
      <4>2. CASE ~Listing(k)
        BY <3>2, <3>4, <4>2 DEF SpanOK, Listing
      <4> QED  BY <4>1, <4>2
    <3>5. SpanOK(h)'
      BY <3>2 DEF SpanOK, Idle
    <3> QED  BY <3>4, <3>5
  <2>9. CASE Keys(h)
    <3>1. CASE active = {}
      <4>1. request'[h] = [at |-> "listed", users |-> {}]
        BY <1>0, <2>9, <3>1, GoesOn, RequestsMade DEF Keys, UsersTypeOK
      <4>2. SpanOK(h)'
        BY <2>9, <3>1, <4>1 DEF SpanOK, Keys
      <4> QED  BY <1>0, <2>9, <3>1, <4>2, SpansStay, RequestsMade DEF Keys
    <3>2. CASE active # {}
      <4>1. [at |-> "mget", ids |-> IDs(active)] \in Request
        BY <1>0, IDsOfPrincipals, RequestsMade DEF UsersTypeOK
      <4>2. request'[h] = [at |-> "mget", ids |-> IDs(active)]
        BY <1>0, <2>9, <3>2, <4>1, GoesOn DEF Keys, UsersTypeOK
      <4>3. IDs(span[h].always) \subseteq IDs(active)
        BY <2>9 DEF SpanOK, Keys, IDs
      <4>4. SpanOK(h)'
        BY <2>9, <4>2, <4>3 DEF SpanOK, Keys, IDs
      <4> QED  BY <1>0, <2>9, <3>2, <4>1, <4>4, SpansStay DEF Keys
    <3> QED  BY <3>1, <3>2
  <2>10. CASE MGet(h)
    <3> DEFINE found == {a \in active : a.id \in request[h].ids}
    <3>1. [at |-> "listed", users |-> found] \in Request
      BY <1>0, RequestsMade DEF UsersTypeOK
    <3>2. request'[h] = [at |-> "listed", users |-> found]
      BY <1>0, <2>10, <3>1, GoesOn DEF MGet, UsersTypeOK
    <3>3. span[h].always \subseteq found /\ found \subseteq span[h].ever
      BY <2>10 DEF SpanOK, MGet, IDs
    <3>4. SpanOK(h)'
      BY <2>10, <3>2, <3>3 DEF SpanOK, MGet
    <3> QED  BY <1>0, <2>10, <3>1, <3>4, SpansStay DEF MGet
  <2>11. CASE ListFails(h) \/ Respond(h)
    <3>1. request'[h] = Idle /\ Goes(h, Idle) /\ active' = active
      BY <1>0, <2>11, GoesOn, RequestsMade DEF ListFails, Respond, UsersTypeOK
    <3>2. SpanOK(h)'
      BY <3>1 DEF SpanOK, Idle
    <3>3. \A k \in Handler \ {h} : span'[k] = span[k]
      BY <1>0, <2>11 DEF ListFails, Respond, UsersTypeOK
    <3> QED  BY <1>0, <3>1, <3>2, <3>3, SpansStay, RequestsMade
  <2> QED  BY <1>2, <2>2, <2>3, <2>4, <2>5, <2>6, <2>7, <2>8, <2>9, <2>10, <2>11
           DEF HandlerStep
<1>3. ASSUME NEW p \in tokens, TokenExpires(p) PROVE \A h \in Handler : SpanOK(h)'
  BY <1>3 DEF TokenExpires, SpanOK
<1>4. ASSUME NEW p \in active, RecordExpires(p) PROVE \A h \in Handler : SpanOK(h)'
  <2>1. \A k \in Handler : Listing(k) =>
          /\ span'[k].always = span[k].always \ {p}
          /\ span'[k].ever = span[k].ever
    BY <1>0, <1>4 DEF RecordExpires, UsersTypeOK
  <2> QED  BY <1>4, <2>1 DEF RecordExpires, SpanOK, Listing, IDs
<1> QED  BY <1>1, <1>2, <1>3, <1>4 DEF UsersNext

\* KEYS and MGET together list whoever was active all the time, and nobody who
\* was not active at any time of the listing.
THEOREM ListsMatchSpans == UsersSafety => []ListMatchesSpan
<1> DEFINE Inv == AccountsInv /\ \A h \in Handler : SpanOK(h)
<1>1. UsersInit => Inv
  BY RequestsMade
     DEF UsersInit, AccountsInv, UsersTypeOK, NoSpan, HolderOK, SpanOK, Idle
<1>2. Inv /\ UsersTypeOK' /\ [UsersNext]_usersVars => Inv'
  BY AccountsStep, SpansStep
<1>3. Inv => ListMatchesSpan
  BY DEF SpanOK, ListMatchesSpan
<1> QED  BY UsersTypes, <1>1, <1>2, <1>3, PTL DEF UsersSafety
=============================================================================
